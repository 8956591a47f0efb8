--------------------------- MODULE NetworkProofs ---------------------------
(***************************************************************************)
(* Proofs about the parts of a scan that ask the network: the watchtower   *)
(* check, for any list of towers and any outcome of the dials; what is     *)
(* kept of a string from the node, for strings of any length; and the live *)
(* checks, for any number of channels, any amounts, limits and versions,   *)
(* and any number of moves of the node.                                    *)
(***************************************************************************)
EXTENDS LiveScan, TowerProbe, Sanitizer, FoldTheorems, TLAPS

-----------------------------------------------------------------------------
(* The watchtowers *)

TowerTypeOK ==
  /\ given \in Inputs
  /\ visited \in 0..Len(given.towers)
  /\ reachable \in Nat /\ unreachable \in Nat /\ onionOnly \in Nat /\ malformed \in Nat

Seen(i) == i \in Numbers /\ i <= visited

\* Each counter is positive if there is such a tower among those visited.
CountersTellKinds ==
  /\ \A i \in answered : i \in Clearnet /\ Seen(i)
  /\ reachable > 0 <=> answered # {}
  /\ unreachable > 0 <=> given.probe /\ \E i \in Clearnet \ answered : Seen(i)
  /\ onionOnly > 0 <=> \E i \in Numbers \ (Malformed \cup Clearnet) : Seen(i)
  /\ malformed > 0 <=> \E i \in Malformed : Seen(i)

\* With probes every tower visited is counted, and counted once.
CountersAddUp ==
  /\ given.probe => reachable + unreachable + onionOnly + malformed = visited
  /\ ~given.active => visited = 0

TowerInv == TowerTypeOK /\ CountersTellKinds /\ CountersAddUp /\ TowersAreJudgedOneByOne

\* The kinds of towers are disjoint sets of their numbers.
LEMMA KindsOfNumbers ==
  ASSUME TowerTypeOK
  PROVE  /\ Numbers = 1..Len(given.towers) /\ Len(given.towers) \in Nat
         /\ Malformed \subseteq Numbers /\ Clearnet \subseteq Numbers
         /\ Malformed \cap Clearnet = {}
         /\ given.towers = <<>> <=> Numbers = {}
<1>1. given.towers \in Seq(Towers)
  BY DEF TowerTypeOK, Inputs
<1>2. Numbers = 1..Len(given.towers) /\ Len(given.towers) \in Nat
  BY <1>1 DEF Numbers
<1>3. given.towers = <<>> <=> Len(given.towers) = 0
  BY <1>1
<1> QED BY <1>2, <1>3 DEF Malformed, Clearnet

\* Initially no tower is visited and nothing counted.
LEMMA TowersBegin == TowerInit => TowerInv
<1> SUFFICES ASSUME TowerInit PROVE TowerInv
  OBVIOUS
<1>1. given \in Inputs
  BY TowerAssumption DEF TowerInit
<1>2. Len(given.towers) \in Nat
  BY <1>1 DEF Inputs
<1>3. TowerTypeOK
  BY <1>1, <1>2 DEF TowerInit, TowerTypeOK
<1>4. \A i : ~Seen(i)
  BY <1>3, KindsOfNumbers DEF TowerInit, Seen
<1>5. CountersTellKinds /\ CountersAddUp /\ TowersAreJudgedOneByOne
  BY <1>4 DEF TowerInit, CountersTellKinds, CountersAddUp, TowersAreJudgedOneByOne
<1> QED BY <1>3, <1>5 DEF TowerInv

\* What every visit of the loop does to the numbers.
LEMMA VisitSees ==
  ASSUME TowerTypeOK, Looping, Visit
  PROVE  /\ visited' \in 0..Len(given'.towers) /\ given' = given
         /\ Numbers' = Numbers /\ Malformed' = Malformed /\ Clearnet' = Clearnet
         /\ visited + 1 \in Numbers /\ ~Seen(visited + 1)
         /\ \A i : Seen(i)' <=> Seen(i) \/ i = visited + 1
         /\ visited + 1 \in Malformed <=> ~WellFormed(Tower)
         /\ visited + 1 \in Clearnet <=> WellFormed(Tower) /\ ~Onion(Tower)
         /\ given.active /\ verdict = NoVerdict /\ verdict' = NoVerdict
<1>1. given' = given /\ visited' = visited + 1 /\ visited < Len(given.towers)
      /\ visited \in Nat /\ Len(given.towers) \in Nat
      /\ given.active /\ verdict = NoVerdict /\ verdict' = NoVerdict
  BY KindsOfNumbers DEF Looping, Visit, TowerTypeOK
<1>2. Numbers' = Numbers /\ Malformed' = Malformed /\ Clearnet' = Clearnet
  BY <1>1 DEF Numbers, Malformed, Clearnet
<1>3. visited + 1 \in Numbers
  BY <1>1, KindsOfNumbers
<1>4. \A i : Seen(i)' <=> Seen(i) \/ i = visited + 1
  <2> SUFFICES ASSUME NEW i PROVE Seen(i)' <=> Seen(i) \/ i = visited + 1
    OBVIOUS
  <2>1. CASE i \in Numbers
    BY <1>1, <1>2, <2>1, KindsOfNumbers DEF Seen
  <2>2. CASE i \notin Numbers
    BY <1>2, <1>3, <2>2 DEF Seen
  <2> QED BY <2>1, <2>2
<1>5. ~Seen(visited + 1)
  BY <1>1 DEF Seen
<1>6. /\ visited + 1 \in Malformed <=> ~WellFormed(Tower)
      /\ visited + 1 \in Clearnet <=> WellFormed(Tower) /\ ~Onion(Tower)
  BY <1>3 DEF Malformed, Clearnet, Tower
<1> QED BY <1>1, <1>2, <1>3, <1>4, <1>5, <1>6

\* The verdict read off the counters is the one read off the towers.
LEMMA VerdictIsRight ==
  ASSUME TowerInv, ReturnFindings
  PROVE  TowersAreJudgedOneByOne'
<1> USE DEF TowerInv
<1>1. given' = given /\ answered' = answered
      /\ Numbers' = Numbers /\ Malformed' = Malformed /\ Clearnet' = Clearnet
  BY DEF ReturnFindings, Numbers, Malformed, Clearnet
<1>2. CASE ~given.active
  <2>1. verdict' = {}
    BY <1>2 DEF ReturnFindings
  <2> QED BY <1>1, <1>2, <2>1 DEF TowersAreJudgedOneByOne
<1>3. CASE given.active /\ given.towers = <<>>
  <2>1. verdict' = {"C-6"}
    BY <1>3 DEF ReturnFindings
  <2>2. Numbers = {} /\ Malformed = {} /\ Clearnet = {}
    BY <1>3, KindsOfNumbers
  <2> QED BY <1>1, <1>3, <2>1, <2>2 DEF TowersAreJudgedOneByOne
<1>4. CASE given.active /\ given.towers # <<>>
  <2>1. visited = Len(given.towers) /\ Numbers # {}
    BY <1>4, KindsOfNumbers DEF ReturnFindings
  <2>2. \A i \in Numbers : Seen(i)
    BY <2>1, KindsOfNumbers DEF Seen
  <2>3. /\ answered \subseteq Clearnet
        /\ reachable > 0 <=> answered # {}
        /\ unreachable > 0 <=> given.probe /\ Clearnet \ answered # {}
        /\ onionOnly > 0 <=> Numbers \ (Malformed \cup Clearnet) # {}
        /\ malformed > 0 <=> Malformed # {}
    BY <2>2, KindsOfNumbers DEF CountersTellKinds
  <2>4. /\ reachable \in Nat /\ unreachable \in Nat /\ onionOnly \in Nat /\ malformed \in Nat
        /\ given.probe => reachable + unreachable + onionOnly + malformed = Len(given.towers)
    BY <2>1 DEF TowerTypeOK, CountersAddUp
  <2>5. given.probe =>
          (onionOnly + malformed = Len(given.towers) <=> ~(reachable > 0) /\ ~(unreachable > 0))
    BY <2>4
  <2>6. verdict' = (IF malformed > 0 THEN {"C-9"} ELSE {})
                     \cup (IF given.probe THEN ProbeFindings ELSE {})
    BY <1>4 DEF ReturnFindings
  <2>7. CASE ~given.probe
    <3>1. verdict' = IF malformed > 0 THEN {"C-9"} ELSE {}
      BY <2>6, <2>7
    <3> QED BY <1>1, <1>4, <2>1, <2>3, <2>7, <3>1 DEF TowersAreJudgedOneByOne
  <2>8. CASE given.probe
    <3>1. reachable = 0 <=> ~(reachable > 0)
      BY <2>4
    <3>2. ProbeFindings =
            IF answered = {} /\ Numbers \ (Malformed \cup Clearnet) # {} /\ Clearnet = {} THEN {"C-7"}
            ELSE IF answered = {} THEN {"C-8"}
            ELSE IF Clearnet \ answered # {} THEN {"C-13"}
            ELSE {}
      BY <2>3, <2>5, <2>8, <3>1 DEF ProbeFindings
    <3>3. verdict' = (IF Malformed # {} THEN {"C-9"} ELSE {}) \cup ProbeFindings
      BY <2>3, <2>6, <2>8
    <3>4. Malformed \subseteq Numbers /\ Clearnet \subseteq Numbers /\ Malformed \cap Clearnet = {}
      BY KindsOfNumbers
    <3>5. CASE answered = {} /\ Clearnet = {}
      <4>1. CASE Malformed = Numbers
        <5>1. ProbeFindings = {"C-8"}
          BY <3>2, <3>5, <4>1
        <5> QED BY <1>1, <1>4, <2>1, <2>8, <3>3, <3>5, <4>1, <5>1 DEF TowersAreJudgedOneByOne
      <4>2. CASE Malformed # Numbers
        <5>1. ProbeFindings = {"C-7"} /\ Numbers \ Malformed # {}
          BY <3>2, <3>4, <3>5, <4>2
        <5> QED BY <1>1, <1>4, <2>1, <2>8, <3>3, <3>5, <4>2, <5>1 DEF TowersAreJudgedOneByOne
      <4> QED BY <4>1, <4>2
    <3>6. CASE answered = {} /\ Clearnet # {}
      <4>1. ProbeFindings = {"C-8"}
        BY <3>2, <3>6
      <4> QED BY <1>1, <1>4, <2>1, <2>8, <3>3, <3>6, <4>1 DEF TowersAreJudgedOneByOne
    <3>7. CASE answered # {} /\ Clearnet \ answered # {}
      <4>1. ProbeFindings = {"C-13"} /\ Clearnet # {}
        BY <3>2, <3>7
      <4> QED BY <1>1, <1>4, <2>1, <2>8, <3>3, <3>7, <4>1 DEF TowersAreJudgedOneByOne
    <3>8. CASE answered # {} /\ Clearnet \ answered = {}
      <4>1. ProbeFindings = {} /\ answered = Clearnet /\ Clearnet # {}
        BY <2>3, <3>2, <3>8
      <4> QED BY <1>1, <1>4, <2>1, <2>8, <3>3, <3>8, <4>1 DEF TowersAreJudgedOneByOne
    <3> QED BY <3>5, <3>6, <3>7, <3>8
  <2> QED BY <2>7, <2>8
<1> QED BY <1>2, <1>3, <1>4

\* Every step keeps the inductive invariant.
LEMMA TowerStepKeeps ==
  ASSUME TowerInv, [TowerNext]_towerVars
  PROVE  TowerInv'
<1> USE DEF TowerInv
<1>1. ASSUME Looping, Visit,
             reachable' \in Nat, unreachable' \in Nat, onionOnly' \in Nat, malformed' \in Nat,
             CountersTellKinds', CountersAddUp'
      PROVE  TowerInv'
  <2>1. TowerTypeOK'
    BY <1>1, VisitSees DEF TowerTypeOK
  <2>2. TowersAreJudgedOneByOne'
    BY <1>1, VisitSees DEF TowersAreJudgedOneByOne
  <2> QED BY <1>1, <2>1, <2>2
<1>2. visited \in Nat /\ reachable \in Nat /\ unreachable \in Nat
      /\ onionOnly \in Nat /\ malformed \in Nat
  BY KindsOfNumbers DEF TowerTypeOK
<1>3. ASSUME SkipMalformed PROVE TowerInv'
  <2>1. Looping /\ Visit /\ ~WellFormed(Tower) /\ malformed' = malformed + 1
        /\ UNCHANGED <<reachable, unreachable, onionOnly, answered>>
    BY <1>3 DEF SkipMalformed
  <2>2. CountersTellKinds'
    BY <1>2, <2>1, VisitSees DEF CountersTellKinds
  <2>3. CountersAddUp'
    BY <1>2, <2>1, VisitSees DEF CountersAddUp, Visit
  <2> QED BY <1>1, <1>2, <2>1, <2>2, <2>3
<1>4. ASSUME SkipOnion PROVE TowerInv'
  <2>1. Looping /\ Visit /\ WellFormed(Tower) /\ Onion(Tower) /\ onionOnly' = onionOnly + 1
        /\ UNCHANGED <<reachable, unreachable, malformed, answered>>
    BY <1>4 DEF SkipOnion
  <2>2. CountersTellKinds'
    BY <1>2, <2>1, VisitSees DEF CountersTellKinds
  <2>3. CountersAddUp'
    BY <1>2, <2>1, VisitSees DEF CountersAddUp, Visit
  <2> QED BY <1>1, <1>2, <2>1, <2>2, <2>3
<1>5. ASSUME SkipUnprobed PROVE TowerInv'
  <2>1. Looping /\ Visit /\ WellFormed(Tower) /\ ~Onion(Tower) /\ ~given.probe
        /\ UNCHANGED <<reachable, unreachable, onionOnly, malformed, answered>>
    BY <1>5 DEF SkipUnprobed, counters
  <2>2. CountersTellKinds'
    BY <1>2, <2>1, VisitSees DEF CountersTellKinds
  <2>3. CountersAddUp'
    BY <1>2, <2>1, VisitSees DEF CountersAddUp
  <2> QED BY <1>1, <1>2, <2>1, <2>2, <2>3
<1>6. ASSUME Dial PROVE TowerInv'
  <2>1. Looping /\ Visit /\ WellFormed(Tower) /\ ~Onion(Tower) /\ given.probe
        /\ UNCHANGED <<onionOnly, malformed>>
    BY <1>6 DEF Dial
  <2>2. CASE reachable' = reachable + 1 /\ answered' = answered \cup {visited + 1}
             /\ unreachable' = unreachable
    <3>1. CountersTellKinds'
      BY <1>2, <2>1, <2>2, VisitSees DEF CountersTellKinds
    <3>2. CountersAddUp'
      BY <1>2, <2>1, <2>2, VisitSees DEF CountersAddUp, Visit
    <3> QED BY <1>1, <1>2, <2>1, <2>2, <3>1, <3>2
  <2>3. CASE unreachable' = unreachable + 1 /\ UNCHANGED <<reachable, answered>>
    <3>1. CountersTellKinds'
      BY <1>2, <2>1, <2>3, VisitSees DEF CountersTellKinds
    <3>2. CountersAddUp'
      BY <1>2, <2>1, <2>3, VisitSees DEF CountersAddUp, Visit
    <3> QED BY <1>1, <1>2, <2>1, <2>3, <3>1, <3>2
  <2> QED BY <1>6, <2>2, <2>3 DEF Dial
<1>7. ASSUME ReturnFindings PROVE TowerInv'
  <2>1. UNCHANGED <<given, visited, reachable, unreachable, onionOnly, malformed, answered>>
    BY <1>7 DEF ReturnFindings, counters
  <2>2. TowerTypeOK' /\ CountersTellKinds' /\ CountersAddUp'
    BY <2>1 DEF TowerTypeOK, CountersTellKinds, CountersAddUp, Numbers, Malformed, Clearnet, Seen
  <2> QED BY <1>7, <2>2, VerdictIsRight
<1>8. ASSUME UNCHANGED towerVars PROVE TowerInv'
  BY <1>8 DEF towerVars, counters, TowerTypeOK, CountersTellKinds, CountersAddUp,
              TowersAreJudgedOneByOne, Numbers, Malformed, Clearnet, Seen
<1> QED BY <1>3, <1>4, <1>5, <1>6, <1>7, <1>8 DEF TowerNext

\* The counters count the towers of their kinds that the loop is through with, in
\* every run (watchtower_connectivity.go:38-64).
THEOREM TowerInvariance == TowerSpec => []TowerInv
<1>1. TowerInit => TowerInv
  BY TowersBegin
<1>2. TowerInv /\ [TowerNext]_towerVars => TowerInv'
  BY TowerStepKeeps
<1> QED BY <1>1, <1>2, PTL DEF TowerSpec

\* Whatever the towers and however the dials end, the counters lead to the
\* verdict that each tower, looked at on its own, gives.
\* (watchtower_connectivity.go:20-122)
THEOREM TowersCorrect == TowerSpec => []TowersAreJudgedOneByOne
<1>1. TowerInv => TowersAreJudgedOneByOne
  BY DEF TowerInv
<1> QED BY <1>1, TowerInvariance, PTL

-----------------------------------------------------------------------------
(* What is kept of a string *)

Modes == {"text", "escape", "CSI", "OSC"}

TerminalState == [mode : Modes, shown : Seq(Runes)]

\* What the terminal has read when the function is to read the next rune.
ReadSoFar == Reading(runes)[index - 1]

\* The loop that reads next is the one the terminal expects, and what the terminal
\* shows has been kept, up to a last escape character that starts nothing.
KeepsPace ==
  /\ ReadSoFar.shown = out
  /\ loop = "outer" => ReadSoFar.mode = "text" \/ index = Len(runes) + 1
  /\ loop = "CSI" => ReadSoFar.mode = "CSI"
  /\ loop = "OSC" => ReadSoFar.mode = "OSC" \/ index = Len(runes) + 1

\* Between two of its steps the function keeps pace with the terminal, if no
\* sequence is broken off.
TextInv ==
  /\ runes \in Seq(Runes)
  /\ index \in 1..(Len(runes) + 1)
  /\ loop \in {"outer", "CSI", "OSC", "returned"}
  /\ loop # "returned" /\ ~BrokenOff(runes) => KeepsPace
  /\ TextIsWhatATerminalShows

\* What a rune does to a terminal, mode by mode.
Follows(state, rune, after) ==
  /\ state \in TerminalState /\ after \in TerminalState /\ rune \in Runes
  /\ after.shown =
       IF state.mode = "text" /\ rune \in Printable THEN Append(state.shown, rune) ELSE state.shown
  /\ rune = "ESC" => after.mode = "escape"
  /\ rune = "ST" => after.mode = "text"
  /\ state.mode = "text" /\ rune # "ESC" => after.mode = "text"
  /\ state.mode = "escape" /\ rune \in Printable =>
       after.mode = IF rune = "[" THEN "CSI" ELSE IF rune = "]" THEN "OSC" ELSE "text"
  /\ state.mode = "CSI" /\ rune \notin {"ESC", "ST"} =>
       after.mode = IF rune \in Final THEN "text" ELSE "CSI"
  /\ state.mode = "OSC" /\ rune \notin {"ESC", "ST"} =>
       after.mode = IF rune = "BEL" THEN "text" ELSE "OSC"

\* Each rune leads from a state of the terminal to another.
LEMMA TerminalStep ==
  ASSUME NEW state \in TerminalState, NEW rune \in Runes
  PROVE  Follows(state, rune, Terminal(state, rune))
<1> USE DEF TerminalState, Modes, Printable, Final, Follows
<1>1. CASE rune = "ESC"
  <2>1. Terminal(state, rune) = [state EXCEPT !.mode = "escape"]
    BY <1>1 DEF Terminal
  <2> QED BY <1>1, <2>1
<1>2. CASE rune = "ST"
  <2>1. Terminal(state, rune) = [state EXCEPT !.mode = "text"]
    BY <1>2 DEF Terminal
  <2> QED BY <1>2, <2>1
<1>3. CASE rune \notin {"ESC", "ST"} /\ state.mode = "text"
  <2>1. CASE rune \in Printable
    <3>1. Terminal(state, rune) = [state EXCEPT !.shown = Append(state.shown, rune)]
      BY <1>3, <2>1 DEF Terminal
    <3>2. state.shown \in Seq(Runes)
      OBVIOUS
    <3>3. Append(state.shown, rune) \in Seq(Runes)
      BY <3>2, AppendProperties
    <3> QED BY <1>3, <2>1, <3>1, <3>2, <3>3
  <2>2. CASE rune \notin Printable
    <3>1. Terminal(state, rune) = state
      BY <1>3, <2>2 DEF Terminal
    <3> QED BY <1>3, <2>2, <3>1
  <2> QED BY <2>1, <2>2
<1>4. CASE rune \notin {"ESC", "ST"} /\ state.mode = "escape"
  <2> DEFINE mode == IF rune = "[" THEN "CSI" ELSE IF rune = "]" THEN "OSC" ELSE "text"
  <2>1. Terminal(state, rune) = IF rune \in Printable THEN [state EXCEPT !.mode = mode] ELSE state
    BY <1>4 DEF Terminal
  <2> QED BY <1>4, <2>1
<1>5. CASE rune \notin {"ESC", "ST"} /\ state.mode = "CSI"
  <2>1. Terminal(state, rune) = IF rune \in Final THEN [state EXCEPT !.mode = "text"] ELSE state
    BY <1>5 DEF Terminal
  <2> QED BY <1>5, <2>1
<1>6. CASE rune \notin {"ESC", "ST"} /\ state.mode = "OSC"
  <2>1. Terminal(state, rune) = IF rune = "BEL" THEN [state EXCEPT !.mode = "text"] ELSE state
    BY <1>6 DEF Terminal
  <2> QED BY <1>6, <2>1
<1> QED BY <1>1, <1>2, <1>3, <1>4, <1>5, <1>6

\* The states of a terminal that reads a string exist, and follow each other.
LEMMA ReadingIs ==
  ASSUME NEW text \in Seq(Runes)
  PROVE  /\ Reading(text) \in [0..Len(text) -> TerminalState]
         /\ Reading(text)[0] = [mode |-> "text", shown |-> <<>>]
         /\ \A i \in 1..Len(text) : Reading(text)[i] = Terminal(Reading(text)[i - 1], text[i])
<1> DEFINE n == Len(text)
           start == [mode |-> "text", shown |-> <<>>]
           F == [x \in TerminalState \X (1..n) |-> Terminal(x[1], text[x[2]])]
           reading == CHOOSE state : state = [i \in 0..n |-> IF i = 0 THEN start
                                                            ELSE Terminal(state[i - 1], text[i])]
<1>1. Reading(text) = reading
  BY DEF Reading
<1>2. n \in Nat /\ start \in TerminalState /\ \A i \in 1..n : text[i] \in Runes
  BY DEF TerminalState, Modes
<1>3. F \in [TerminalState \X (1..n) -> TerminalState]
  <2>1. \A d \in TerminalState : \A rune \in Runes : Terminal(d, rune) \in TerminalState
    BY TerminalStep DEF Follows
  <2> QED BY <1>2, <2>1
<1>4. \A d \in TerminalState : \A i \in 1..n : F[<<d, i>>] = Terminal(d, text[i])
  OBVIOUS
<1> HIDE DEF F, start, n
<1>5. PICK g : IsRecursion(g, TerminalState, start, n, F)
  BY <1>2, <1>3, RecursionExists
<1>6. g[0] = start /\ \A i \in 1..n : g[i] = Terminal(g[i - 1], text[i])
  <2>1. 0 \in 0..n /\ \A i \in 1..n : i \in 0..n /\ i # 0 /\ i - 1 \in 0..n
    BY <1>2
  <2>2. g[0] = start /\ \A i \in 1..n : g[i] = F[<<g[i - 1], i>>]
    BY <1>5, <2>1 DEF IsRecursion
  <2> QED BY <1>4, <1>5, <2>1, <2>2 DEF IsRecursion
<1>7. g = [i \in 0..n |-> IF i = 0 THEN start ELSE Terminal(g[i - 1], text[i])]
  <2>1. \A i \in 0..n : g[i] = IF i = 0 THEN start ELSE Terminal(g[i - 1], text[i])
    BY <1>2, <1>6
  <2> QED BY <1>5, <2>1 DEF IsRecursion
<1>8. reading = [i \in 0..n |-> IF i = 0 THEN start ELSE Terminal(reading[i - 1], text[i])]
  BY <1>7
<1> HIDE DEF reading
<1>9. reading[0] = start /\ \A i \in 1..n : reading[i] = Terminal(reading[i - 1], text[i])
  BY <1>2, <1>8
<1>10. \A i \in 0..n : reading[i] = g[i]
  <2> DEFINE N == {i \in Nat : i <= n => reading[i] = g[i]}
  <2>1. 0 \in N
    BY <1>6, <1>9
  <2>2. ASSUME NEW i \in Nat, i \in N PROVE i + 1 \in N
    <3> SUFFICES ASSUME i + 1 <= n PROVE reading[i + 1] = g[i + 1]
      OBVIOUS
    <3>1. i + 1 \in 1..n /\ (i + 1) - 1 = i /\ reading[i] = g[i]
      BY <1>2, <2>2
    <3> QED BY <1>6, <1>9, <3>1
  <2>3. Nat \subseteq N
    <3> HIDE DEF N
    <3> QED BY <2>1, <2>2, Induction
  <2> QED BY <1>2, <2>3
<1>11. reading \in [0..n -> TerminalState]
  BY <1>5, <1>8, <1>10 DEF IsRecursion
<1> QED BY <1>1, <1>9, <1>11 DEF n, start

\* Nothing has been read, and nothing kept.
LEMMA TextBegins == TextInit => TextInv
<1> SUFFICES ASSUME TextInit PROVE TextInv
  OBVIOUS
<1>1. runes \in Seq(Runes) /\ index = 1 /\ loop = "outer" /\ out = <<>>
  BY TextAssumption DEF TextInit
<1>2. ReadSoFar = [mode |-> "text", shown |-> <<>>]
  BY <1>1, ReadingIs DEF ReadSoFar
<1>3. ReadSoFar.mode = "text" /\ ReadSoFar.shown = <<>>
  BY <1>2
<1>4. index \in 1..(Len(runes) + 1)
  BY <1>1
<1> QED BY <1>1, <1>3, <1>4 DEF TextInv, KeepsPace, TextIsWhatATerminalShows

\* What one more rune does to the terminal.
LEMMA OneRune ==
  ASSUME runes \in Seq(Runes), NEW i \in 1..Len(runes)
  PROVE  Follows(Reading(runes)[i - 1], runes[i], Reading(runes)[i])
<1>1. i - 1 \in 0..Len(runes) /\ runes[i] \in Runes
  OBVIOUS
<1>2. Reading(runes)[i - 1] \in TerminalState /\ Reading(runes)[i] = Terminal(Reading(runes)[i - 1], runes[i])
  BY <1>1, ReadingIs
<1> QED BY <1>1, <1>2, TerminalStep, Zenon

\* Where a string is not broken off, a rune that follows an escape character is
\* printable or ST, ST and the escape character do not stand in a CSI sequence,
\* and the escape character that stands in an OSC sequence is the start of its
\* terminator or the last rune.
LEMMA CarriedThrough ==
  ASSUME runes \in Seq(Runes), ~BrokenOff(runes), NEW i \in 1..Len(runes)
  PROVE  /\ Reading(runes)[i - 1].mode = "escape" => runes[i] \in Printable \cup {"ST"}
         /\ Reading(runes)[i - 1].mode = "CSI" => runes[i] \notin {"ESC", "ST"}
         /\ Reading(runes)[i - 1].mode = "OSC" /\ runes[i] = "ESC" /\ i < Len(runes) => runes[i + 1] = "\\"
<1> DEFINE R == Reading(runes)
<1>1. /\ ~(R[i - 1].mode = "escape" /\ runes[i] \in {"ESC", "BEL", "ctl"})
      /\ ~(R[i - 1].mode = "CSI" /\ runes[i] \in {"ESC", "ST"})
      /\ ~(R[i - 1].mode = "OSC" /\ runes[i] = "ESC" /\ i < Len(runes) /\ runes[i + 1] # "\\")
  BY DEF BrokenOff
<1>2. runes[i] \in Runes
  OBVIOUS
<1> HIDE DEF R
<1>3. /\ R[i - 1].mode = "escape" => runes[i] \in Printable \cup {"ST"}
      /\ R[i - 1].mode = "CSI" => runes[i] \notin {"ESC", "ST"}
      /\ R[i - 1].mode = "OSC" /\ runes[i] = "ESC" /\ i < Len(runes) => runes[i + 1] = "\\"
  BY <1>1, <1>2 DEF Runes, Printable
<1> QED BY <1>3 DEF R

\* Every step of the function keeps pace with the terminal.
LEMMA TextStepKeeps ==
  ASSUME TextInv, [TextNext]_textVars
  PROVE  TextInv'
<1> DEFINE R == Reading(runes)
           n == Len(runes)
           Whole == ~BrokenOff(runes)
<1>1. /\ runes \in Seq(Runes) /\ n \in Nat /\ index \in 1..(n + 1) /\ index \in Nat
      /\ loop \in {"outer", "CSI", "OSC", "returned"}
  <2>1. runes \in Seq(Runes) /\ index \in 1..(n + 1) /\ loop \in {"outer", "CSI", "OSC", "returned"}
    BY DEF TextInv
  <2>2. n \in Nat
    BY <2>1
  <2> QED BY <2>1, <2>2
<1>2. runes' = runes
  BY DEF TextNext, SkipEscape, KeepPrintable, SkipCSI, SkipOSC, truncate, textVars
<1>3. ReadSoFar = R[index - 1] /\ ReadSoFar' = R[index' - 1] /\ (More <=> index <= n)
      /\ (More' <=> index' <= n) /\ (BrokenOff(runes)' <=> BrokenOff(runes))
  BY <1>2 DEF ReadSoFar, More
<1>4. ASSUME NEW i \in 1..n
      PROVE  Follows(R[i - 1], runes[i], R[i])
  BY <1>1, <1>4, OneRune
<1>5. ASSUME NEW i \in 1..n, Whole
      PROVE  /\ R[i - 1].mode = "escape" => runes[i] \in Printable \cup {"ST"}
             /\ R[i - 1].mode = "CSI" => runes[i] \notin {"ESC", "ST"}
             /\ R[i - 1].mode = "OSC" /\ runes[i] = "ESC" /\ i < n => runes[i + 1] = "\\"
  BY <1>1, <1>5, CarriedThrough
<1>6. Whole /\ loop # "returned" =>
        /\ R[index - 1].shown = out
        /\ loop = "outer" => R[index - 1].mode = "text" \/ index = n + 1
        /\ loop = "CSI" => R[index - 1].mode = "CSI"
        /\ loop = "OSC" => R[index - 1].mode = "OSC" \/ index = n + 1
  BY <1>3 DEF TextInv, KeepsPace
<1>7. ASSUME index' \in 1..(n + 1), loop' \in {"outer", "CSI", "OSC"},
             Whole => /\ R[index' - 1].shown = out'
                      /\ loop' = "outer" => R[index' - 1].mode = "text" \/ index' = n + 1
                      /\ loop' = "CSI" => R[index' - 1].mode = "CSI"
                      /\ loop' = "OSC" => R[index' - 1].mode = "OSC" \/ index' = n + 1
      PROVE  TextInv'
  <2>1. (loop # "returned" /\ ~BrokenOff(runes) => KeepsPace)'
    BY <1>2, <1>3, <1>7 DEF KeepsPace
  <2>2. TextIsWhatATerminalShows'
    BY <1>7 DEF TextIsWhatATerminalShows
  <2> QED BY <1>1, <1>2, <1>7, <2>1, <2>2 DEF TextInv
<1> HIDE DEF R, Whole
<1>8. CASE SkipEscape
  <2>1. /\ loop = "outer" /\ index < n /\ runes[index] = "ESC" /\ index' = index + 2 /\ out' = out
        /\ loop' = IF runes[index + 1] = "[" THEN "CSI" ELSE IF runes[index + 1] = "]" THEN "OSC" ELSE "outer"
    BY <1>8 DEF SkipEscape, NextIs
  <2>2. index \in 1..n /\ index + 1 \in 1..n /\ (index + 1) - 1 = index /\ index' - 1 = index + 1
        /\ index' \in 1..(n + 1)
    BY <1>1, <2>1
  <2>3. ASSUME Whole
        PROVE  /\ R[index + 1].shown = out
               /\ loop' = "outer" => R[index + 1].mode = "text"
               /\ loop' = "CSI" => R[index + 1].mode = "CSI"
               /\ loop' = "OSC" => R[index + 1].mode = "OSC"
    <3>1. R[index - 1].mode = "text" /\ R[index - 1].shown = out
      BY <1>1, <1>6, <2>1, <2>2, <2>3
    <3>2. R[index].mode = "escape" /\ R[index].shown = out
      <4>1. Follows(R[index - 1], "ESC", R[index])
        BY <1>4, <2>1, <2>2
      <4>2. "ESC" \notin Printable
        BY DEF Printable
      <4> QED BY <3>1, <4>1, <4>2 DEF Follows
    <3>3. Follows(R[index], runes[index + 1], R[index + 1])
      BY <1>4, <2>2
    <3>4. runes[index + 1] \in Printable \cup {"ST"}
      <4>1. R[(index + 1) - 1].mode = "escape"
        BY <2>2, <3>2
      <4> QED BY <1>5, <2>2, <2>3, <4>1
    <3>5. CASE runes[index + 1] = "ST"
      BY <2>1, <3>2, <3>3, <3>5 DEF Follows
    <3>6. CASE runes[index + 1] \in Printable
      BY <2>1, <3>2, <3>3, <3>6 DEF Follows
    <3> QED BY <3>4, <3>5, <3>6
  <2> QED BY <1>7, <2>1, <2>2, <2>3
<1>9. CASE KeepPrintable
  <2>1. /\ loop = "outer" /\ index <= n /\ ~(index < n /\ runes[index] = "ESC")
        /\ index' = index + 1 /\ loop' = loop
        /\ out' = IF runes[index] \in Printable THEN Append(out, runes[index]) ELSE out
    BY <1>3, <1>9 DEF KeepPrintable
  <2>2. index \in 1..n /\ index' - 1 = index /\ index' \in 1..(n + 1)
        /\ (runes[index] = "ESC" => index' = n + 1)
    BY <1>1, <2>1
  <2>3. ASSUME Whole
        PROVE  R[index].shown = out' /\ (R[index].mode = "text" \/ index' = n + 1)
    <3>1. R[index - 1].mode = "text" /\ R[index - 1].shown = out
      BY <1>1, <1>6, <2>1, <2>2, <2>3
    <3>2. Follows(R[index - 1], runes[index], R[index])
      BY <1>4, <2>2
    <3> QED BY <2>1, <2>2, <3>1, <3>2 DEF Follows
  <2> QED BY <1>7, <2>1, <2>2, <2>3
<1>10. CASE SkipCSI
  <2>1. /\ loop = "CSI" /\ index <= n /\ index' = index + 1 /\ out' = out
        /\ loop' = IF runes[index] \in Final THEN "outer" ELSE "CSI"
    BY <1>3, <1>10 DEF SkipCSI
  <2>2. index \in 1..n /\ index' - 1 = index /\ index' \in 1..(n + 1)
    BY <1>1, <2>1
  <2>3. ASSUME Whole
        PROVE  R[index].shown = out /\ R[index].mode = IF runes[index] \in Final THEN "text" ELSE "CSI"
    <3>1. R[index - 1].mode = "CSI" /\ R[index - 1].shown = out
      BY <1>6, <2>1, <2>3
    <3>2. runes[index] \notin {"ESC", "ST"}
      BY <1>5, <2>2, <2>3, <3>1
    <3>3. Follows(R[index - 1], runes[index], R[index])
      BY <1>4, <2>2
    <3> QED BY <3>1, <3>2, <3>3 DEF Follows
  <2> QED BY <1>7, <2>1, <2>2, <2>3
<1>11. CASE SkipOSC
  <2>1. loop = "OSC" /\ index <= n /\ out' = out
    BY <1>3, <1>11 DEF SkipOSC
  <2>2. index \in 1..n
    BY <1>1, <2>1
  <2>3. ASSUME Whole
        PROVE  /\ R[index].shown = out
               /\ R[index].mode = IF runes[index] = "ESC" THEN "escape"
                                   ELSE IF runes[index] \in {"BEL", "ST"} THEN "text" ELSE "OSC"
               /\ runes[index] = "ESC" /\ index < n => runes[index + 1] = "\\"
    <3>1. R[index - 1].mode = "OSC" /\ R[index - 1].shown = out
      BY <1>1, <1>6, <2>1, <2>2, <2>3
    <3>2. Follows(R[index - 1], runes[index], R[index])
      BY <1>4, <2>2
    <3>3. runes[index] = "ESC" /\ index < n => runes[index + 1] = "\\"
      BY <1>5, <2>2, <2>3, <3>1
    <3> QED BY <3>1, <3>2, <3>3 DEF Follows
  <2>4. CASE runes[index] = "ESC" /\ NextIs("\\")
    <3>1. index < n /\ runes[index + 1] = "\\" /\ index' = index + 2 /\ loop' = "outer"
      BY <1>11, <2>4 DEF SkipOSC, NextIs
    <3>2. index + 1 \in 1..n /\ (index + 1) - 1 = index /\ index' - 1 = index + 1 /\ index' \in 1..(n + 1)
      BY <1>1, <3>1
    <3>3. Follows(R[index], "\\", R[index + 1])
      BY <1>4, <3>1, <3>2
    <3>4. Whole => R[index + 1].shown = out /\ R[index + 1].mode = "text"
      BY <2>3, <2>4, <3>3 DEF Follows, Printable
    <3> QED BY <1>7, <2>1, <3>1, <3>2, <3>4
  <2>5. CASE ~(runes[index] = "ESC" /\ NextIs("\\"))
    <3>1. index' = index + 1 /\ loop' = IF runes[index] \in {"BEL", "ST"} THEN "outer" ELSE "OSC"
      BY <1>11, <2>5 DEF SkipOSC
    <3>2. index' - 1 = index /\ index' \in 1..(n + 1)
      BY <1>1, <2>2, <3>1
    <3>3. Whole /\ runes[index] = "ESC" => index' = n + 1
      BY <1>1, <2>1, <2>3, <2>5, <3>1 DEF NextIs
    <3>4. CASE runes[index] = "ESC"
      BY <1>7, <2>1, <2>3, <3>1, <3>2, <3>3, <3>4
    <3>5. CASE runes[index] # "ESC"
      BY <1>7, <2>1, <2>3, <3>1, <3>2, <3>5
    <3> QED BY <3>4, <3>5
  <2> QED BY <2>4, <2>5
<1>12. CASE truncate
  <2>1. /\ loop # "returned" /\ index' = index /\ loop' = "returned"
        /\ out' = IF Len(out) > maxStringLen THEN Append(SubSeq(out, 1, maxStringLen), Marker) ELSE out
        /\ index = n + 1
    BY <1>1, <1>3, <1>12 DEF truncate
  <2>2. ASSUME Whole PROVE out = Shown(runes) /\ Len(out) \in Nat
    <3>1. index - 1 = n
      BY <1>1, <2>1
    <3>2. R[n].shown = out
      BY <1>6, <2>1, <2>2, <3>1
    <3>3. R \in [0..n -> TerminalState] /\ n \in 0..n
      BY <1>1, ReadingIs DEF R
    <3>4. out \in Seq(Runes)
      BY <3>2, <3>3 DEF TerminalState
    <3> QED BY <3>2, <3>4 DEF Shown, R
  <2>3. Whole => out' = IF Len(Shown(runes)) <= maxStringLen THEN Shown(runes)
                        ELSE Append(SubSeq(Shown(runes), 1, maxStringLen), Marker)
    BY <2>1, <2>2, TextAssumption
  <2>4. TextIsWhatATerminalShows'
    BY <1>2, <1>3, <2>3 DEF TextIsWhatATerminalShows, Shown, Whole
  <2> QED BY <1>1, <1>2, <2>1, <2>4 DEF TextInv
<1>13. CASE UNCHANGED textVars
  BY <1>13 DEF textVars, TextInv, TextIsWhatATerminalShows, KeepsPace, ReadSoFar, More
<1> QED BY <1>8, <1>9, <1>10, <1>11, <1>12, <1>13 DEF TextNext

\* What is kept of a string of any length, whose sequences are carried through to
\* their end or to that of the string, is the text a terminal would show of it, up
\* to the limit (connect.go:99-158).
THEOREM TextSound == TextSpec => []TextIsWhatATerminalShows
<1>1. TextInv => TextIsWhatATerminalShows
  BY DEF TextInv
<1>2. TextInv /\ [TextNext]_textVars => TextInv'
  BY TextStepKeeps
<1> QED BY <1>1, <1>2, TextBegins, PTL DEF TextSpec

-----------------------------------------------------------------------------
(* Live checks: operators *)

\* Although twice a threshold may wrap around, and the comparison with it is then
\* wrong, atLeastDouble answers for all values of its arguments, negative ones
\* included, what numbers without a largest one would: the test before the
\* product keeps away those that wrap and loses none that counts.
\* (exposure_limits.go:118-126)
THEOREM DoubleIsExact ==
  ASSUME NEW value \in Int64, NEW threshold \in Int64
  PROVE  atLeastDouble(value, threshold) <=> threshold > 0 /\ value >= 2 * threshold
BY ChannelsAssumption DEF atLeastDouble, Twice, Int64

\* Versions are ordered by their three numbers, one after the other.
LEMMA BeforeIsTransitive ==
  ASSUME NEW a \in Versions, NEW b \in Versions, NEW c \in Versions,
         versionBefore(a, b), versionBefore(b, c)
  PROVE  versionBefore(a, c)
<1>1. a # <<>> /\ b # <<>> /\ c # <<>>
  BY DEF versionBefore, Unparsable
<1>2. /\ a \in Nat \X Nat \X Nat
      /\ b \in Nat \X Nat \X Nat
      /\ c \in Nat \X Nat \X Nat
  BY <1>1 DEF Versions, Unparsable
<1>3. /\ a[1] \in Nat /\ a[2] \in Nat /\ a[3] \in Nat
      /\ b[1] \in Nat /\ b[2] \in Nat /\ b[3] \in Nat
      /\ c[1] \in Nat /\ c[2] \in Nat /\ c[3] \in Nat
  BY <1>2
<1> QED BY <1>1, <1>3 DEF versionBefore, Unparsable

\* An upgrade never adds a CVE finding: the versions each of them is fixed in cut
\* the order of versions in two.  (live.go:11-35, cves.go:83-102)
THEOREM UpgradesAddNoCVE ==
  ASSUME NEW old \in Infos, NEW new \in Infos, versionBefore(old.version, new.version)
  PROVE  CheckLndVersion(new) \subseteq CheckLndVersion(old)
<1> SUFFICES ASSUME NEW cve \in cveDatabase, versionBefore(new.version, cve.fixedIn)
             PROVE  versionBefore(old.version, cve.fixedIn)
  BY DEF CheckLndVersion
<1>1. old.version \in Versions /\ new.version \in Versions
  BY DEF Infos
<1>2. cve.fixedIn \in Versions
  BY DEF cveDatabase, Versions
<1> QED BY <1>1, <1>2, BeforeIsTransitive

-----------------------------------------------------------------------------
(* What the checks return *)

\* The number of each check.
LEMMA CheckIndex ==
  ASSUME check \in 1..10
  PROVE  /\ At("version/CVE") <=> check = 1
         /\ At("chain sync") <=> check = 2
         /\ At("peer count") <=> check = 3
         /\ At("force-close") <=> check = 4
         /\ At("balance") <=> check = 5
         /\ At("jamming") <=> check = 6
         /\ At("zero-conf") <=> check = 7
         /\ At("htlc-limits") <=> check = 8
         /\ At("exposure-limits") <=> check = 9
         /\ At("done") <=> check = 10
<1>1. check = 1 \/ check = 2 \/ check = 3 \/ check = 4 \/ check = 5
      \/ check = 6 \/ check = 7 \/ check = 8 \/ check = 9 \/ check = 10
  OBVIOUS
<1>2. /\ liveChecks[1] = "version/CVE" /\ liveChecks[2] = "chain sync"
      /\ liveChecks[3] = "peer count" /\ liveChecks[4] = "force-close"
      /\ liveChecks[5] = "balance" /\ liveChecks[6] = "jamming"
      /\ liveChecks[7] = "zero-conf" /\ liveChecks[8] = "htlc-limits"
      /\ liveChecks[9] = "exposure-limits" /\ liveChecks[10] = "done"
  BY DEF liveChecks
<1> HIDE DEF liveChecks
<1> QED BY <1>1, <1>2 DEF At

\* A finding about a limit is there if the value is above it.
LEMMA AboveReports ==
  ASSUME NEW limit, NEW value, NEW id, NEW c
  PROVE  /\ \A f \in Above(limit, value, id, c) : f.id = id
         /\ limit > 0 /\ value > limit => \E f \in Above(limit, value, id, c) : f.id = id
         /\ ~(limit > 0 /\ value > limit) => Above(limit, value, id, c) = {}
<1>1. CASE limit > 0 /\ value > limit
  <2>1. PICK severity : Above(limit, value, id, c) = {OfChannel(id, severity, c)}
    BY <1>1 DEF Above
  <2>2. OfChannel(id, severity, c).id = id
    BY DEF OfChannel
  <2> QED BY <1>1, <2>1, <2>2
<1>2. CASE ~(limit > 0 /\ value > limit)
  BY <1>2 DEF Above, OfChannel
<1> QED BY <1>1, <1>2

\* What CheckExposureLimits finds, limit by limit.
LEMMA LimitsFindings ==
  LET found == CheckExposureLimits(limits, listed, wallet)
      hot   == Above(limits.maxHotWallet, wallet, "L-11", 0)
      node  == Above(limits.maxNodeExposure, totalExposure(listed, wallet), "L-13", 0)
  IN  /\ hot \subseteq found /\ node \subseteq found
      /\ \A f \in found : f \in hot \/ f \in node \/ f.id = "L-12"
      /\ \A f \in found : f.id \in {"L-11", "L-12", "L-13"}
<1> DEFINE found == CheckExposureLimits(limits, listed, wallet)
           hot == Above(limits.maxHotWallet, wallet, "L-11", 0)
           node == Above(limits.maxNodeExposure, totalExposure(listed, wallet), "L-13", 0)
           cap(c) == Above(limits.maxChannelCap, terms[c].capacity, "L-12", c)
<1> DEFINE caps == UNION {cap(c) : c \in listed.open}
<1>1. found = hot \cup caps \cup node
  BY DEF CheckExposureLimits
<1>2. \A c : \A f \in cap(c) : f.id = "L-12"
  BY AboveReports
<1>3. (\A f \in hot : f.id = "L-11") /\ (\A f \in node : f.id = "L-13")
  BY AboveReports
<1> HIDE DEF found, hot, node, cap
<1>4. \A f \in caps : f.id = "L-12"
  BY <1>2
<1> HIDE DEF caps
<1>5. /\ hot \subseteq found /\ node \subseteq found
      /\ \A f \in found : f \in hot \/ f \in node \/ f.id = "L-12"
  BY <1>1, <1>4
<1>6. \A f \in found : f.id \in {"L-11", "L-12", "L-13"}
  BY <1>3, <1>5
<1> QED BY <1>5, <1>6 DEF found, hot, node

\* The two findings about the exposure come from one check each, and L-11 from
\* the same check as L-13.
LEMMA WhoFindsWhat ==
  /\ \A f \in CheckLndVersion(info) \cup CheckChainSync(info) \cup CheckPeerCount(info)
                \cup CheckPendingForceClose(Pending(NodeNow)) \cup CheckChannelJamming(ChannelList)
                \cup CheckZeroConfChannels(ChannelList) \cup CheckHighHTLCLimits(ChannelList) :
       f.id \notin {"L-6", "L-11", "L-13"}
  /\ \A f \in CheckLargeLocalBalance(listed, wallet) : f.id \notin {"L-11", "L-13"}
  /\ \A f \in CheckExposureLimits(limits, listed, wallet) : f.id # "L-6"
<1>1. \A f \in CheckLndVersion(info) : f.id \notin {"L-6", "L-11", "L-13"}
  BY DEF CheckLndVersion, cveDatabase, Live, OfChannel
<1>2. \A f \in CheckChainSync(info) \cup CheckPendingForceClose(Pending(NodeNow))
             \cup CheckZeroConfChannels(ChannelList) \cup CheckHighHTLCLimits(ChannelList) :
        f.id \notin {"L-6", "L-11", "L-13"}
  BY DEF CheckChainSync, CheckPendingForceClose, CheckZeroConfChannels, CheckHighHTLCLimits, Live, OfChannel
<1>3. \A f \in CheckPeerCount(info) : f.id \notin {"L-6", "L-11", "L-13"}
  BY DEF CheckPeerCount, Live, OfChannel
<1>4. \A f \in CheckChannelJamming(ChannelList) : f.id \notin {"L-6", "L-11", "L-13"}
  BY DEF CheckChannelJamming, OfChannel, Live
<1>5. \A f \in CheckLargeLocalBalance(listed, wallet) : f.id \notin {"L-11", "L-13"}
  BY DEF CheckLargeLocalBalance, OfChannel, Live
<1>6. \A f \in CheckExposureLimits(limits, listed, wallet) : f.id # "L-6"
  BY LimitsFindings
<1> QED BY <1>1, <1>2, <1>3, <1>4, <1>5, <1>6

\* L-6 is about the exposure that was counted, and nothing else.
LEMMA BalanceReports ==
  (\E f \in CheckLargeLocalBalance(listed, wallet) : f.id = "L-6")
    <=> totalExposure(listed, wallet) > highExposure
<1> DEFINE high == {f \in {Live("L-6", "Info")} : totalExposure(listed, wallet) > highExposure}
<1>1. \A f \in CheckLargeLocalBalance(listed, wallet) : f.id = "L-5" \/ f \in high
  BY DEF CheckLargeLocalBalance, OfChannel
<1>2. high \subseteq CheckLargeLocalBalance(listed, wallet)
  BY DEF CheckLargeLocalBalance
<1>3. Live("L-6", "Info").id = "L-6"
  BY DEF Live, OfChannel
<1> QED BY <1>1, <1>2, <1>3

\* So is L-13.
LEMMA LimitsReport ==
  ASSUME limits.maxNodeExposure > 0
  PROVE  (\E f \in CheckExposureLimits(limits, listed, wallet) : f.id = "L-13")
           <=> totalExposure(listed, wallet) > limits.maxNodeExposure
<1>1. \A f \in Above(limits.maxHotWallet, wallet, "L-11", 0) : f.id = "L-11"
  BY AboveReports
<1>2. CASE totalExposure(listed, wallet) > limits.maxNodeExposure
  BY <1>2, AboveReports, LimitsFindings
<1>3. CASE ~(totalExposure(listed, wallet) > limits.maxNodeExposure)
  <2>1. Above(limits.maxNodeExposure, totalExposure(listed, wallet), "L-13", 0) = {}
    BY <1>3, AboveReports
  <2> QED BY <1>1, <1>3, <2>1, LimitsFindings
<1> QED BY <1>2, <1>3

\* The balance of the channels, which follows the change of any of them.
LEMMA TotalFollows ==
  \A balance \in [Channels -> Amounts] :
    /\ totalLocal(balance) \in Nat
    /\ \A c \in Channels, amount \in Amounts :
         totalLocal([balance EXCEPT ![c] = amount]) = totalLocal(balance) - balance[c] + amount
<1> TAKE balance \in [Channels -> Amounts]
<1>1. balance \in [Channels -> Nat] /\ Amounts \subseteq Nat /\ IsFiniteSet(Channels)
  BY NodeAssumption
<1> QED BY <1>1, SumType, SumExcept DEF totalLocal

-----------------------------------------------------------------------------
(* The inductive invariant of the live scan *)

\* While a check waits for its second answer, the channels have changed by no
\* more than what has moved.
ListIsOffByWhatMoved ==
  listed.answered =>
    /\ totalLocal(listed.local) <= totalLocal(local) + moved
    /\ totalLocal(local) <= totalLocal(listed.local) + moved

\* What a check finds is not in the report before.
ExposureNotYetReported ==
  /\ check <= 5 => \A f \in findings : f.id # "L-6"
  /\ check <= 9 => \A f \in findings : f.id \notin {"L-11", "L-13"}

LiveInv == LiveTypeOK /\ ListIsOffByWhatMoved /\ ExposureNotYetReported /\ LimitsAgree

\* The types hold initially.
LEMMA InitTypeOK == LiveInit => LiveTypeOK
<1> SUFFICES ASSUME LiveInit PROVE LiveTypeOK
  OBVIOUS
<1>1. NodeTypeOK
  BY NodeInputsAssumption DEF LiveInit, NodeTypeOK
<1>2. listed.open \subseteq Channels /\ listed.local \in [Channels -> Amounts]
      /\ listed.htlcs \in [Channels -> HtlcCounts] /\ listed.answered = FALSE
  BY NodeAssumption DEF LiveInit, NotListed
<1>3. limits \in Limits /\ check \in 1..10 /\ events \in 0..MaxEvents /\ moved \in Nat
  BY LiveScanAssumption DEF LiveInit
<1> QED BY <1>1, <1>2, <1>3 DEF LiveTypeOK

\* One channel changes, by an amount that is known: the total changes by it.
LEMMA MovedBounds ==
  ASSUME NodeTypeOK, NEW c \in Channels, NEW amount \in Amounts,
         local' = [local EXCEPT ![c] = amount]
  PROVE  /\ Moved \in Nat
         /\ totalLocal(local') <= totalLocal(local) + Moved
         /\ totalLocal(local) <= totalLocal(local') + Moved
<1>1. totalLocal(local) \in Nat /\ totalLocal(local') = totalLocal(local) - local[c] + amount
  BY TotalFollows DEF NodeTypeOK
<1>2. local[c] \in Nat /\ amount \in Nat /\ local'[c] = amount
  BY NodeAssumption DEF NodeTypeOK
<1>3. CASE amount = local[c]
  <2>1. local' = local
    BY <1>3 DEF NodeTypeOK
  <2>2. Moved = 0
    BY <2>1 DEF Moved
  <2>3. totalLocal(local') = totalLocal(local)
    BY <2>1
  <2> QED BY <2>2, <2>3, <1>1
<1>4. CASE amount # local[c]
  <2>1. local' # local
    BY <1>2, <1>4
  <2>2. (CHOOSE d \in Channels : local'[d] # local[d]) = c
    BY <1>2, <1>4 DEF NodeTypeOK
  <2>3. Moved = Change(c)
    BY <2>1, <2>2 DEF Moved
  <2> QED BY <2>3, <1>1, <1>2 DEF Change
<1> QED BY <1>3, <1>4

\* A move of the node keeps it a node, and keeps count of what it moves.
LEMMA MovesKeepNode ==
  ASSUME NodeTypeOK, NodeMoves
  PROVE  /\ NodeTypeOK'
         /\ Moved \in Nat
         /\ totalLocal(local') <= totalLocal(local) + Moved
         /\ totalLocal(local) <= totalLocal(local') + Moved
<1> DEFINE Goal == /\ NodeTypeOK'
                   /\ Moved \in Nat
                   /\ totalLocal(local') <= totalLocal(local) + Moved
                   /\ totalLocal(local) <= totalLocal(local') + Moved
<1>1. ASSUME NEW c \in Channels, NEW amount \in Amounts,
             local' = [local EXCEPT ![c] = amount],
             info' = info, wallet' \in 0..MaxInt, amount <= terms[c].capacity, open' \subseteq Channels,
             c \notin open' => amount = 0,
             open' \cup {c} = open \cup {c},
             htlcs' \in [Channels -> HtlcCounts],
             \A d \in Channels \ open' : htlcs'[d] = 0,
             limbo' \in [Channels -> Amounts]
      PROVE  Goal
  <2>1. /\ local' \in [Channels -> Amounts] /\ \A d \in Channels \ open' : local'[d] = 0
        /\ \A d \in Channels : local'[d] <= terms[d].capacity
    BY <1>1 DEF NodeTypeOK
  <2>2. NodeTypeOK'
    BY <1>1, <2>1 DEF NodeTypeOK
  <2> QED BY <1>1, <2>2, MovedBounds
<1>2. ASSUME local' = local, NodeTypeOK'
      PROVE  Goal
  <2>1. Moved = 0 /\ totalLocal(local') = totalLocal(local)
    BY <1>2 DEF Moved
  <2>2. totalLocal(local) \in Nat
    BY TotalFollows DEF NodeTypeOK
  <2> QED BY <1>2, <2>1, <2>2
<1> USE NodeAssumption, ChannelsAssumption DEF NodeTypeOK
<1>3. ASSUME NEW c \in Channels, OpenChannel(c) PROVE Goal
  <2>1. terms[c].capacity \in Amounts /\ terms[c].capacity \in Nat
    OBVIOUS
  <2>2. /\ wallet \in 0..MaxInt /\ MaxInt \in Nat
        /\ terms[c].capacity <= wallet /\ wallet' = wallet - terms[c].capacity
    BY <1>3 DEF OpenChannel
  <2>3. wallet' \in 0..MaxInt
    BY ONLY <2>1, <2>2
  <2>4. /\ local' = [local EXCEPT ![c] = terms[c].capacity]
        /\ open' = open \cup {c} /\ open' \subseteq Channels
        /\ info' = info /\ htlcs' = htlcs /\ limbo' = limbo
        /\ terms[c].capacity <= terms[c].capacity
    BY <1>3, <2>1 DEF OpenChannel
  <2>5. /\ htlcs' \in [Channels -> HtlcCounts] /\ limbo' \in [Channels -> Amounts]
        /\ \A d \in Channels \ open' : htlcs'[d] = 0
    BY <2>4
  <2> HIDE DEF Goal
  <2> QED BY <1>1, <2>1, <2>3, <2>4, <2>5
<1>4. ASSUME NEW c \in Channels, CloseChannel(c) PROVE Goal
  <2>1. local[c] \in Nat /\ wallet' = wallet + local[c] /\ wallet + local[c] <= MaxInt
    BY <1>4 DEF CloseChannel
  <2>2. 0 \in Amounts /\ 0 <= terms[c].capacity
    OBVIOUS
  <2>3. wallet \in Nat /\ wallet' \in 0..MaxInt
    BY <2>1
  <2>4. local' = [local EXCEPT ![c] = 0] /\ open' = open \ {c} /\ c \in open
    BY <1>4 DEF CloseChannel
  <2> QED BY <1>1, <1>4, <2>2, <2>3, <2>4 DEF CloseChannel
<1>5. ASSUME NEW c \in Channels, ForceClose(c) PROVE Goal
  <2>1. 0 \in Amounts /\ 0 <= terms[c].capacity
    OBVIOUS
  <2> QED BY <1>1, <1>5, <2>1 DEF ForceClose
<1>6. ASSUME NEW c \in Channels, Sweep(c) PROVE Goal
  <2>1. limbo[c] \in Nat /\ wallet' = wallet + limbo[c] /\ wallet + limbo[c] <= MaxInt
    BY <1>6 DEF Sweep
  <2> QED BY <1>2, <1>6, <2>1 DEF Sweep
<1>7. ASSUME NEW c \in Channels, Pay(c) PROVE Goal
  <2>1. PICK amount \in Amounts :
          amount <= terms[c].capacity /\ local' = [local EXCEPT ![c] = amount]
    BY <1>7 DEF Pay
  <2> QED BY <1>1, <1>7, <2>1 DEF Pay
<1>8. ASSUME NEW c \in Channels, ForwardHtlcs(c) PROVE Goal
  BY <1>2, <1>8 DEF ForwardHtlcs
<1>9. ASSUME ChangeInfo PROVE Goal
  BY <1>2, <1>9 DEF ChangeInfo
<1> QED BY <1>3, <1>4, <1>5, <1>6, <1>7, <1>8, <1>9 DEF NodeMoves

\* A check that ends leaves nothing behind but its findings.
LEMMA AddKeepsType ==
  ASSUME LiveTypeOK, check \in 1..9, NEW found, Add(found)
  PROVE  LiveTypeOK' /\ check' > check
<1>1. NodeTypeOK'
  BY DEF Add, nodeVars, LiveTypeOK, NodeTypeOK
<1>2. listed'.open \subseteq Channels /\ listed'.local \in [Channels -> Amounts]
      /\ listed'.htlcs \in [Channels -> HtlcCounts] /\ listed'.answered = FALSE
  BY NodeAssumption DEF Add, NotListed
<1>3. check' \in 1..10 /\ check' > check
  BY DEF Add, NextCheck
<1>4. limits' \in Limits /\ events' \in 0..MaxEvents /\ moved' \in Nat
  BY DEF Add, history, LiveTypeOK
<1> QED BY <1>1, <1>2, <1>3, <1>4 DEF LiveTypeOK

\* A call that fails ends its check, finds nothing and keeps the types.
LEMMA FailureKeepsType ==
  ASSUME LiveTypeOK, CallFails
  PROVE  LiveTypeOK' /\ check' > check /\ listed'.answered = FALSE /\ findings' = findings
<1>1. NodeTypeOK'
  BY DEF CallFails, nodeVars, LiveTypeOK, NodeTypeOK
<1>2. listed'.open \subseteq Channels /\ listed'.local \in [Channels -> Amounts]
      /\ listed'.htlcs \in [Channels -> HtlcCounts] /\ listed'.answered = FALSE
  BY NodeAssumption DEF CallFails, NotListed
<1>3. check \in 1..9
  <2>1. check \in 1..10 /\ ~At("done")
    BY DEF CallFails, LiveTypeOK
  <2>2. check # 10
    BY <2>1, CheckIndex
  <2> QED BY <2>1, <2>2
<1>4. check' \in 1..10 /\ check' > check
  BY <1>3 DEF CallFails, NextCheck
<1>5. limits' \in Limits /\ events' \in 0..MaxEvents /\ moved' \in Nat
  BY LiveScanAssumption DEF CallFails, LiveTypeOK
<1> QED BY <1>1, <1>2, <1>4, <1>5 DEF LiveTypeOK, CallFails

\* The list of channels is exact when it is answered.
LEMMA ListKeepsInv ==
  ASSUME LiveInv, ListFirst, At("balance") \/ At("exposure-limits")
  PROVE  LiveInv'
<1>1. NodeTypeOK'
  BY DEF ListFirst, nodeVars, LiveInv, LiveTypeOK, NodeTypeOK
<1>2. listed'.open \subseteq Channels /\ listed'.local \in [Channels -> Amounts]
      /\ listed'.htlcs \in [Channels -> HtlcCounts] /\ listed'.answered = TRUE
      /\ listed'.local = local'
  BY DEF ListFirst, ChannelList, nodeVars, LiveInv, LiveTypeOK, NodeTypeOK
<1>3. LiveTypeOK'
  BY <1>1, <1>2 DEF ListFirst, LiveInv, LiveTypeOK, At
<1>4. totalLocal(local') \in Nat
  BY <1>1, TotalFollows DEF NodeTypeOK
<1>5. ListIsOffByWhatMoved'
  <2>1. moved' = 0
    BY DEF ListFirst
  <2> QED BY <1>2, <1>4, <2>1 DEF ListIsOffByWhatMoved
<1>6. ExposureNotYetReported' /\ LimitsAgree'
  BY DEF LiveInv, ExposureNotYetReported, LimitsAgree, ListFirst
<1> QED BY <1>3, <1>5, <1>6 DEF LiveInv

\* What the steps that add findings share.
LEMMA AddKeepsInv ==
  ASSUME LiveInv, check \in 1..9, NEW found, Add(found),
         \A f \in found : f.id = "L-6" => check >= 5,
         \A f \in found : f.id \in {"L-11", "L-13"} => check >= 9,
         \A f \in found : f.id = "L-11" /\ limits.maxNodeExposure \in 1..limits.maxHotWallet =>
           \E g \in found : g.id = "L-13" /\ AtOrAbove(g.severity, f.severity)
  PROVE  LiveInv'
<1>1. LiveTypeOK' /\ check' \in Int /\ check' > check
  BY AddKeepsType DEF LiveInv, LiveTypeOK
<1>2. ListIsOffByWhatMoved'
  BY DEF Add, NotListed, ListIsOffByWhatMoved
<1>0. (check < 5 => \A g \in found : g.id # "L-6")
      /\ (check < 9 => \A g \in found : g.id \notin {"L-11", "L-13"})
  OBVIOUS
<1>3. findings' = findings \cup found /\ limits' = limits
  BY DEF Add
<1>4. ExposureNotYetReported'
  <2>1. ASSUME check' <= 5, NEW f \in findings' PROVE f.id # "L-6"
    <3>1. check < 5
      BY <1>1, <2>1
    <3>2. \A g \in findings : g.id # "L-6"
      BY <3>1 DEF ExposureNotYetReported, LiveInv
    <3>3. \A g \in found : g.id # "L-6"
      BY <1>0, <3>1
    <3> QED BY <1>3, <2>1, <3>2, <3>3
  <2>2. ASSUME check' <= 9, NEW f \in findings' PROVE f.id \notin {"L-11", "L-13"}
    <3>1. check < 9
      BY <1>1, <2>2
    <3>2. \A g \in findings : g.id \notin {"L-11", "L-13"}
      BY <3>1 DEF ExposureNotYetReported, LiveInv
    <3>3. \A g \in found : g.id \notin {"L-11", "L-13"}
      BY <1>0, <3>1
    <3> QED BY <1>3, <2>2, <3>2, <3>3
  <2> QED BY <2>1, <2>2 DEF ExposureNotYetReported
<1>5. LimitsAgree'
  BY <1>3 DEF LimitsAgree, LiveInv
<1> QED BY <1>1, <1>2, <1>4, <1>5 DEF LiveInv

\* The wallet is part of what is counted, and atLeastDouble grows with it.
LEMMA LimitsAgreeInOneCheck ==
  ASSUME LiveTypeOK, NEW f \in CheckExposureLimits(limits, listed, wallet),
         f.id = "L-11", limits.maxNodeExposure \in 1..limits.maxHotWallet
  PROVE  \E g \in CheckExposureLimits(limits, listed, wallet) :
           g.id = "L-13" /\ AtOrAbove(g.severity, f.severity)
<1> DEFINE hot == limits.maxHotWallet
           node == limits.maxNodeExposure
           total == totalExposure(listed, wallet)
           found == CheckExposureLimits(limits, listed, wallet)
<1>1. hot \in Nat /\ node \in Nat /\ wallet \in Nat
  BY DEF LiveTypeOK, NodeTypeOK, Limits
<1>2. total \in Nat /\ total >= wallet
  <2>1. totalLocal(listed.local) \in Nat
    BY TotalFollows DEF LiveTypeOK
  <2> QED BY <1>1, <2>1 DEF totalExposure
<1>3. f \in Above(hot, wallet, "L-11", 0)
  <2>1. \A g \in Above(node, total, "L-13", 0) : g.id = "L-13"
    BY AboveReports
  <2> QED BY <2>1, LimitsFindings
<1>4. hot > 0 /\ wallet > hot
  BY <1>3 DEF Above
<1>5. f.severity = IF atLeastDouble(wallet, hot) THEN "High" ELSE "Medium"
  BY <1>3, <1>4 DEF Above, OfChannel
<1>6. node > 0 /\ total > node
  BY <1>1, <1>2, <1>4
<1> DEFINE g == OfChannel("L-13", IF atLeastDouble(total, node) THEN "High" ELSE "Medium", 0)
<1>7. g \in found
  <2>1. g \in Above(node, total, "L-13", 0)
    BY <1>6 DEF Above
  <2> QED BY <2>1, LimitsFindings
<1>8. atLeastDouble(wallet, hot) => atLeastDouble(total, node)
  BY <1>1, <1>2, <1>6, ChannelsAssumption DEF atLeastDouble, Twice
<1>9. g.id = "L-13" /\ g.severity = IF atLeastDouble(total, node) THEN "High" ELSE "Medium"
  BY DEF OfChannel
<1>10. AtOrAbove(g.severity, f.severity)
  <2>1. CASE atLeastDouble(wallet, hot)
    BY <2>1, <1>5, <1>8, <1>9 DEF AtOrAbove, Rank
  <2>2. CASE ~atLeastDouble(wallet, hot)
    BY <2>2, <1>5, <1>9 DEF AtOrAbove, Rank
  <2> QED BY <2>1, <2>2
<1> QED BY <1>7, <1>9, <1>10

\* A step of the scan or of the node keeps the invariant.
LEMMA LiveStepKeeps ==
  ASSUME LiveInv, [LiveNext]_liveVars
  PROVE  LiveInv'
<1> USE DEF LiveInv
<1>1. check \in 1..10
  BY DEF LiveTypeOK
<1>2. ASSUME AskInfo \/ AskPending \/ AskChannels PROVE LiveInv'
  <2> DEFINE Harmless(found) == \A f \in found : f.id \notin {"L-6", "L-11", "L-13"}
  <2>1. ASSUME NEW found, check \in 1..9, Add(found), Harmless(found) PROVE LiveInv'
    BY <2>1, AddKeepsInv
  <2>2. check \in 1..9
    <3>1. \/ At("version/CVE") \/ At("chain sync") \/ At("peer count") \/ At("force-close")
          \/ At("jamming") \/ At("zero-conf") \/ At("htlc-limits")
      BY <1>2 DEF AskInfo, AskPending, AskChannels
    <3>2. check = 1 \/ check = 2 \/ check = 3 \/ check = 4 \/ check = 6 \/ check = 7 \/ check = 8
      BY <1>1, <3>1, CheckIndex
    <3> QED BY <3>2
  <2>3. /\ Harmless(CheckLndVersion(info)) /\ Harmless(CheckChainSync(info))
        /\ Harmless(CheckPeerCount(info)) /\ Harmless(CheckPendingForceClose(Pending(NodeNow)))
        /\ Harmless(CheckChannelJamming(ChannelList))
        /\ Harmless(CheckZeroConfChannels(ChannelList))
        /\ Harmless(CheckHighHTLCLimits(ChannelList))
    BY WhoFindsWhat
  <2> HIDE DEF Harmless
  <2>4. CASE AskInfo
    BY <2>1, <2>2, <2>3, <2>4 DEF AskInfo
  <2>5. CASE AskPending
    BY <2>1, <2>2, <2>3, <2>5 DEF AskPending
  <2>6. CASE AskChannels
    BY <2>1, <2>2, <2>3, <2>6 DEF AskChannels
  <2> QED BY <1>2, <2>4, <2>5, <2>6
<1>3. ASSUME ListForBalance \/ ListForLimits PROVE LiveInv'
  BY <1>3, ListKeepsInv DEF ListForBalance, ListForLimits
<1>4. ASSUME AskBalance PROVE LiveInv'
  <2> DEFINE found == CheckLargeLocalBalance(listed, wallet)
  <2>1. check = 5 /\ Add(found)
    BY <1>1, <1>4, CheckIndex DEF AskBalance
  <2>2. \A f \in found : f.id \notin {"L-11", "L-13"}
    BY WhoFindsWhat
  <2> HIDE DEF found
  <2> QED BY <2>1, <2>2, AddKeepsInv
<1>5. ASSUME AskLimits PROVE LiveInv'
  <2> DEFINE found == CheckExposureLimits(limits, listed, wallet)
  <2>1. check = 9 /\ Add(found)
    BY <1>1, <1>5, CheckIndex DEF AskLimits
  <2>2. \A f \in found : f.id = "L-11" /\ limits.maxNodeExposure \in 1..limits.maxHotWallet =>
          \E g \in found : g.id = "L-13" /\ AtOrAbove(g.severity, f.severity)
    BY LimitsAgreeInOneCheck
  <2> HIDE DEF found
  <2> QED BY <2>1, <2>2, AddKeepsInv
<1>6. ASSUME CallFails PROVE LiveInv'
  <2>1. LiveTypeOK' /\ check' > check /\ listed'.answered = FALSE /\ findings' = findings
    BY <1>6, FailureKeepsType
  <2>2. check' \in Int /\ limits' = limits
    BY <1>6, <2>1 DEF LiveTypeOK, CallFails
  <2>3. ListIsOffByWhatMoved'
    BY <2>1 DEF ListIsOffByWhatMoved
  <2>4. ExposureNotYetReported'
    BY <1>1, <2>1, <2>2 DEF ExposureNotYetReported
  <2>5. LimitsAgree'
    BY <2>1, <2>2 DEF LimitsAgree
  <2> QED BY <2>1, <2>3, <2>4, <2>5
<1>7. ASSUME NodeStep PROVE LiveInv'
  <2>1. /\ NodeTypeOK' /\ Moved \in Nat
        /\ totalLocal(local') <= totalLocal(local) + Moved
        /\ totalLocal(local) <= totalLocal(local') + Moved
    BY <1>7, MovesKeepNode DEF NodeStep, LiveTypeOK
  <2>2. moved \in Nat /\ moved' = moved + Moved /\ UNCHANGED scanVars /\ events' \in 0..MaxEvents
    BY <1>7, LiveScanAssumption DEF NodeStep, LiveTypeOK
  <2>3. LiveTypeOK'
    BY <2>1, <2>2 DEF LiveTypeOK, scanVars, At
  <2>4. ListIsOffByWhatMoved'
    <3>1. totalLocal(local) \in Nat /\ totalLocal(local') \in Nat
      BY <2>1, TotalFollows DEF LiveTypeOK, NodeTypeOK
    <3>2. totalLocal(listed.local) \in Nat /\ listed' = listed
      BY <2>2, TotalFollows DEF LiveTypeOK, scanVars
    <3> QED BY <2>1, <2>2, <3>1, <3>2 DEF ListIsOffByWhatMoved
  <2>5. ExposureNotYetReported' /\ LimitsAgree'
    BY <2>2 DEF ExposureNotYetReported, LimitsAgree, scanVars
  <2> QED BY <2>3, <2>4, <2>5
<1>8. ASSUME UNCHANGED liveVars PROVE LiveInv'
  BY <1>8 DEF liveVars, nodeVars, scanVars, history, LiveTypeOK, NodeTypeOK,
              ListIsOffByWhatMoved, ExposureNotYetReported, LimitsAgree, At
<1> QED BY <1>2, <1>3, <1>4, <1>5, <1>6, <1>7, <1>8 DEF LiveNext, LiveStep

\* Initially nothing is listed and nothing found.
LEMMA LiveBegins == LiveInit => LiveInv
<1> SUFFICES ASSUME LiveInit PROVE LiveInv
  OBVIOUS
<1>1. LiveTypeOK
  BY InitTypeOK
<1>2. ListIsOffByWhatMoved /\ ExposureNotYetReported /\ LimitsAgree
  BY DEF LiveInit, NotListed, ListIsOffByWhatMoved, ExposureNotYetReported, LimitsAgree
<1> QED BY <1>1, <1>2 DEF LiveInv

\* The list a check works with is off by what has moved, in every run (live.go:144-193).
THEOREM LiveInvariance == LiveSpec => []LiveInv
<1>1. LiveInit => LiveInv
  BY LiveBegins
<1>2. LiveInv /\ [LiveNext]_liveVars => LiveInv'
  BY LiveStepKeeps
<1> QED BY <1>1, <1>2, PTL DEF LiveSpec

-----------------------------------------------------------------------------
(* Theorems about the live scan *)

\* The scan's state is well typed, and a list is only kept by the two checks that
\* have a second call to make.
THEOREM LiveTypeCorrect == LiveSpec => []LiveTypeOK
<1>1. LiveInv => LiveTypeOK
  BY DEF LiveInv
<1> QED BY <1>1, LiveInvariance, PTL

\* A wallet above its limit implies an exposure above any lower limit, in the
\* report as in the node.  (exposure_limits.go:54-115)
THEOREM LimitsSound == LiveSpec => []LimitsAgree
<1>1. LiveInv => LimitsAgree
  BY DEF LiveInv
<1> QED BY <1>1, LiveInvariance, PTL

\* The exposure the two checks report is off by what moved between their two
\* calls, whatever the node does in between.  (live.go:144-193,
\* exposure_limits.go:44-115)
THEOREM ExposureSound == LiveSpec => ExposureOffByWhatMoved
<1> DEFINE Close ==
      /\ AskBalance => IsClose("L-6", highExposure)
      /\ AskLimits /\ limits.maxNodeExposure > 0 => IsClose("L-13", limits.maxNodeExposure)
<1>1. ASSUME LiveInv PROVE Close
  <2> USE <1>1
  <2>1. /\ wallet \in Nat /\ moved \in Nat
        /\ totalLocal(local) \in Nat /\ totalLocal(listed.local) \in Nat
    BY TotalFollows DEF LiveInv, LiveTypeOK, NodeTypeOK
  <2>2. Exposure(NodeNow) = totalLocal(local) + wallet
    BY DEF Exposure, NodeNow
  <2>3. totalExposure(listed, wallet) = totalLocal(listed.local) + wallet
    BY DEF totalExposure
  <2>4. ASSUME NEW id, NEW threshold \in Nat, listed.answered,
               (\E f \in findings' : f.id = id) <=> totalExposure(listed, wallet) > threshold
        PROVE  IsClose(id, threshold)
    BY <2>1, <2>2, <2>3, <2>4 DEF LiveInv, ListIsOffByWhatMoved, IsClose
  <2>5. ASSUME AskBalance PROVE IsClose("L-6", highExposure)
    <3>1. check = 5 /\ listed.answered
      BY <2>5, CheckIndex DEF AskBalance, LiveInv, LiveTypeOK
    <3>2. findings' = findings \cup CheckLargeLocalBalance(listed, wallet)
      BY <2>5 DEF AskBalance, Add
    <3>3. (\E f \in findings' : f.id = "L-6") <=> totalExposure(listed, wallet) > highExposure
      BY <3>1, <3>2, BalanceReports DEF LiveInv, ExposureNotYetReported
    <3>4. highExposure \in Nat
      BY DEF highExposure
    <3> QED BY <2>4, <3>1, <3>3, <3>4
  <2>6. ASSUME AskLimits, limits.maxNodeExposure > 0
        PROVE  IsClose("L-13", limits.maxNodeExposure)
    <3>1. check = 9 /\ listed.answered
      BY <2>6, CheckIndex DEF AskLimits, NeedsChannels, LiveInv, LiveTypeOK
    <3>2. findings' = findings \cup CheckExposureLimits(limits, listed, wallet)
      BY <2>6 DEF AskLimits, Add
    <3>3. (\E f \in findings' : f.id = "L-13")
            <=> totalExposure(listed, wallet) > limits.maxNodeExposure
      BY <2>6, <3>1, <3>2, LimitsReport DEF LiveInv, ExposureNotYetReported
    <3>4. limits.maxNodeExposure \in Nat
      BY DEF LiveInv, LiveTypeOK, Limits
    <3> QED BY <2>4, <3>1, <3>3, <3>4
  <2> QED BY <2>5, <2>6
<1>2. LiveInv /\ [LiveNext]_liveVars => [Close]_liveVars
  BY <1>1
<1> QED BY <1>2, LiveInvariance, PTL DEF LiveSpec, ExposureOffByWhatMoved
-----------------------------------------------------------------------------
(* What the checks find in a node *)

\* The node is one: no channel holds more than it was opened with.
IsNode(node) ==
  /\ node.info \in Infos /\ node.wallet \in 0..MaxInt /\ node.open \subseteq Channels
  /\ node.local \in [Channels -> Amounts] /\ node.htlcs \in [Channels -> HtlcCounts]
  /\ node.limbo \in [Channels -> Amounts]
  /\ \A c \in Channels : node.local[c] <= terms[c].capacity

\* What CheckLargeLocalBalance finds, but for the exposure.
Large(node) ==
  {OfChannel("L-5", "Medium", c) :
     c \in {d \in node.open : /\ terms[d].capacity # 0
                              /\ 5 * node.local[d] > 4 * terms[d].capacity
                              /\ node.local[d] > minSignificantSats}}

Hot(node) == Above(limits.maxHotWallet, node.wallet, "L-11", 0)

Caps(node) == UNION {Above(limits.maxChannelCap, terms[c].capacity, "L-12", c) : c \in node.open}

\* The names are nine different ones.
LEMMA NamesOfChecks ==
  /\ liveChecks[1] = "version/CVE" /\ liveChecks[2] = "chain sync" /\ liveChecks[3] = "peer count"
  /\ liveChecks[4] = "force-close" /\ liveChecks[5] = "balance" /\ liveChecks[6] = "jamming"
  /\ liveChecks[7] = "zero-conf" /\ liveChecks[8] = "htlc-limits"
  /\ liveChecks[9] = "exposure-limits" /\ liveChecks[10] = "done"
  /\ \A i, j \in 1..10 : liveChecks[i] = liveChecks[j] => i = j
<1>1. /\ liveChecks[1] = "version/CVE" /\ liveChecks[2] = "chain sync" /\ liveChecks[3] = "peer count"
      /\ liveChecks[4] = "force-close" /\ liveChecks[5] = "balance" /\ liveChecks[6] = "jamming"
      /\ liveChecks[7] = "zero-conf" /\ liveChecks[8] = "htlc-limits"
      /\ liveChecks[9] = "exposure-limits" /\ liveChecks[10] = "done"
  BY DEF liveChecks
<1>2. \A i \in 1..10 : \/ i = 1 \/ i = 2 \/ i = 3 \/ i = 4 \/ i = 5
                       \/ i = 6 \/ i = 7 \/ i = 8 \/ i = 9 \/ i = 10
  OBVIOUS
<1> HIDE DEF liveChecks
<1>3. \A i, j \in 1..10 : liveChecks[i] = liveChecks[j] => i = j
  BY <1>1, <1>2
<1> QED BY <1>1, <1>3

\* The versions a CVE was fixed in are versions, and the reference order of
\* versions is the one the code compares by.
LEMMA OlderIsBefore ==
  ASSUME NEW version \in Versions, NEW cve \in cveDatabase
  PROVE  versionBefore(version, cve.fixedIn)
           <=> version # Unparsable /\ Older(version, cve.fixedIn)
<1>1. cve.fixedIn \in Nat \X Nat \X Nat /\ cve.fixedIn # Unparsable
  <2>1. /\ <<0, 7, 1>> # <<>> /\ <<0, 11, 0>> # <<>> /\ <<0, 10, 0>> # <<>>
        /\ <<0, 13, 3>> # <<>> /\ <<0, 17, 0>> # <<>>
    OBVIOUS
  <2>2. cve.fixedIn \in {<<0, 7, 1>>, <<0, 11, 0>>, <<0, 10, 0>>, <<0, 13, 3>>, <<0, 17, 0>>}
    BY DEF cveDatabase
  <2>3. /\ <<0, 7, 1>> \in Nat \X Nat \X Nat /\ <<0, 11, 0>> \in Nat \X Nat \X Nat
        /\ <<0, 10, 0>> \in Nat \X Nat \X Nat /\ <<0, 13, 3>> \in Nat \X Nat \X Nat
        /\ <<0, 17, 0>> \in Nat \X Nat \X Nat
    OBVIOUS
  <2> QED BY <2>1, <2>2, <2>3, Zenon DEF Unparsable
<1>2. CASE version = Unparsable
  BY <1>2 DEF versionBefore
<1>3. CASE version # Unparsable
  <2> DEFINE w == cve.fixedIn
  <2>1. version \in Nat \X Nat \X Nat
    BY <1>3 DEF Versions
  <2>2. /\ version[1] \in Nat /\ version[2] \in Nat /\ version[3] \in Nat
        /\ w[1] \in Nat /\ w[2] \in Nat /\ w[3] \in Nat
    BY <1>1, <2>1
  <2>3. \A i \in Int : /\ i \in 1..3 <=> i = 1 \/ i = 2 \/ i = 3
                       /\ i \in 1..(1 - 1) <=> FALSE
                       /\ i \in 1..(2 - 1) <=> i = 1
                       /\ i \in 1..(3 - 1) <=> i = 1 \/ i = 2
    OBVIOUS
  <2>4. 1..3 = {1, 2, 3} /\ 1..(1 - 1) = {} /\ 1..(2 - 1) = {1} /\ 1..(3 - 1) = {1, 2}
    BY <2>3
  <2>5. Older(version, w) <=> \/ version[1] < w[1]
                              \/ version[2] < w[2] /\ version[1] = w[1]
                              \/ version[3] < w[3] /\ version[1] = w[1] /\ version[2] = w[2]
    BY <2>4 DEF Older
  <2> HIDE DEF w
  <2>6. versionBefore(version, w) <=> \/ version[1] < w[1]
                                      \/ version[1] = w[1] /\ version[2] < w[2]
                                      \/ version[1] = w[1] /\ version[2] = w[2] /\ version[3] < w[3]
    BY <1>1, <1>3 DEF versionBefore, w
  <2> QED BY <1>3, <2>5, <2>6 DEF w
<1> QED BY <1>2, <1>3

\* A finding about a limit has the severity that numbers without a largest one
\* would give it.
LEMMA AboveIsExact ==
  ASSUME NEW limit \in Nat, NEW value \in 0..MaxInt, NEW id, NEW c
  PROVE  Above(limit, value, id, c)
           = IF limit \in 1..(value - 1) THEN {OfChannel(id, Excess(limit, value), c)} ELSE {}
<1>1. limit \in 1..(value - 1) <=> limit > 0 /\ value > limit
  OBVIOUS
<1>2. ASSUME limit > 0, value > limit
      PROVE  (IF atLeastDouble(value, limit) THEN "High" ELSE "Medium") = Excess(limit, value)
  <2>1. limit \in 1..MaxInt
    BY <1>2, ChannelsAssumption
  <2>2. atLeastDouble(value, limit) <=> value >= 2 * limit
    <3>1. value \in Int64 /\ limit \in Int64
      BY <2>1, ChannelsAssumption DEF Int64
    <3> QED BY <2>1, <3>1, DoubleIsExact
  <2> QED BY <2>2 DEF Excess
<1> QED BY <1>1, <1>2 DEF Above

\* What is said of the wallet and the channels that are above their limits.
LEMMA LimitsOfNode ==
  ASSUME LiveTypeOK, NEW node, IsNode(node)
  PROVE  /\ Hot(node) = IF limits.maxHotWallet \in 1..(node.wallet - 1)
                        THEN {Live("L-11", Excess(limits.maxHotWallet, node.wallet))} ELSE {}
         /\ Caps(node) = {OfChannel("L-12", Excess(limits.maxChannelCap, terms[c].capacity), c) : c \in
                            {d \in node.open : limits.maxChannelCap \in 1..(terms[d].capacity - 1)}}
<1>1. limits.maxHotWallet \in Nat /\ limits.maxChannelCap \in Nat /\ node.wallet \in 0..MaxInt
  BY DEF LiveTypeOK, Limits, IsNode
<1>2. Hot(node) = IF limits.maxHotWallet \in 1..(node.wallet - 1)
                  THEN {Live("L-11", Excess(limits.maxHotWallet, node.wallet))} ELSE {}
  BY <1>1, AboveIsExact DEF Hot, Live
<1>3. ASSUME NEW c \in node.open
      PROVE  Above(limits.maxChannelCap, terms[c].capacity, "L-12", c)
               = IF limits.maxChannelCap \in 1..(terms[c].capacity - 1)
                 THEN {OfChannel("L-12", Excess(limits.maxChannelCap, terms[c].capacity), c)} ELSE {}
  <2>1. c \in Channels
    BY DEF IsNode
  <2>2. terms[c].capacity \in Nat /\ terms[c].capacity <= MaxInt /\ MaxInt \in Nat
    BY <2>1, ChannelsAssumption
  <2>3. terms[c].capacity \in 0..MaxInt
    BY <2>2
  <2> QED BY <1>1, <2>3, AboveIsExact
<1>4. Caps(node) = {OfChannel("L-12", Excess(limits.maxChannelCap, terms[c].capacity), c) : c \in
                      {d \in node.open : limits.maxChannelCap \in 1..(terms[d].capacity - 1)}}
  <2> DEFINE some(c) == Above(limits.maxChannelCap, terms[c].capacity, "L-12", c)
             one(c) == OfChannel("L-12", Excess(limits.maxChannelCap, terms[c].capacity), c)
             high(c) == limits.maxChannelCap \in 1..(terms[c].capacity - 1)
  <2>1. \A c \in node.open : some(c) = IF high(c) THEN {one(c)} ELSE {}
    BY <1>3
  <2>2. Caps(node) = UNION {some(c) : c \in node.open}
    BY DEF Caps
  <2> HIDE DEF some, one, high
  <2>3. Caps(node) = {one(c) : c \in {d \in node.open : high(d)}}
    BY <2>1, <2>2
  <2> QED BY <2>3 DEF one, high
<1> QED BY <1>2, <1>4
\* What there is to say about a node is what the nine checks say that see it at
\* one moment.
LEMMA VerdictIsFound ==
  ASSUME LiveTypeOK, NEW node, IsNode(node)
  PROVE  Verdict(node) =
           CheckLndVersion(node.info) \cup CheckChainSync(node.info) \cup CheckPeerCount(node.info)
             \cup CheckPendingForceClose(Pending(node)) \cup Large(node)
             \cup CheckChannelJamming(node) \cup CheckZeroConfChannels(node)
             \cup CheckHighHTLCLimits(node) \cup (Hot(node) \cup Caps(node))
<1> DEFINE cves == {Live(cve.id, cve.severity) : cve \in
                      {v \in cveDatabase : node.info.version # Unparsable /\ Older(node.info.version, v.fixedIn)}}
           chain == IF node.info.syncedToChain THEN {} ELSE {Live("L-1", "Critical")}
           graph == IF node.info.syncedToGraph THEN {} ELSE {Live("L-2", "Medium")}
           peers == IF node.info.numPeers >= 3 THEN {}
                    ELSE {Live("L-3", IF node.info.numPeers > 0 THEN "Medium" ELSE "High")}
           forced == IF \A c \in Channels : node.limbo[c] = 0 THEN {} ELSE {Live("L-4", "High")}
           large == {OfChannel("L-5", "Medium", c) : c \in
                       {d \in node.open : /\ node.local[d] > minSignificantSats
                                          /\ 100 * node.local[d] > 80 * terms[d].capacity}}
           jammed == {OfChannel("L-7", "High", c) : c \in {d \in node.open : node.htlcs[d] > 19}}
           pressed == IF PendingHtlcs(node) <= 50 \/ \E c \in node.open : node.htlcs[c] > 19 THEN {}
                      ELSE {Live("L-8", "Medium")}
           zero == IF \A c \in node.open : ~terms[c].zeroConf THEN {} ELSE {Live("L-9", "High")}
           many == IF \A c \in node.open : terms[c].remoteMaxHTLCs < 200 THEN {}
                   ELSE {Live("L-10", "Medium")}
           hot == IF limits.maxHotWallet \in 1..(node.wallet - 1)
                  THEN {Live("L-11", Excess(limits.maxHotWallet, node.wallet))} ELSE {}
           caps == {OfChannel("L-12", Excess(limits.maxChannelCap, terms[c].capacity), c) : c \in
                      {d \in node.open : limits.maxChannelCap \in 1..(terms[d].capacity - 1)}}
<1>1. Verdict(node) = cves \cup chain \cup graph \cup peers \cup forced \cup large \cup jammed
                        \cup pressed \cup zero \cup many \cup hot \cup caps
  BY DEF Verdict
<1>2. cves = CheckLndVersion(node.info)
  <2>1. node.info.version \in Versions
    BY DEF IsNode, Infos
  <2>2. {v \in cveDatabase : versionBefore(node.info.version, v.fixedIn)}
          = {v \in cveDatabase : node.info.version # Unparsable /\ Older(node.info.version, v.fixedIn)}
    BY <2>1, OlderIsBefore
  <2> QED BY <2>2 DEF CheckLndVersion
<1>3. chain \cup graph = CheckChainSync(node.info)
  BY DEF CheckChainSync
<1>4. peers = CheckPeerCount(node.info)
  <2>1. node.info.numPeers \in Nat
    BY DEF IsNode, Infos
  <2>2. CASE node.info.numPeers = 0
    BY <2>2 DEF CheckPeerCount
  <2>3. CASE node.info.numPeers \in 1..2
    BY <2>3 DEF CheckPeerCount
  <2>4. CASE node.info.numPeers >= 3
    BY <2>1, <2>4 DEF CheckPeerCount
  <2> QED BY <2>1, <2>2, <2>3, <2>4
<1>5. forced = CheckPendingForceClose(Pending(node))
  <2>1. \A c \in Channels : node.limbo[c] \in Nat
    BY NodeAssumption DEF IsNode
  <2>2. (\A c \in Channels : node.limbo[c] = 0) <=> Pending(node) = {}
    BY <2>1 DEF Pending
  <2> QED BY <2>2 DEF CheckPendingForceClose
<1>6. large = Large(node)
  <2>1. ASSUME NEW d \in node.open
        PROVE  node.local[d] > minSignificantSats /\ 100 * node.local[d] > 80 * terms[d].capacity
                 <=> /\ terms[d].capacity # 0
                     /\ 5 * node.local[d] > 4 * terms[d].capacity
                     /\ node.local[d] > minSignificantSats
    <3>1. d \in Channels
      BY DEF IsNode
    <3>2. node.local[d] \in Nat /\ terms[d].capacity \in Nat /\ node.local[d] <= terms[d].capacity
      BY <3>1, NodeAssumption, ChannelsAssumption DEF IsNode
    <3> QED BY <3>2 DEF minSignificantSats
  <2>2. {d \in node.open : node.local[d] > minSignificantSats /\ 100 * node.local[d] > 80 * terms[d].capacity}
          = {d \in node.open : /\ terms[d].capacity # 0
                               /\ 5 * node.local[d] > 4 * terms[d].capacity
                               /\ node.local[d] > minSignificantSats}
    BY <2>1
  <2> QED BY <2>2 DEF Large
<1>7. jammed \cup pressed = CheckChannelJamming(node)
  <2>1. IsFiniteSet(node.open)
    BY NodeAssumption, FS_Subset DEF IsNode
  <2>2. PendingHtlcs(node) = SumFunctionOnSet(node.htlcs, node.open)
    BY <2>1, SumOfRestriction DEF PendingHtlcs
  <2>3. PendingHtlcs(node) \in Nat
    <3>1. [c \in node.open |-> node.htlcs[c]] \in [node.open -> Nat]
      BY NodeAssumption DEF IsNode
    <3> QED BY <2>1, <3>1, SumType DEF PendingHtlcs
  <2>4. \A d \in node.open : node.htlcs[d] > 19 <=> node.htlcs[d] >= 20
    <3>1. \A d \in node.open : node.htlcs[d] \in Nat
      BY NodeAssumption DEF IsNode
    <3> QED BY <3>1
  <2> DEFINE heavy == {d \in node.open : node.htlcs[d] >= 20}
             total == SumFunctionOnSet(node.htlcs, node.open)
  <2>5. heavy = {d \in node.open : node.htlcs[d] > 19}
    BY <2>4
  <2>6. CheckChannelJamming(node) = {OfChannel("L-7", "High", c) : c \in heavy}
          \cup {f \in {Live("L-8", "Medium")} : total > 50 /\ heavy = {}}
    BY DEF CheckChannelJamming
  <2>7. jammed = {OfChannel("L-7", "High", c) : c \in heavy}
    BY <2>5
  <2>8. pressed = {f \in {Live("L-8", "Medium")} : total > 50 /\ heavy = {}}
    <3>1. (PendingHtlcs(node) <= 50 \/ \E c \in node.open : node.htlcs[c] > 19)
            <=> ~(total > 50 /\ heavy = {})
      BY <2>2, <2>3, <2>5
    <3> HIDE DEF total, heavy
    <3> QED BY <3>1
  <2> QED BY <2>6, <2>7, <2>8
<1>8. zero = CheckZeroConfChannels(node)
  BY DEF CheckZeroConfChannels
<1>9. many = CheckHighHTLCLimits(node)
  <2>0. \A c \in node.open : terms[c].remoteMaxHTLCs \in Nat
    BY ChannelsAssumption DEF IsNode
  <2>1. \A c \in node.open : (terms[c].remoteMaxHTLCs < 200) <=> ~(terms[c].remoteMaxHTLCs >= 200)
    BY <2>0
  <2> QED BY <2>1 DEF CheckHighHTLCLimits
<1>10. hot = Hot(node) /\ caps = Caps(node)
  BY LimitsOfNode
<1> HIDE DEF cves, chain, graph, peers, forced, large, jammed, pressed, zero, many, hot, caps
<1> QED BY <1>1, <1>2, <1>3, <1>4, <1>5, <1>6, <1>7, <1>8, <1>9, <1>10

\* A finding of a running node.
IsLive(f) == f.module = "live" /\ f.channel \in Nat /\ f = OfChannel(f.id, f.severity, f.channel)

\* The findings of one check: no two of them are about the same.
Regular(found, name) ==
  /\ \A f \in found : IsLive(f) /\ CheckOf(f) = name
  /\ \A f, g \in found : f.id = g.id /\ f.channel = g.channel => f = g

\* Each check finds what is its own, and says it once.
LEMMA FoundIsRegular ==
  ASSUME NEW node, node.open \subseteq Channels, NEW wallet_
  PROVE  /\ Regular(CheckLndVersion(node.info), "version/CVE")
         /\ Regular(CheckChainSync(node.info), "chain sync")
         /\ Regular(CheckPeerCount(node.info), "peer count")
         /\ Regular(CheckPendingForceClose(Pending(node)), "force-close")
         /\ Regular(CheckLargeLocalBalance(node, wallet_), "balance")
         /\ Regular(CheckChannelJamming(node), "jamming")
         /\ Regular(CheckZeroConfChannels(node), "zero-conf")
         /\ Regular(CheckHighHTLCLimits(node), "htlc-limits")
         /\ Regular(CheckExposureLimits(limits, node, wallet_), "exposure-limits")
<1>1. \A c \in node.open : c \in Nat
  BY ChannelsAssumption
<1>2. Regular(CheckLndVersion(node.info), "version/CVE")
  <2>1. \A v, w \in cveDatabase : v.id = w.id => v.severity = w.severity
    BY DEF cveDatabase
  <2>2. \A v \in cveDatabase :
          v.id \notin {"L-1", "L-2", "L-3", "L-4", "L-5", "L-6", "L-7", "L-8", "L-9", "L-10",
                       "L-11", "L-12", "L-13"}
    BY DEF cveDatabase
  <2> QED BY <2>1, <2>2 DEF Regular, CheckLndVersion, Live, OfChannel, IsLive, CheckOf
<1>3. Regular(CheckChainSync(node.info), "chain sync")
  BY DEF Regular, CheckChainSync, Live, OfChannel, IsLive, CheckOf
<1>4. Regular(CheckPeerCount(node.info), "peer count")
  BY DEF Regular, CheckPeerCount, Live, OfChannel, IsLive, CheckOf
<1>5. Regular(CheckPendingForceClose(Pending(node)), "force-close")
  BY DEF Regular, CheckPendingForceClose, Live, OfChannel, IsLive, CheckOf
<1>6. Regular(CheckLargeLocalBalance(node, wallet_), "balance")
  BY <1>1 DEF Regular, CheckLargeLocalBalance, Live, OfChannel, IsLive, CheckOf
<1>7. Regular(CheckChannelJamming(node), "jamming")
  BY <1>1 DEF Regular, CheckChannelJamming, Live, OfChannel, IsLive, CheckOf
<1>8. Regular(CheckZeroConfChannels(node), "zero-conf")
  BY DEF Regular, CheckZeroConfChannels, Live, OfChannel, IsLive, CheckOf
<1>9. Regular(CheckHighHTLCLimits(node), "htlc-limits")
  BY DEF Regular, CheckHighHTLCLimits, Live, OfChannel, IsLive, CheckOf
<1>10. Regular(CheckExposureLimits(limits, node, wallet_), "exposure-limits")
  <2> DEFINE hot == Above(limits.maxHotWallet, wallet_, "L-11", 0)
             cap(c) == Above(limits.maxChannelCap, terms[c].capacity, "L-12", c)
             whole == Above(limits.maxNodeExposure, totalExposure(node, wallet_), "L-13", 0)
             found == CheckExposureLimits(limits, node, wallet_)
  <2>1. found = hot \cup (UNION {cap(c) : c \in node.open}) \cup whole
    BY DEF CheckExposureLimits
  <2>2. ASSUME NEW limit, NEW value, NEW id, NEW c \in Nat
        PROVE  /\ \A f \in Above(limit, value, id, c) : IsLive(f) /\ f.id = id /\ f.channel = c
               /\ \A f, g \in Above(limit, value, id, c) : f = g
    BY DEF Above, OfChannel, IsLive
  <2>3. /\ \A f \in hot : IsLive(f) /\ f.id = "L-11" /\ f.channel = 0
        /\ \A f, g \in hot : f = g
        /\ \A f \in whole : IsLive(f) /\ f.id = "L-13" /\ f.channel = 0
        /\ \A f, g \in whole : f = g
        /\ \A c \in node.open : \A f \in cap(c) : IsLive(f) /\ f.id = "L-12" /\ f.channel = c
        /\ \A c \in node.open : \A f, g \in cap(c) : f = g
    BY <1>1, <2>2
  <2> HIDE DEF hot, cap, whole, found
  <2>4. \A f \in found : IsLive(f) /\ f.id \in {"L-11", "L-12", "L-13"}
    BY <2>1, <2>3
  <2>5. \A f, g \in found : f.id = g.id /\ f.channel = g.channel => f = g
    BY <2>1, <2>3
  <2> QED BY <2>4, <2>5 DEF Regular, CheckOf, found
<1> QED BY <1>2, <1>3, <1>4, <1>5, <1>6, <1>7, <1>8, <1>9, <1>10
\* What there is to say about a node, check by check.
LEMMA VerdictByCheck ==
  ASSUME LiveTypeOK, NEW node, IsNode(node), NEW f \in Verdict(node)
  PROVE  /\ CheckOf(f) = "version/CVE" => f \in CheckLndVersion(node.info)
         /\ CheckOf(f) = "chain sync" => f \in CheckChainSync(node.info)
         /\ CheckOf(f) = "peer count" => f \in CheckPeerCount(node.info)
         /\ CheckOf(f) = "force-close" => f \in CheckPendingForceClose(Pending(node))
         /\ CheckOf(f) = "balance" => f \in Large(node)
         /\ CheckOf(f) = "jamming" => f \in CheckChannelJamming(node)
         /\ CheckOf(f) = "zero-conf" => f \in CheckZeroConfChannels(node)
         /\ CheckOf(f) = "htlc-limits" => f \in CheckHighHTLCLimits(node)
         /\ CheckOf(f) = "exposure-limits" => f \in Hot(node) \cup Caps(node)
         /\ CheckOf(f) # "done"
<1>1. Large(node) \subseteq CheckLargeLocalBalance(node, node.wallet)
  BY DEF Large, CheckLargeLocalBalance
<1>2. Hot(node) \cup Caps(node) \subseteq CheckExposureLimits(limits, node, node.wallet)
  BY DEF Hot, Caps, CheckExposureLimits
<1>3. /\ \A g \in CheckLndVersion(node.info) : CheckOf(g) = "version/CVE"
      /\ \A g \in CheckChainSync(node.info) : CheckOf(g) = "chain sync"
      /\ \A g \in CheckPeerCount(node.info) : CheckOf(g) = "peer count"
      /\ \A g \in CheckPendingForceClose(Pending(node)) : CheckOf(g) = "force-close"
      /\ \A g \in Large(node) : CheckOf(g) = "balance"
      /\ \A g \in CheckChannelJamming(node) : CheckOf(g) = "jamming"
      /\ \A g \in CheckZeroConfChannels(node) : CheckOf(g) = "zero-conf"
      /\ \A g \in CheckHighHTLCLimits(node) : CheckOf(g) = "htlc-limits"
      /\ \A g \in Hot(node) \cup Caps(node) : CheckOf(g) = "exposure-limits"
  BY <1>1, <1>2, FoundIsRegular DEF Regular, IsNode
<1>4. f \in CheckLndVersion(node.info) \cup CheckChainSync(node.info) \cup CheckPeerCount(node.info)
             \cup CheckPendingForceClose(Pending(node)) \cup Large(node)
             \cup CheckChannelJamming(node) \cup CheckZeroConfChannels(node)
             \cup CheckHighHTLCLimits(node) \cup (Hot(node) \cup Caps(node))
  BY VerdictIsFound
<1> QED BY <1>3, <1>4

\* Without limits there is nothing to say about any.
LEMMA LimitsAreGiven ==
  ASSUME LiveTypeOK, NEW node, IsNode(node), NEW f \in Verdict(node), CheckOf(f) = "exposure-limits"
  PROVE  Given
<1>1. f \in Hot(node) \/ f \in Caps(node)
  BY VerdictByCheck
<1> QED BY <1>1 DEF Hot, Caps, Above, Given

-----------------------------------------------------------------------------
(* What the report says of the node *)

\* The checks that are over, those without a limit to test among them.
Over(name) == \E i \in 1..(check - 1) : liveChecks[i] = name

\* What was true of the node in every state it has been in.
Lasting == {f \in UNION {Verdict(node) : node \in seen} : \A node \in seen : f \in Verdict(node)}

\* The states of the node are on record, with the one the list was taken in.
StatesAreSeen ==
  /\ \A node \in seen : IsNode(node)
  /\ NodeNow \in seen
  /\ listed.answered =>
       \E node \in seen : node.open = listed.open /\ node.local = listed.local

LastingIsReported == \A f \in Lasting : Over(CheckOf(f)) => f \in findings \/ CheckOf(f) \in failed

\* No check that is still to come has reported yet, and none reports twice.
ReportedOnce ==
  /\ \A f \in findings : IsLive(f) /\ Over(CheckOf(f))
  /\ \A f, g \in findings : f.id = g.id /\ f.channel = g.channel => f = g

ReportInv == StatesAreSeen /\ FindingsWereTrueOnce /\ LastingIsReported /\ ReportedOnce

\* What a node is said to be depends on it and the limits, which stay.
LEMMA VerdictStays ==
  ASSUME limits' = limits, NEW node
  PROVE  Verdict(node)' = Verdict(node)
BY DEF Verdict

\* One check more is over, and the one for the limits if there are none.
LEMMA OverAfterNext ==
  ASSUME LiveTypeOK, check \in 1..9, NextCheck
  PROVE  /\ \A name : Over(name) \/ name = liveChecks[check] => Over(name)'
         /\ \A name : Over(name)' => \/ Over(name) \/ name = liveChecks[check]
                                     \/ name = "exposure-limits" /\ ~Given
         /\ ~Over(liveChecks[check])
<1>0. ~Over(liveChecks[check])
  <2> SUFFICES ASSUME NEW i \in 1..(check - 1), liveChecks[i] = liveChecks[check] PROVE FALSE
    BY DEF Over
  <2>1. i \in 1..10 /\ check \in 1..10 /\ i # check
    OBVIOUS
  <2> QED BY <2>1, NamesOfChecks
<1>1. ASSUME NEW name, Over(name) \/ name = liveChecks[check] PROVE Over(name)'
  <2>1. PICK i \in 1..check : liveChecks[i] = name
    <3>1. check \in 1..check /\ 1..(check - 1) \subseteq 1..check
      OBVIOUS
    <3> QED BY <1>1, <3>1 DEF Over
  <2>2. i \in 1..(check' - 1)
    BY DEF NextCheck
  <2> QED BY <2>1, <2>2 DEF Over
<1>2. ASSUME NEW name, Over(name)'
      PROVE  Over(name) \/ name = liveChecks[check] \/ (name = "exposure-limits" /\ ~Given)
  <2>1. PICK i \in 1..(check' - 1) : liveChecks[i] = name
    BY <1>2 DEF Over
  <2>2. i \in 1..(check - 1) \/ i = check \/ (i = 9 /\ ~Given)
    BY DEF NextCheck
  <2> QED BY <2>1, <2>2, NamesOfChecks DEF Over
<1> QED BY <1>0, <1>1, <1>2

\* A check that returns its findings: what it found was true once, and it found
\* all that was true of the node throughout.
LEMMA AddKeepsReport ==
  ASSUME LiveInv, ReportInv, check \in 1..9, NEW found, Add(found),
         Regular(found, liveChecks[check]),
         \A f \in found : f.id \in Torn \/ \E node \in seen : f \in Verdict(node),
         \A f \in Lasting : CheckOf(f) = liveChecks[check] => f \in found
  PROVE  ReportInv'
<1>1. /\ findings' = findings \cup found /\ limits' = limits /\ seen' = seen /\ failed' = failed
      /\ listed'.answered = FALSE /\ NodeNow' = NodeNow /\ NextCheck
  BY DEF Add, NotListed, history, nodeVars, NodeNow
<1>2. LiveTypeOK
  BY DEF LiveInv
<1>3. \A node : Verdict(node)' = Verdict(node)
  BY <1>1, VerdictStays
<1>4. StatesAreSeen'
  BY <1>1 DEF ReportInv, StatesAreSeen
<1>5. FindingsWereTrueOnce'
  BY <1>1, <1>3 DEF ReportInv, FindingsWereTrueOnce
<1>6. Lasting' = Lasting
  BY <1>1, <1>3 DEF Lasting
<1>7. LastingIsReported'
  <2> SUFFICES ASSUME NEW f \in Lasting, Over(CheckOf(f))'
               PROVE  f \in findings' \/ CheckOf(f) \in failed'
    BY <1>6 DEF LastingIsReported
  <2>1. NodeNow \in seen /\ IsNode(NodeNow) /\ f \in Verdict(NodeNow)
    BY DEF ReportInv, StatesAreSeen, Lasting
  <2>2. CheckOf(f) = "exposure-limits" => Given
    BY <1>2, <2>1, LimitsAreGiven
  <2>3. Over(CheckOf(f)) \/ CheckOf(f) = liveChecks[check]
    BY <1>1, <1>2, <2>2, OverAfterNext
  <2> QED BY <1>1, <2>3 DEF ReportInv, LastingIsReported
<1>8. ReportedOnce'
  <2>1. \A f \in findings' : IsLive(f) /\ Over(CheckOf(f))'
    BY <1>1, <1>2, OverAfterNext DEF ReportInv, ReportedOnce, Regular
  <2>2. \A f, g : f.id = g.id => CheckOf(f) = CheckOf(g)
    BY DEF CheckOf
  <2>3. \A f \in findings, g \in found : f.id # g.id
    BY <1>1, <1>2, <2>2, OverAfterNext DEF ReportInv, ReportedOnce, Regular
  <2>4. \A f, g \in findings' : f.id = g.id /\ f.channel = g.channel => f = g
    BY <1>1, <2>3 DEF ReportInv, ReportedOnce, Regular
  <2> QED BY <2>1, <2>4 DEF ReportedOnce
<1> QED BY <1>4, <1>5, <1>7, <1>8 DEF ReportInv

\* What a check finds that asks once is what there is to say about the node.
LEMMA FoundAtOnce ==
  ASSUME LiveTypeOK, NEW node, IsNode(node)
  PROVE  CheckLndVersion(node.info) \cup CheckChainSync(node.info) \cup CheckPeerCount(node.info)
           \cup CheckPendingForceClose(Pending(node)) \cup Large(node)
           \cup CheckChannelJamming(node) \cup CheckZeroConfChannels(node)
           \cup CheckHighHTLCLimits(node) \cup Hot(node) \cup Caps(node) \subseteq Verdict(node)
BY VerdictIsFound
\* A call that fails: its check is excused.
LEMMA FailureKeepsReport ==
  ASSUME LiveInv, ReportInv, CallFails
  PROVE  ReportInv'
<1>1. /\ findings' = findings /\ limits' = limits /\ seen' = seen
      /\ failed' = failed \cup {liveChecks[check]}
      /\ listed'.answered = FALSE /\ NodeNow' = NodeNow /\ NextCheck
  BY DEF CallFails, NotListed, nodeVars, NodeNow
<1>2. LiveTypeOK /\ check \in 1..9
  <2>1. check \in 1..10 /\ ~At("done")
    BY DEF CallFails, LiveInv, LiveTypeOK
  <2>2. check # 10
    BY <2>1, CheckIndex
  <2> QED BY <2>1, <2>2 DEF LiveInv
<1>3. \A node : Verdict(node)' = Verdict(node)
  BY <1>1, VerdictStays
<1>4. StatesAreSeen'
  BY <1>1 DEF ReportInv, StatesAreSeen
<1>5. FindingsWereTrueOnce'
  BY <1>1, <1>3 DEF ReportInv, FindingsWereTrueOnce
<1>6. Lasting' = Lasting
  BY <1>1, <1>3 DEF Lasting
<1>7. LastingIsReported'
  <2> SUFFICES ASSUME NEW f \in Lasting, Over(CheckOf(f))'
               PROVE  f \in findings' \/ CheckOf(f) \in failed'
    BY <1>6 DEF LastingIsReported
  <2>1. NodeNow \in seen /\ IsNode(NodeNow) /\ f \in Verdict(NodeNow)
    BY DEF ReportInv, StatesAreSeen, Lasting
  <2>2. CheckOf(f) = "exposure-limits" => Given
    BY <1>2, <2>1, LimitsAreGiven
  <2>3. Over(CheckOf(f)) \/ CheckOf(f) = liveChecks[check]
    BY <1>1, <1>2, <2>2, OverAfterNext
  <2> QED BY <1>1, <2>3 DEF ReportInv, LastingIsReported
<1>8. ReportedOnce'
  BY <1>1, <1>2, OverAfterNext DEF ReportInv, ReportedOnce
<1> QED BY <1>4, <1>5, <1>7, <1>8 DEF ReportInv

\* A move of the node: less is true throughout, more was true once.
LEMMA MoveKeepsReport ==
  ASSUME LiveInv', ReportInv, NodeStep
  PROVE  ReportInv'
<1>1. UNCHANGED scanVars /\ seen' = seen \cup {NodeNow'}
  BY DEF NodeStep
<1>2. /\ limits' = limits /\ check' = check /\ listed' = listed
      /\ findings' = findings /\ failed' = failed
  BY <1>1 DEF scanVars
<1>3. \A node : Verdict(node)' = Verdict(node)
  BY <1>2, VerdictStays
<1>4. StatesAreSeen'
  <2>1. IsNode(NodeNow')
    BY DEF LiveInv, LiveTypeOK, NodeTypeOK, NodeNow, IsNode
  <2> QED BY <1>1, <1>2, <2>1 DEF ReportInv, StatesAreSeen
<1>5. FindingsWereTrueOnce'
  BY <1>1, <1>2, <1>3 DEF ReportInv, FindingsWereTrueOnce
<1>6. Lasting' \subseteq Lasting
  <2>1. NodeNow \in seen /\ seen \subseteq seen'
    BY <1>1 DEF ReportInv, StatesAreSeen
  <2> QED BY <1>3, <2>1 DEF Lasting
<1>7. \A name : Over(name)' <=> Over(name)
  BY <1>2 DEF Over
<1>8. LastingIsReported'
  BY <1>2, <1>6, <1>7 DEF ReportInv, LastingIsReported
<1>9. ReportedOnce'
  BY <1>2, <1>7 DEF ReportInv, ReportedOnce
<1> QED BY <1>4, <1>5, <1>8, <1>9 DEF ReportInv

\* The list is of the node as it is.
LEMMA ListKeepsReport ==
  ASSUME ReportInv, ListFirst
  PROVE  ReportInv'
<1>1. /\ limits' = limits /\ check' = check /\ listed' = ChannelList /\ seen' = seen
      /\ findings' = findings /\ failed' = failed /\ NodeNow' = NodeNow
  BY DEF ListFirst, nodeVars, NodeNow
<1>2. \A node : Verdict(node)' = Verdict(node)
  BY <1>1, VerdictStays
<1>3. NodeNow.open = ChannelList.open /\ NodeNow.local = ChannelList.local
  BY DEF NodeNow, ChannelList
<1>4. StatesAreSeen'
  BY <1>1, <1>3 DEF ReportInv, StatesAreSeen
<1>5. FindingsWereTrueOnce'
  BY <1>1, <1>2 DEF ReportInv, FindingsWereTrueOnce
<1>6. Lasting' = Lasting
  BY <1>1, <1>2 DEF Lasting
<1>7. LastingIsReported' /\ ReportedOnce'
  BY <1>1, <1>6 DEF ReportInv, LastingIsReported, ReportedOnce, Over
<1> QED BY <1>4, <1>5, <1>7 DEF ReportInv

\* A check that asks once finds exactly what there is to say about the node.
LEMMA OneCallKeepsReport ==
  ASSUME LiveInv, ReportInv, AskInfo \/ AskPending \/ AskChannels
  PROVE  ReportInv'
<1> DEFINE Exact(found) ==
      /\ Regular(found, liveChecks[check])
      /\ found \subseteq Verdict(NodeNow)
      /\ \A f \in Verdict(NodeNow) : CheckOf(f) = liveChecks[check] => f \in found
<1>1. LiveTypeOK /\ check \in 1..10 /\ NodeNow \in seen /\ IsNode(NodeNow)
  BY DEF LiveInv, LiveTypeOK, ReportInv, StatesAreSeen
<1>2. ASSUME NEW found, check \in 1..9, Add(found), Exact(found)
      PROVE  ReportInv'
  <2>1. \A f \in found : \E node \in seen : f \in Verdict(node)
    BY <1>1, <1>2
  <2>2. \A f \in Lasting : CheckOf(f) = liveChecks[check] => f \in found
    BY <1>1, <1>2 DEF Lasting
  <2> QED BY <1>2, <2>1, <2>2, AddKeepsReport
<1>3. /\ NodeNow.info = info /\ NodeNow.open = open /\ NodeNow.htlcs = htlcs
      /\ ChannelList.open = open /\ ChannelList.htlcs = htlcs
      /\ open \subseteq Channels
  BY <1>1 DEF NodeNow, ChannelList, IsNode
<1>4. /\ CheckChannelJamming(ChannelList) = CheckChannelJamming(NodeNow)
      /\ CheckZeroConfChannels(ChannelList) = CheckZeroConfChannels(NodeNow)
      /\ CheckHighHTLCLimits(ChannelList) = CheckHighHTLCLimits(NodeNow)
  BY <1>3 DEF CheckChannelJamming, CheckZeroConfChannels, CheckHighHTLCLimits
<1>5. /\ Regular(CheckLndVersion(info), "version/CVE")
      /\ Regular(CheckChainSync(info), "chain sync")
      /\ Regular(CheckPeerCount(info), "peer count")
      /\ Regular(CheckPendingForceClose(Pending(NodeNow)), "force-close")
      /\ Regular(CheckChannelJamming(NodeNow), "jamming")
      /\ Regular(CheckZeroConfChannels(NodeNow), "zero-conf")
      /\ Regular(CheckHighHTLCLimits(NodeNow), "htlc-limits")
  BY <1>3, FoundIsRegular
<1>6. /\ check = 1 => Exact(CheckLndVersion(info))
      /\ check = 2 => Exact(CheckChainSync(info))
      /\ check = 3 => Exact(CheckPeerCount(info))
      /\ check = 4 => Exact(CheckPendingForceClose(Pending(NodeNow)))
      /\ check = 6 => Exact(CheckChannelJamming(NodeNow))
      /\ check = 7 => Exact(CheckZeroConfChannels(NodeNow))
      /\ check = 8 => Exact(CheckHighHTLCLimits(NodeNow))
  BY <1>1, <1>3, <1>5, NamesOfChecks, VerdictByCheck, FoundAtOnce
<1> HIDE DEF Exact
<1>7. /\ At("version/CVE") => Exact(CheckLndVersion(info))
      /\ At("chain sync") => Exact(CheckChainSync(info))
      /\ At("peer count") => Exact(CheckPeerCount(info))
      /\ At("force-close") => Exact(CheckPendingForceClose(Pending(NodeNow)))
      /\ At("jamming") => Exact(CheckChannelJamming(ChannelList))
      /\ At("zero-conf") => Exact(CheckZeroConfChannels(ChannelList))
      /\ At("htlc-limits") => Exact(CheckHighHTLCLimits(ChannelList))
      /\ ~At("done") => check \in 1..9
  <2>1. check \in 1..10
    BY <1>1
  <2>2. /\ (At("version/CVE") => check = 1) /\ (At("chain sync") => check = 2)
        /\ (At("peer count") => check = 3) /\ (At("force-close") => check = 4)
        /\ (At("jamming") => check = 6) /\ (At("zero-conf") => check = 7)
        /\ (At("htlc-limits") => check = 8)
    BY <2>1, CheckIndex
  <2>3. ~At("done") => check # 10
    BY <2>1, CheckIndex
  <2>4. ~At("done") => check \in 1..9
    BY <2>1, <2>3
  <2>5. /\ Exact(CheckChannelJamming(NodeNow)) => Exact(CheckChannelJamming(ChannelList))
        /\ Exact(CheckZeroConfChannels(NodeNow)) => Exact(CheckZeroConfChannels(ChannelList))
        /\ Exact(CheckHighHTLCLimits(NodeNow)) => Exact(CheckHighHTLCLimits(ChannelList))
    BY <1>4
  <2> QED BY <1>6, <2>2, <2>4, <2>5
<1>8. CASE AskInfo
  BY <1>2, <1>7, <1>8 DEF AskInfo, At
<1>9. CASE AskPending
  BY <1>2, <1>7, <1>9 DEF AskPending, At
<1>10. CASE AskChannels
  BY <1>2, <1>7, <1>10 DEF AskChannels, At
<1> QED BY <1>8, <1>9, <1>10

\* The large channels are those of the list, which was taken of a node on record.
LEMMA BalanceKeepsReport ==
  ASSUME LiveInv, ReportInv, AskBalance
  PROVE  ReportInv'
<1> DEFINE found == CheckLargeLocalBalance(listed, wallet)
<1>1. LiveTypeOK /\ check = 5 /\ listed.answered /\ Add(found)
  BY CheckIndex DEF LiveInv, LiveTypeOK, AskBalance
<1>2. PICK node \in seen : node.open = listed.open /\ node.local = listed.local
  BY <1>1 DEF ReportInv, StatesAreSeen
<1>3. IsNode(node) /\ listed.open \subseteq Channels
  BY <1>2 DEF ReportInv, StatesAreSeen, IsNode
<1>4. Large(node) \subseteq found /\ \A f \in found : f \in Large(node) \/ f.id = "L-6"
  BY <1>2 DEF Large, CheckLargeLocalBalance, Live, OfChannel
<1>5. Regular(found, "balance")
  BY <1>3, FoundIsRegular
<1>6. Large(node) \subseteq Verdict(node)
  BY <1>1, <1>3, FoundAtOnce
<1>7. \A f \in Verdict(node) : CheckOf(f) = "balance" => f \in Large(node)
  BY <1>1, <1>3, VerdictByCheck
<1> HIDE DEF found
<1>8. \A f \in Lasting : CheckOf(f) = "balance" => f \in found
  BY <1>2, <1>4, <1>7 DEF Lasting
<1>9. \A f \in found : f.id \in Torn \/ \E n \in seen : f \in Verdict(n)
  BY <1>2, <1>4, <1>6 DEF Torn
<1>10. check \in 1..9 /\ liveChecks[check] = "balance"
  <2>1. check = 5
    BY <1>1
  <2>2. check \in 1..9
    BY <2>1
  <2>3. liveChecks[check] = "balance"
    BY <2>1, NamesOfChecks
  <2> QED BY <2>2, <2>3
<1> QED BY <1>1, <1>5, <1>8, <1>9, <1>10, AddKeepsReport

\* The channels above their limit are those of the list, the wallet is that of now.
LEMMA LimitsKeepReport ==
  ASSUME LiveInv, ReportInv, AskLimits
  PROVE  ReportInv'
<1> DEFINE found == CheckExposureLimits(limits, listed, wallet)
           caps == UNION {Above(limits.maxChannelCap, terms[c].capacity, "L-12", c) : c \in listed.open}
           whole == Above(limits.maxNodeExposure, totalExposure(listed, wallet), "L-13", 0)
<1>1. LiveTypeOK /\ check = 9 /\ (NeedsChannels(limits) => listed.answered) /\ Add(found)
  BY CheckIndex DEF LiveInv, LiveTypeOK, AskLimits
<1>2. NodeNow \in seen /\ IsNode(NodeNow) /\ NodeNow.wallet = wallet
  BY DEF ReportInv, StatesAreSeen, NodeNow
<1>3. PICK node \in seen : IsNode(node) /\ caps = Caps(node)
  <2>1. CASE listed.answered
    <3>1. PICK node \in seen : node.open = listed.open
      BY <2>1 DEF ReportInv, StatesAreSeen
    <3>2. caps = Caps(node) /\ IsNode(node)
      BY <3>1 DEF Caps, ReportInv, StatesAreSeen
    <3> QED BY <3>2
  <2>2. CASE ~listed.answered
    <3>1. ~(limits.maxChannelCap > 0)
      BY <1>1, <2>2 DEF NeedsChannels
    <3>2. caps = {} /\ Caps(NodeNow) = {}
      BY <3>1 DEF Caps, Above
    <3> QED BY <1>2, <3>2
  <2> QED BY <2>1, <2>2
<1>4. found = Hot(NodeNow) \cup caps \cup whole
  BY <1>2 DEF CheckExposureLimits, Hot
<1>5. \A f \in whole : f.id = "L-13"
  BY AboveReports
<1>6. Regular(found, "exposure-limits")
  BY <1>1, FoundIsRegular DEF LiveTypeOK
<1>7. Hot(NodeNow) \subseteq Verdict(NodeNow) /\ Caps(node) \subseteq Verdict(node)
  BY <1>1, <1>2, <1>3, FoundAtOnce
<1> HIDE DEF found, caps, whole
<1>8. ASSUME NEW f \in Lasting, CheckOf(f) = "exposure-limits" PROVE f \in found
  <2>1. f \in Hot(NodeNow) \/ f \in Caps(NodeNow)
    BY <1>1, <1>2, <1>8, VerdictByCheck DEF Lasting
  <2>2. f \in Hot(node) \/ f \in Caps(node)
    BY <1>1, <1>3, <1>8, VerdictByCheck DEF Lasting
  <2>3. (\A g \in Hot(node) : g.id = "L-11") /\ (\A g \in Hot(NodeNow) : g.id = "L-11")
    BY AboveReports DEF Hot
  <2>4. \A g \in Caps(NodeNow) : g.id = "L-12"
    BY AboveReports DEF Caps
  <2> QED BY <1>3, <1>4, <2>1, <2>2, <2>3, <2>4
<1>9. \A f \in found : f.id \in Torn \/ \E n \in seen : f \in Verdict(n)
  BY <1>2, <1>3, <1>4, <1>5, <1>7 DEF Torn
<1>10. check \in 1..9 /\ liveChecks[check] = "exposure-limits"
  <2>1. check = 9
    BY <1>1
  <2>2. check \in 1..9
    BY <2>1
  <2>3. liveChecks[check] = "exposure-limits"
    BY <2>1, NamesOfChecks
  <2> QED BY <2>2, <2>3
<1> QED BY <1>1, <1>6, <1>8, <1>9, <1>10, AddKeepsReport

\* Every step keeps the report true of the node.
LEMMA StepKeepsReport ==
  ASSUME LiveInv, LiveInv', ReportInv, [LiveNext]_liveVars
  PROVE  ReportInv'
<1>1. CASE AskInfo \/ AskPending \/ AskChannels
  BY <1>1, OneCallKeepsReport
<1>2. CASE ListForBalance \/ ListForLimits
  BY <1>2, ListKeepsReport DEF ListForBalance, ListForLimits
<1>3. CASE AskBalance
  BY <1>3, BalanceKeepsReport
<1>4. CASE AskLimits
  BY <1>4, LimitsKeepReport
<1>5. CASE CallFails
  BY <1>5, FailureKeepsReport
<1>6. CASE NodeStep
  BY <1>6, MoveKeepsReport
<1>7. CASE UNCHANGED liveVars
  <2>1. /\ limits' = limits /\ check' = check /\ listed' = listed /\ seen' = seen
        /\ findings' = findings /\ failed' = failed /\ NodeNow' = NodeNow
    BY <1>7 DEF liveVars, scanVars, history, nodeVars, NodeNow
  <2>2. \A node : Verdict(node)' = Verdict(node)
    BY <2>1, VerdictStays
  <2>3. Lasting' = Lasting
    BY <2>1, <2>2 DEF Lasting
  <2>4. FindingsWereTrueOnce' /\ LastingIsReported'
    BY <2>1, <2>2, <2>3 DEF ReportInv, FindingsWereTrueOnce, LastingIsReported, Over
  <2> QED BY <2>1, <2>4 DEF ReportInv, StatesAreSeen, ReportedOnce, Over
<1> QED BY <1>1, <1>2, <1>3, <1>4, <1>5, <1>6, <1>7 DEF LiveNext, LiveStep

\* Initially the node is seen and nothing said of it.
LEMMA InitReport == LiveInit => ReportInv
<1> SUFFICES ASSUME LiveInit PROVE ReportInv
  OBVIOUS
<1>1. LiveTypeOK
  BY InitTypeOK
<1>2. StatesAreSeen
  BY <1>1 DEF LiveInit, StatesAreSeen, NotListed, IsNode, NodeNow, LiveTypeOK, NodeTypeOK
<1>3. ~\E i \in 1..(check - 1) : TRUE
  BY DEF LiveInit
<1>4. LastingIsReported
  BY <1>3 DEF LastingIsReported, Over
<1>5. FindingsWereTrueOnce /\ ReportedOnce
  BY DEF LiveInit, FindingsWereTrueOnce, ReportedOnce
<1> QED BY <1>2, <1>4, <1>5 DEF ReportInv

\* The report is true of the node in every run of the scan (cmd/scan.go:290-301).
LEMMA ReportInvariance == LiveSpec => []ReportInv
<1>1. LiveInv /\ LiveInv' /\ ReportInv /\ [LiveNext]_liveVars => ReportInv'
  BY StepKeepsReport
<1> QED BY <1>1, InitReport, LiveInvariance, PTL DEF LiveSpec

\* Whatever happens to the node between the calls of a scan, a finding was true
\* of it at some moment, but for the two that add up two answers.  (live.go,
\* live_extended.go, exposure_limits.go)
THEOREM FindingsSound == LiveSpec => []FindingsWereTrueOnce
<1>1. ReportInv => FindingsWereTrueOnce
  BY DEF ReportInv
<1> QED BY <1>1, ReportInvariance, PTL

\* What is true of the node all through a scan is in the report, or its check has
\* ended in a warning.  (cmd/scan.go:258-301)
THEOREM LastingConditionsFound == LiveSpec => []LastingConditionsAreReported
<1>1. LiveInv /\ ReportInv => LastingConditionsAreReported
  <2> SUFFICES ASSUME LiveInv, ReportInv, At("done"),
                      NEW f \in UNION {Verdict(node) : node \in seen},
                      \A node \in seen : f \in Verdict(node)
               PROVE  f \in findings \/ CheckOf(f) \in failed
    BY DEF LastingConditionsAreReported
  <2>1. LiveTypeOK /\ check = 10
    BY CheckIndex DEF LiveInv, LiveTypeOK
  <2>2. f \in Lasting
    BY DEF Lasting
  <2>3. CheckOf(f) \in {"version/CVE", "chain sync", "peer count", "force-close", "balance",
                        "jamming", "zero-conf", "htlc-limits", "exposure-limits"}
    BY DEF CheckOf
  <2>4. \A i \in {1, 2, 3, 4, 5, 6, 7, 8, 9} : i \in 1..(check - 1)
    BY <2>1
  <2>5. Over(CheckOf(f))
    BY <2>3, <2>4, NamesOfChecks DEF Over
  <2> QED BY <2>2, <2>5 DEF ReportInv, LastingIsReported
<1> QED BY <1>1, LiveInvariance, ReportInvariance, PTL

\* A tool that tells findings apart by their fingerprints sees each finding of the
\* live checks of a scan.
\* (sarif.go:203-224)
THEOREM AlertsDistinct == LiveSpec => []AlertsAreDistinct
<1>1. ReportInv => AlertsAreDistinct
  <2> SUFFICES ASSUME ReportInv, NEW f \in findings, NEW g \in findings,
                      sarifStableFingerprint(f) = sarifStableFingerprint(g)
               PROVE  f = g
    BY DEF AlertsAreDistinct
  <2>1. f.id = g.id /\ sarifInstanceKey(f) = sarifInstanceKey(g)
    BY DEF sarifStableFingerprint
  <2>2. f.channel = g.channel
    <3>1. \A c : <<c>> # <<>> /\ \A d : <<c>> = <<d>> => c = d
      OBVIOUS
    <3> QED BY <2>1, <3>1 DEF sarifInstanceKey
  <2> QED BY <2>1, <2>2 DEF ReportInv, ReportedOnce
<1> QED BY <1>1, ReportInvariance, PTL

\* The check that counts HTLCs is never over without a finding where more than 50
\* are pending, or it has ended in a warning.  (live_extended.go:25-61)
THEOREM PressureReported == LiveSpec => PressureIsReported
<1> DEFINE Reported ==
      At("jamming") /\ check' # check /\ PendingHtlcs(NodeNow) > 50 =>
        "jamming" \in failed' \/ \E f \in findings' : f.id \in {"L-7", "L-8"}
<1>1. ASSUME LiveInv, [LiveNext]_liveVars PROVE Reported
  <2> SUFFICES ASSUME At("jamming"), check' # check, PendingHtlcs(NodeNow) > 50
               PROVE  "jamming" \in failed' \/ \E f \in findings' : f.id \in {"L-7", "L-8"}
    OBVIOUS
  <2>1. check = 6
    BY <1>1, CheckIndex DEF LiveInv, LiveTypeOK
  <2>2. AskChannels \/ CallFails
    BY <1>1, <2>1, NamesOfChecks
       DEF LiveNext, LiveStep, AskInfo, AskPending, ListForBalance, AskBalance, ListForLimits, AskLimits,
           NodeStep, scanVars, liveVars, At
  <2>3. CASE CallFails
    BY <2>1, <2>3, NamesOfChecks DEF CallFails
  <2>4. CASE AskChannels
    <3>1. Add(CheckChannelJamming(ChannelList))
      BY <2>1, <2>4, NamesOfChecks DEF AskChannels, At
    <3>2. IsFiniteSet(open)
      BY <1>1, NodeAssumption, FS_Subset DEF LiveInv, LiveTypeOK, NodeTypeOK
    <3>3. PendingHtlcs(NodeNow) = SumFunctionOnSet(htlcs, open)
      BY <3>2, SumOfRestriction DEF PendingHtlcs, NodeNow
    <3>4. \E f \in CheckChannelJamming(ChannelList) : f.id \in {"L-7", "L-8"}
      <4> DEFINE jammed == {c \in open : htlcs[c] >= 20}
      <4>1. CheckChannelJamming(ChannelList) = {OfChannel("L-7", "High", c) : c \in jammed}
              \cup {f \in {Live("L-8", "Medium")} : SumFunctionOnSet(htlcs, open) > 50 /\ jammed = {}}
        BY DEF CheckChannelJamming, ChannelList
      <4>2. CASE jammed = {}
        <5>1. Live("L-8", "Medium") \in CheckChannelJamming(ChannelList)
          BY <3>3, <4>1, <4>2
        <5> QED BY <5>1 DEF Live, OfChannel
      <4>3. CASE jammed # {}
        <5>1. PICK c \in jammed : OfChannel("L-7", "High", c) \in CheckChannelJamming(ChannelList)
          BY <4>1, <4>3
        <5> QED BY <5>1 DEF OfChannel
      <4> QED BY <4>2, <4>3
    <3> QED BY <3>1, <3>4 DEF Add
  <2> QED BY <2>2, <2>3, <2>4
<1>2. LiveInv /\ [LiveNext]_liveVars => [Reported]_liveVars
  BY <1>1
<1> QED BY <1>2, LiveInvariance, PTL DEF LiveSpec, PressureIsReported
=============================================================================
