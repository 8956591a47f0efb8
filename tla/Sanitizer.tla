----------------------------- MODULE Sanitizer -----------------------------
(***************************************************************************)
(* truncate and sanitizeRunes (pkg/grpc/connect.go:99-158): what of a      *)
(* string the node answers with reaches the terminal.  The function walks  *)
(* the runes with an index that its inner loops move too.                  *)
(*                                                                         *)
(* A rune stands for the runes the function treats alike: "a" for what may *)
(* end a CSI sequence, "0" for the other printable ones and the white      *)
(* space that is kept, "ctl" for the control characters without a meaning. *)
(* Behind ESC the classes leave out what starts a longer sequence than two *)
(* runes that is neither CSI nor OSC: a string of another kind (ESC P, X,  *)
(* ^, _) and an intermediate rune (ESC ( B).  The function keeps the rest  *)
(* of these as text.                                                       *)
(***************************************************************************)
EXTENDS Integers, Sequences

CONSTANTS
  TextInputs,       \* The strings the node may answer with.
  maxStringLen

Runes == {"a", "0", "[", "]", "\\", "ESC", "BEL", "ST", "ctl"}

Printable == {"a", "0", "[", "]", "\\"}

\* 0x40 to 0x7e
Final == {"a", "[", "]", "\\"}

ASSUME TextAssumption == TextInputs \subseteq Seq(Runes) /\ maxStringLen \in Nat

VARIABLES
  runes,            \* The string.
  index,            \* The index of the rune to be read next.
  loop,             \* The loop that reads it.
  out               \* What is kept; in the end, what truncate returns.

textVars == <<runes, index, loop, out>>

TextInit ==
  /\ runes \in TextInputs
  /\ index = 1
  /\ loop = "outer"
  /\ out = <<>>

More == index <= Len(runes)

NextIs(rune) == index < Len(runes) /\ runes[index + 1] = rune

\* An escape character with a successor takes it along: it starts a CSI or an
\* OSC sequence, or is all there is of the sequence.
SkipEscape ==
  /\ loop = "outer" /\ index < Len(runes) /\ runes[index] = "ESC"
  /\ index' = index + 2
  /\ loop' = IF NextIs("[") THEN "CSI" ELSE IF NextIs("]") THEN "OSC" ELSE "outer"
  /\ UNCHANGED <<runes, out>>

\* The last rune of the string may be a lone escape character.
KeepPrintable ==
  /\ loop = "outer" /\ More /\ ~(index < Len(runes) /\ runes[index] = "ESC")
  /\ index' = index + 1
  /\ out' = IF runes[index] \in Printable THEN Append(out, runes[index]) ELSE out
  /\ UNCHANGED <<runes, loop>>

SkipCSI ==
  /\ loop = "CSI" /\ More
  /\ index' = index + 1
  /\ loop' = IF runes[index] \in Final THEN "outer" ELSE "CSI"
  /\ UNCHANGED <<runes, out>>

\* Mutant: the backslash of the two-rune terminator is left behind.
SkipOSCButBackslash ==
  /\ loop = "OSC" /\ More
  /\ index' = index + 1
  /\ loop' = IF runes[index] \in {"BEL", "ST"} \/ (runes[index] = "ESC" /\ NextIs("\\")) THEN "outer" ELSE "OSC"
  /\ UNCHANGED <<runes, out>>

SkipOSC ==
  /\ loop = "OSC" /\ More
  /\ IF runes[index] = "ESC" /\ NextIs("\\")
       THEN index' = index + 2 /\ loop' = "outer"
       ELSE index' = index + 1 /\ loop' = IF runes[index] \in {"BEL", "ST"} THEN "outer" ELSE "OSC"
  /\ UNCHANGED <<runes, out>>

Marker == "...(truncated)"

truncate ==
  /\ loop # "returned" /\ ~More
  /\ out' = IF Len(out) > maxStringLen THEN Append(SubSeq(out, 1, maxStringLen), Marker) ELSE out
  /\ loop' = "returned"
  /\ UNCHANGED <<runes, index>>

TextNext == SkipEscape \/ KeepPrintable \/ SkipCSI \/ SkipOSC \/ truncate

TextSpec == TextInit /\ [][TextNext]_textVars

-----------------------------------------------------------------------------
(* Properties *)

\* A terminal reads one rune at a time and never looks ahead.  An escape character
\* starts a sequence wherever it stands, ST ends every one, and other control
\* characters take their effect without ending any.
Terminal(state, rune) ==
  LET go(mode) == [state EXCEPT !.mode = mode]
  IN  CASE rune = "ESC"                                              -> go("escape")
        [] rune = "ST"                                               -> go("text")
        [] state.mode = "text" /\ rune \in Printable                 -> [state EXCEPT !.shown = Append(@, rune)]
        [] state.mode = "escape" /\ rune = "["                       -> go("CSI")
        [] state.mode = "escape" /\ rune = "]"                       -> go("OSC")
        [] state.mode = "escape" /\ rune \in Printable \ {"[", "]"}  -> go("text")
        [] state.mode = "CSI" /\ rune \in Final                      -> go("text")
        [] state.mode = "OSC" /\ rune = "BEL"                        -> go("text")
        [] OTHER                                                     -> state

\* The state of a terminal after each of the runes.
Reading(text) ==
  LET state[i \in 0..Len(text)] == IF i = 0 THEN [mode |-> "text", shown |-> <<>>]
                                   ELSE Terminal(state[i - 1], text[i])
  IN  state

Shown(text) == Reading(text)[Len(text)].shown

\* A sequence of the string is broken off: by the start of another one, by ST in
\* a CSI sequence, or by a control character right behind the escape character.
\* The function reads on where a terminal does not.
BrokenOff(text) ==
  LET reading == Reading(text)
  IN  \E i \in 1..Len(text) :
        \/ reading[i - 1].mode = "escape" /\ text[i] \in {"ESC", "BEL", "ctl"}
        \/ reading[i - 1].mode = "CSI" /\ text[i] \in {"ESC", "ST"}
        \/ reading[i - 1].mode = "OSC" /\ text[i] = "ESC" /\ i < Len(text) /\ text[i + 1] # "\\"

\* What is kept of a string is what a terminal that obeys the sequences would
\* show of it as text, although the function looks ahead and moves its index in
\* three loops, if every sequence is carried through to its end or to that of the
\* string: none then loses text that follows it or leaves a part of itself
\* behind.  What is cut off at the limit is marked.  (connect.go:99-158)
TextIsWhatATerminalShows ==
  loop = "returned" /\ ~BrokenOff(runes) =>
    LET shown == Shown(runes)
    IN  out = IF Len(shown) <= maxStringLen THEN shown
              ELSE Append(SubSeq(shown, 1, maxStringLen), Marker)
=============================================================================
