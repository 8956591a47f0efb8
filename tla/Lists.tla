-------------------------------- MODULE Lists --------------------------------
(***************************************************************************)
(* What a loop that appends some members of a list to another makes, and   *)
(* what a sort does.                                                       *)
(***************************************************************************)
EXTENDS Integers, Sequences, SequencesExt, FiniteSets

\* The members of s that are in S, in the order of s.
Within(s, S) == FlattenSeq([i \in DOMAIN s |-> IF s[i] \in S THEN <<s[i]>> ELSE <<>>])

\* The members of S, each behind those that are before it.
Sorted(S, before(_, _)) ==
  [k \in 1..Cardinality(S) |-> CHOOSE x \in S : Cardinality({y \in S : before(y, x)}) = k - 1]
=============================================================================
