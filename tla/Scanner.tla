------------------------------ MODULE Scanner ------------------------------
(***************************************************************************)
(* Severities, scores, ratings, filters and the exit gate: what            *)
(* pkg/scanner/scanner.go defines and every command that reports findings  *)
(* uses.  A finding is a record with a severity field.                     *)
(***************************************************************************)
EXTENDS Lists, Functions

Severity == {"Info", "Low", "Medium", "High", "Critical"}

\* The iota of the Go constants: severities are compared by it.
Rank == [Info |-> 0, Low |-> 1, Medium |-> 2, High |-> 3, Critical |-> 4]

Points == [Info |-> 0, Low |-> 2, Medium |-> 5, High |-> 10, Critical |-> 15]

AtOrAbove(severity, threshold) == Rank[severity] >= Rank[threshold]

\* Every finding deducts its points; the score stops at 0.
Score(findings) ==
  LET score == 100 - SumFunction([i \in DOMAIN findings |-> Points[findings[i].severity]])
  IN  IF score < 0 THEN 0 ELSE score

Rating(score) ==
  CASE score >= 90                -> "hardened"
    [] score >= 70 /\ score < 90  -> "acceptable"
    [] score >= 40 /\ score < 70  -> "needs_hardening"
    [] score < 40                 -> "critical_risk"

HasFindingsAtOrAbove(findings, threshold) ==
  \E i \in DOMAIN findings : AtOrAbove(findings[i].severity, threshold)

\* filterReport and filterJammingFindings: what is displayed.
AtLeast(findings, minSeverity) ==
  Within(findings, {f \in ToSet(findings) : AtOrAbove(f.severity, minSeverity)})
=============================================================================
