---------------------------- MODULE SarifReport ----------------------------
(***************************************************************************)
(* What makes two results of a SARIF report the same alert to the tool     *)
(* that reads it (pkg/report/sarif.go).                                    *)
(***************************************************************************)

\* The number behind the word "channel" in the title, if there is one.
sarifInstanceKey(f) == IF f.channel = 0 THEN <<>> ELSE <<f.channel>>

\* Mutant: only what the finding is about as such.
sarifFingerprintOfRule(f) == <<f.id, f.module>>

sarifStableFingerprint(f) == <<f.id, f.module, sarifInstanceKey(f)>>
=============================================================================
