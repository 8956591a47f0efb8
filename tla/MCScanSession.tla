--------------------------- MODULE MCScanSession ---------------------------
(***************************************************************************)
(* ScanSession with a few noisy phases and flaky live checks: the first,   *)
(* one in the middle and the last of each loop.                            *)
(***************************************************************************)
EXTENDS ScanSession

MCNoisy == {"file permissions", "open ports", "version/CVE", "exposure-limits"}

MCFlaky == {"version/CVE", "balance", "exposure-limits"}

MCFlagInputs ==
  {f \in [connect : BOOLEAN, limits : BOOLEAN, config : BOOLEAN, interactive : BOOLEAN,
          verbose : BOOLEAN, minSeverity : {"Info", "High"}, failOn : {"Medium", "Critical"}] :
     f.limits => f.connect}

\* A terminal and a whole scan.
MCInteractive == {f \in MCFlagInputs : f.interactive /\ f.config /\ f.connect /\ f.limits /\ ~f.verbose
                                         /\ f.minSeverity = "Info" /\ f.failOn = "Medium"}
=============================================================================
