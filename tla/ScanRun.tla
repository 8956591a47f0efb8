------------------------------ MODULE ScanRun ------------------------------
(***************************************************************************)
(* executeScanWithOptions (cmd/scan.go): the phases of one scan, what they *)
(* add to the report, and the failures that end the scan, end the live     *)
(* part of it, or cost one check.                                          *)
(*                                                                         *)
(* What a check looks at is not modelled here: it returns some findings,   *)
(* or, when it asks the node, an error.                                    *)
(***************************************************************************)
EXTENDS Integers, Sequences, Scanner

CONSTANTS
  FlagInputs,       \* The flags of the command, and whether an lnd.conf is found.
  Noisy,            \* The phases that may find something in this instance.
  NoisySeverities,  \* The severities of what they find.
  Flaky             \* The live checks that may fail in this instance.

Flags == [connect     : BOOLEAN,    \* --connect is given.
          limits      : BOOLEAN,    \* One of the exposure limits is given.
          config      : BOOLEAN,    \* Detect has found a config file.
          interactive : BOOLEAN,    \* isInteractive
          verbose     : BOOLEAN,
          minSeverity : Severity,
          failOn      : Severity]

ConfigPhases ==
  <<"file permissions", "transport security", "access controls", "network privacy",
    "channel safety", "network exposure", "channel policy", "protocol security">>

LiveChecks(limits) ==
  <<"version/CVE", "chain sync", "peer count", "force-close", "balance", "jamming",
    "zero-conf", "htlc-limits">> \o (IF limits THEN <<"exposure-limits">> ELSE <<>>)

ASSUME ScanAssumption ==
  /\ FlagInputs \subseteq Flags
  /\ NoisySeverities \subseteq Severity
  /\ Flaky \subseteq ToSet(LiveChecks(TRUE))
  /\ Noisy \subseteq ToSet(ConfigPhases \o LiveChecks(TRUE)) \cup {"open ports"}

VARIABLES
  flags,            \* The flags.
  stage,            \* Where executeScanWithOptions is.
  next,             \* The phase or check it has come to, within its stage.
  report,           \* r.Findings
  warnings,         \* What failed, in the order of the warnings.
  outcome,          \* What it has returned, if it has.
  returned          \* History: what each check returned, in order.

scanVars == <<flags, stage, next, report, warnings, outcome, returned>>

Stages == {"detect", "parse", "config", "ports", "connect", "live", "returned"}

Outcomes == {"none", "ok", "error"}

ScanInit ==
  /\ flags \in FlagInputs
  /\ stage = "detect"
  /\ next = 1
  /\ report = <<>>
  /\ warnings = <<>>
  /\ outcome = "none"
  /\ returned = <<>>

-----------------------------------------------------------------------------
(* Steps *)

Enter(s) == stage' = s /\ next' = 1 /\ UNCHANGED outcome

Return(o) == stage' = "returned" /\ outcome' = o /\ UNCHANGED next

\* Goes on to the next of the phases, or does the rest.
Advance(phases, rest) ==
  IF next < Len(phases) THEN next' = next + 1 /\ UNCHANGED <<stage, outcome>>
                        ELSE rest

\* A check returns its findings, which are added to the report in order.
Finds(check) ==
  \E found \in {<<>>} \cup {<<[check |-> check, severity |-> s]>> :
                             s \in IF check \in Noisy THEN NoisySeverities ELSE {}} :
    /\ report' = report \o found
    /\ returned' = Append(returned, [check |-> check, failed |-> FALSE, found |-> found])

\* Mutant: a check that fails is passed over in silence.
FailsSilently(check) ==
  /\ returned' = Append(returned, [check |-> check, failed |-> TRUE, found |-> <<>>])
  /\ UNCHANGED <<report, warnings>>

\* A check returns an error: a warning, and nothing in the report.
Fails(check) ==
  /\ warnings' = Append(warnings, check)
  /\ returned' = Append(returned, [check |-> check, failed |-> TRUE, found |-> <<>>])
  /\ UNCHANGED report

\* lndpath.Detect returns no error; without a config file only a live scan
\* makes sense.
DetectPaths ==
  /\ stage = "detect"
  /\ \/ flags.config /\ Enter("parse")
     \/ ~flags.config /\ flags.connect /\ Enter("ports")
     \/ ~flags.config /\ ~flags.connect /\ Return("error")
  /\ UNCHANGED <<flags, report, warnings, returned>>

ParseConfig ==
  /\ stage = "parse"
  /\ Enter("config") \/ Return("error")
  /\ UNCHANGED <<flags, report, warnings, returned>>

CheckConfig ==
  /\ stage = "config"
  /\ Finds(ConfigPhases[next])
  /\ Advance(ConfigPhases, Enter("ports"))
  /\ UNCHANGED <<flags, warnings>>

CheckOpenPorts ==
  /\ stage = "ports"
  /\ Finds("open ports")
  /\ IF flags.connect THEN Enter("connect") ELSE Return("ok")
  /\ UNCHANGED <<flags, warnings>>

\* Connect reads the certificate and the macaroon; it does not wait for the node.
Connect ==
  /\ stage = "connect"
  /\ \/ Enter("live") /\ UNCHANGED <<report, warnings, returned>>
     \/ Return("ok") /\ Fails("connect")
  /\ UNCHANGED flags

CheckLive ==
  LET checks == LiveChecks(flags.limits)
  IN  /\ stage = "live"
      /\ \/ Finds(checks[next]) /\ UNCHANGED warnings
         \/ checks[next] \in Flaky /\ Fails(checks[next])
      /\ Advance(checks, Return("ok"))
      /\ UNCHANGED flags

ScanStep == \/ DetectPaths \/ ParseConfig \/ CheckConfig
            \/ CheckOpenPorts \/ Connect \/ CheckLive

-----------------------------------------------------------------------------
(* Properties of the scan *)

ScanTypeOK ==
  /\ flags \in Flags
  /\ stage \in Stages
  /\ next \in 1..9
  /\ \A i \in DOMAIN report : report[i].severity \in Severity
  /\ outcome \in Outcomes

\* The checks a scan that returns a report has to run, in order.
Applicable ==
  (IF flags.config THEN ConfigPhases ELSE <<>>)
    \o <<"open ports">>
    \o (IF ~flags.connect THEN <<>>
        ELSE IF "connect" \in ToSet(warnings) THEN <<"connect">>
        ELSE LiveChecks(flags.limits))

\* What the checks have found, and those that have failed, in their order.
Found == FlattenSeq([i \in DOMAIN returned |-> returned[i].found])

Failed == FlattenSeq([i \in DOMAIN returned |->
                        IF returned[i].failed THEN <<returned[i].check>> ELSE <<>>])

\* Every check of a scan that returns a report has run once, and every one has
\* left its mark: its findings, all of them and in order, or a warning that
\* names it.  A check that fails costs neither the findings of the others nor
\* their turn, a node that cannot be asked costs only the live checks, and no
\* failure is silent.  (cmd/scan.go:246-303)
NothingIsSilent ==
  outcome = "ok" =>
    /\ [i \in DOMAIN returned |-> returned[i].check] = Applicable
    /\ report = Found
    /\ warnings = Failed
=============================================================================
