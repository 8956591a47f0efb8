---------------------------- MODULE ScanSession ----------------------------
(***************************************************************************)
(* One "lnaudit scan" (cmd/scan.go, cmd/spinner.go): without a terminal    *)
(* the scan runs in the main goroutine; with one it runs in a goroutine of *)
(* its own while the Bubble Tea loop handles messages and keys.  The user  *)
(* may press ctrl+c at any moment.                                         *)
(*                                                                         *)
(* Of Bubble Tea (v1.3.10) the model uses what the code relies on: a       *)
(* sender blocks until the loop takes its message or has ended, commands   *)
(* run concurrently and send what they return, tea.Quit is such a command, *)
(* and Run returns the model as the last Update left it.                   *)
(***************************************************************************)
EXTENDS ScanRun

VARIABLES
  main,             \* Where the main goroutine is.
  ui,               \* The fields of the scanModel the program holds.
  sending,          \* The messages whose senders wait for the loop.
  pressed,          \* Whether the user has pressed ctrl+c.
  displayed,        \* The findings the writer of the output is given, if it is called.
  message,          \* The error the command returned, if it did.
  exit              \* The exit code, once there is one.

sessionVars == <<main, ui, sending, pressed, displayed, message, exit>>

vars == <<scanVars, sessionVars>>

MainStages == {"start", "scanning", "running", "result", "exited"}

Messages == {"phase", "scanDone", "quit", "ctrl+c"}

\* newScanModel.  runInteractiveScan sets programRef after tea.NewProgram has
\* taken its copy of the model, so the copy the program runs has none.
newScanModel == [phases |-> <<>>, result |-> "none", quitting |-> FALSE, programRef |-> FALSE]

Init ==
  /\ ScanInit
  /\ main = "start"
  /\ ui = newScanModel
  /\ sending = {}
  /\ pressed = FALSE
  /\ displayed = <<>>
  /\ message = "none"
  /\ exit = -1

-----------------------------------------------------------------------------
(* The scan, in the main goroutine or in that of startScan *)

\* runScan: runNonInteractiveScan, or runInteractiveScan up to p.Run.
runScan ==
  /\ main = "start"
  /\ main' = IF flags.interactive THEN "running" ELSE "scanning"
  /\ UNCHANGED <<scanVars, ui, sending, pressed, displayed, message, exit>>

\* sendPhase: nothing without a program; else the sender waits for the loop.
sendPhase ==
  IF flags.interactive /\ ui.programRef
    THEN "phase" \notin sending /\ sending' = sending \cup {"phase"}
    ELSE UNCHANGED sending

\* After the loop has ended the scan may go on until the process exits, but
\* nobody looks at it any more.
executeScan ==
  /\ main \in {"scanning", "running"}
  /\ ScanStep
  /\ sendPhase
  /\ UNCHANGED <<main, ui, pressed, displayed, message, exit>>

\* Mutant: a scan that fails does not report to the loop.
startScanOfSuccess ==
  /\ main = "running"
  /\ outcome = "ok"
  /\ ui.result = "none" /\ sending \cap {"phase", "scanDone"} = {}
  /\ sending' = sending \cup {"scanDone"}
  /\ UNCHANGED <<scanVars, main, ui, pressed, displayed, message, exit>>

\* The command of startScan returns its scanDoneMsg, once.
startScan ==
  /\ main = "running"
  /\ outcome # "none"
  /\ ui.result = "none" /\ sending \cap {"phase", "scanDone"} = {}
  /\ sending' = sending \cup {"scanDone"}
  /\ UNCHANGED <<scanVars, main, ui, pressed, displayed, message, exit>>

-----------------------------------------------------------------------------
(* The loop *)

\* Mutant: ctrl+c waits for the scan.
UpdateWaiting(msg) ==
  /\ ui' = CASE msg = "ctrl+c"   -> [ui EXCEPT !.quitting = TRUE]
             [] msg = "phase"    -> [ui EXCEPT !.phases = Append(ui.phases, stage)]
             [] msg = "scanDone" -> [ui EXCEPT !.result = outcome, !.quitting = TRUE]
  /\ sending' = (sending \ {msg}) \cup (IF msg = "scanDone" THEN {"quit"} ELSE {})

\* scanModel.Update; tea.Quit is a command that sends the quit message.
Update(msg) ==
  /\ ui' = CASE msg = "ctrl+c"   -> [ui EXCEPT !.quitting = TRUE]
             [] msg = "phase"    -> [ui EXCEPT !.phases = Append(ui.phases, stage)]
             [] msg = "scanDone" -> [ui EXCEPT !.result = outcome, !.quitting = TRUE]
  /\ sending' = (sending \ {msg}) \cup (IF msg = "phase" THEN {} ELSE {"quit"})

\* A key is handled like any other message, once: a second ctrl+c changes
\* nothing more.
PressCtrlC ==
  /\ main = "running"
  /\ ~pressed
  /\ pressed' = TRUE
  /\ sending' = sending \cup {"ctrl+c"}
  /\ UNCHANGED <<scanVars, main, ui, displayed, message, exit>>

HandleMessage ==
  /\ main = "running"
  /\ \E msg \in sending \ {"quit"} : Update(msg)
  /\ UNCHANGED <<scanVars, main, pressed, displayed, message, exit>>

\* The loop ends at the quit message, and Run returns.
HandleQuit ==
  /\ main = "running"
  /\ "quit" \in sending
  /\ main' = "result"
  /\ UNCHANGED <<scanVars, ui, sending, pressed, displayed, message, exit>>

\* Run returns an error, because it has no terminal to read from or a signal
\* interrupts it: "UI error", and Execute exits with 1.
RunFails ==
  /\ main = "running"
  /\ message' = "UI error"
  /\ exit' = 1
  /\ main' = "exited"
  /\ UNCHANGED <<scanVars, ui, sending, pressed, displayed>>

ScanReturns ==
  /\ main = "scanning"
  /\ outcome # "none"
  /\ main' = "result"
  /\ UNCHANGED <<scanVars, ui, sending, pressed, displayed, message, exit>>

-----------------------------------------------------------------------------
(* What the user gets *)

\* The outcome as the main goroutine knows it.
Result == IF flags.interactive THEN ui.result ELSE outcome

\* Mutant: the flag for the severities overrides the one for INFO findings.
DisplayOfMinSeverity == AtLeast(report, flags.minSeverity)

\* renderReport's two filters.
Display ==
  LET shown == AtLeast(report, IF flags.verbose THEN "Info" ELSE "Low")
  IN  IF Rank[flags.minSeverity] > Rank["Info"] THEN AtLeast(shown, flags.minSeverity) ELSE shown

\* Mutant: the gate looks at what is displayed.
renderReportOfDisplay ==
  /\ main = "result"
  /\ Result = "ok"
  /\ displayed' = Display
  /\ exit' = IF HasFindingsAtOrAbove(Display, flags.failOn) THEN 1 ELSE 0
  /\ main' = "exited"
  /\ UNCHANGED <<scanVars, ui, sending, pressed, message>>

renderReport ==
  /\ main = "result"
  /\ Result = "ok"
  /\ displayed' = Display
  /\ exit' = IF HasFindingsAtOrAbove(report, flags.failOn) THEN 1 ELSE 0
  /\ main' = "exited"
  /\ UNCHANGED <<scanVars, ui, sending, pressed, message>>

\* Mutant: an exit code of its own for errors.
failWithTwo ==
  /\ main = "result"
  /\ Result # "ok"
  /\ message' = IF Result = "none" THEN "scan interrupted" ELSE "scan error"
  /\ exit' = 2
  /\ main' = "exited"
  /\ UNCHANGED <<scanVars, ui, sending, pressed, displayed>>

\* "scan interrupted", or the error of the scan: Execute exits with 1.
fail ==
  /\ main = "result"
  /\ Result # "ok"
  /\ message' = IF Result = "none" THEN "scan interrupted" ELSE "scan error"
  /\ exit' = 1
  /\ main' = "exited"
  /\ UNCHANGED <<scanVars, ui, sending, pressed, displayed>>

Interface == HandleMessage \/ HandleQuit

Main == runScan \/ ScanReturns \/ renderReport \/ fail

Next == executeScan \/ startScan \/ PressCtrlC \/ RunFails \/ Interface \/ Main

\* The loop and the main goroutine go on.  The user need not do anything, Run
\* need not fail, and a scan may take as long as it likes.
Spec == Init /\ [][Next]_vars /\ WF_vars(Interface) /\ WF_vars(Main)

-----------------------------------------------------------------------------
(* Properties *)

TypeOK ==
  /\ ScanTypeOK
  /\ main \in MainStages
  /\ ui.result \in Outcomes /\ ui.quitting \in BOOLEAN
  /\ sending \subseteq Messages
  /\ pressed \in BOOLEAN
  /\ message \in {"none", "scan interrupted", "scan error", "UI error"}
  /\ exit \in {-1, 0, 1}

\* All findings that checks have returned, whatever became of them.
EverFound == UNION {ToSet(returned[i].found) : i \in DOMAIN returned}

\* With or without a terminal, whatever the display shows and whenever ctrl+c
\* is pressed, the exit code is that of the whole report of a scan that has
\* come to its end, or 1: exit 0 is never given to a scan that failed or was
\* interrupted, nor to findings the filters hide; and a command is called
\* interrupted only when the user interrupted it.
\* (scan.go:345-394, 396-440; spinner.go:66-98)
ExitIsOfTheWholeScan ==
  main = "exited" =>
    /\ exit = 0 => /\ outcome = "ok"
                   /\ \A i \in DOMAIN report : ~AtOrAbove(report[i].severity, flags.failOn)
    /\ message = "none" =>
         /\ outcome = "ok"
         /\ exit = 1 <=> \E f \in EverFound : AtOrAbove(f.severity, flags.failOn)
    /\ message = "scan error" => outcome = "error"
    /\ message = "scan interrupted" => pressed

\* What the user has asked to see.
Wanted(f) == AtOrAbove(f.severity, flags.minSeverity) /\ (flags.verbose \/ f.severity # "Info")

\* Nothing is displayed that the user asked not to see, and everything else of a
\* finished scan is, in the order the checks returned it in, although three
\* filters are composed.  (scan.go:405-415, 442-450)
DisplayIsTheFilteredReport ==
  main = "exited" /\ message = "none" =>
    displayed = Within(Found, {f \in EverFound : Wanted(f)})

\* Provided the calls of the checks return (the ones to the node within
\* rpcTimeout, the dials within portDialTimeout, the walks at the end of the
\* tree), the command ends, whether the scan succeeds or fails and whatever the
\* user does: the goroutine of the scan, the loop and the main goroutine never
\* wait for each other in a circle.  (spinner.go:59-71, scan.go:345-375)
SessionEnds ==
  WF_vars(executeScan) /\ WF_vars(startScan) => <>(main = "exited")

\* ctrl+c ends the command even if the scan hangs in a check: the loop does not
\* wait for it.  (spinner.go:75-79)
CtrlCEnds == pressed ~> main = "exited"

\* README.md:66: "Bubble Tea-powered spinner and progress tracking during
\* scans": when the loop has taken the result of a scan, it has shown phases.
ProgressIsShown == ui.result = "ok" => ui.phases # <<>>
=============================================================================
