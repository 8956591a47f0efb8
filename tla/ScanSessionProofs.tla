------------------------- MODULE ScanSessionProofs -------------------------
(***************************************************************************)
(* Theorems about ScanSession, for any choice of flags, noisy phases and   *)
(* failing checks: type correctness, that every check of a finished scan   *)
(* has left its mark, and that the exit code is that of the whole report   *)
(* and the display that of the filters, however the scan, the loop, the    *)
(* main goroutine and the user interleave.                                 *)
(***************************************************************************)
EXTENDS ScanSession, FoldTheorems, TLAPS

\* The names of the phases and the checks.
Check ==
  {"file permissions", "transport security", "access controls", "network privacy",
   "channel safety", "network exposure", "channel policy", "protocol security",
   "version/CVE", "chain sync", "peer count", "force-close", "balance", "jamming",
   "zero-conf", "htlc-limits", "exposure-limits", "open ports", "connect"}

Finding == [check : Check, severity : Severity]

Entry == [check : Check, failed : BOOLEAN, found : Seq(Finding)]

\* The types of the scan, and where it may be within a stage.
ScanTypes ==
  /\ flags \in Flags
  /\ stage \in Stages
  /\ next \in 1..9
  /\ stage = "config" => next \in 1..8
  /\ stage = "live" => next \in 1..Len(LiveChecks(flags.limits))
  /\ report \in Seq(Finding)
  /\ returned \in Seq(Entry)
  /\ outcome \in Outcomes

\* The report has what the checks returned, and a scan that has an outcome is
\* over.
ReportIsWhole ==
  /\ ToSet(report) = EverFound
  /\ outcome # "none" <=> stage = "returned"

\* The checks of the part of the scan before the live checks.
Offline == (IF flags.config THEN ConfigPhases ELSE <<>>) \o <<"open ports">>

\* The checks that have returned, in order.
Names == [i \in DOMAIN returned |-> returned[i].check]

\* Where the scan is, it has run every check before that place; no warning says
\* that the node could not be asked before the scan is over; and report and
\* warnings are what the checks returned.
EveryCheckInTurn ==
  /\ stage \in {"detect", "parse"} => Names = <<>>
  /\ stage \in {"parse", "config"} => flags.config
  /\ stage = "config" => Names = SubSeq(ConfigPhases, 1, next - 1)
  /\ stage = "ports" => Names = IF flags.config THEN ConfigPhases ELSE <<>>
  /\ stage \in {"connect", "live"} => flags.connect
  /\ stage = "connect" => Names = Offline
  /\ stage = "live" => Names = Offline \o SubSeq(LiveChecks(flags.limits), 1, next - 1)
  /\ outcome = "ok" => Names = Applicable
  /\ warnings \in Seq(Check)
  /\ stage # "returned" => "connect" \notin ToSet(warnings)
  /\ report = Found
  /\ warnings = Failed

\* What is displayed is what the filters leave of the report.
DisplayFollows == main = "exited" /\ message = "none" => displayed = Display

\* The types of the session.
SessionTypes ==
  /\ main \in MainStages
  /\ ui \in [phases : {<<>>}, result : Outcomes, quitting : BOOLEAN, programRef : {FALSE}]
  /\ sending \subseteq {"scanDone", "quit", "ctrl+c"}
  /\ pressed \in BOOLEAN
  /\ message \in {"none", "scan interrupted", "scan error", "UI error"}
  /\ exit \in {-1, 0, 1}

\* What the loop knows of the scan is true, and it ends for a reason.
LoopIsHonest ==
  /\ ui.result # "none" => ui.result = outcome
  /\ "scanDone" \in sending => outcome # "none"
  /\ "ctrl+c" \in sending => pressed
  /\ "quit" \in sending => ui.result # "none" \/ pressed

\* The main goroutine goes one of two ways, and past the scan for a reason.
MainFollows ==
  /\ flags.interactive => main # "scanning"
  /\ ~flags.interactive => main # "running"
  /\ main \in {"result", "exited"} /\ message # "UI error" =>
       IF flags.interactive THEN ui.result # "none" \/ pressed ELSE outcome # "none"

\* What the command has returned is what became of the result.
ExitFollows ==
  IF main # "exited" THEN message = "none"
  ELSE /\ message = "none" =>
            /\ Result = "ok"
            /\ exit = IF HasFindingsAtOrAbove(report, flags.failOn) THEN 1 ELSE 0
       /\ message = "scan error" => Result \notin {"ok", "none"}
       /\ message = "scan interrupted" => Result = "none"
       /\ exit = 0 => message = "none"

\* The inductive invariant.
IInv == ScanTypes /\ ReportIsWhole /\ SessionTypes /\ LoopIsHonest /\ MainFollows /\ ExitFollows
-----------------------------------------------------------------------------
(* Sequences *)

\* What a concatenation has for members.
LEMMA MembersOfConcat ==
  ASSUME NEW S, NEW s \in Seq(S), NEW t \in Seq(S)
  PROVE  ToSet(s \o t) = ToSet(s) \cup ToSet(t)
<1>1. /\ Len(s) \in Nat /\ Len(t) \in Nat
      /\ DOMAIN s = 1..Len(s) /\ DOMAIN t = 1..Len(t)
      /\ DOMAIN (s \o t) = 1..(Len(s) + Len(t))
  OBVIOUS
<1>2. \A i \in 1..Len(s) : (s \o t)[i] = s[i]
  OBVIOUS
<1>3. \A i \in 1..Len(t) : (s \o t)[Len(s) + i] = t[i]
  OBVIOUS
<1>4. ASSUME NEW i \in DOMAIN (s \o t)
      PROVE  (s \o t)[i] \in ToSet(s) \cup ToSet(t)
  <2>1. CASE i <= Len(s)
    BY <1>1, <1>2, <2>1 DEF ToSet
  <2>2. CASE i > Len(s)
    <3>1. i - Len(s) \in 1..Len(t) /\ i = Len(s) + (i - Len(s))
      BY <1>1, <2>2
    <3>2. (s \o t)[i] = t[i - Len(s)]
      BY <1>3, <3>1
    <3>3. QED
      BY <1>1, <3>1, <3>2 DEF ToSet
  <2>3. QED
    BY <1>1, <2>1, <2>2
<1>5. ASSUME NEW i \in DOMAIN s
      PROVE  s[i] \in ToSet(s \o t)
  <2>1. i \in DOMAIN (s \o t) /\ (s \o t)[i] = s[i]
    BY <1>1, <1>2
  <2>2. QED
    BY <2>1 DEF ToSet
<1>6. ASSUME NEW i \in DOMAIN t
      PROVE  t[i] \in ToSet(s \o t)
  <2>1. Len(s) + i \in DOMAIN (s \o t) /\ (s \o t)[Len(s) + i] = t[i]
    BY <1>1, <1>3
  <2>2. QED
    BY <2>1 DEF ToSet
<1>7. QED
  BY <1>4, <1>5, <1>6 DEF ToSet

\* The length of a concatenation.
LEMMA LengthOfConcat ==
  ASSUME NEW S, NEW s \in Seq(S), NEW t \in Seq(S)
  PROVE  s \o t \in Seq(S) /\ Len(s \o t) = Len(s) + Len(t)
OBVIOUS

\* Places in a list of eight or nine checks.
LEMMA Places ==
  ASSUME NEW n, n = 8 \/ n = 9
  PROVE  /\ 1 \in 1..n
         /\ \A i \in 1..n : i \in 1..9 /\ (i < n => i + 1 \in 1..n /\ i + 1 \in 1..9)
OBVIOUS

\* The length of a list of eight checks and at most one more.
LEMMA EightOrNine ==
  ASSUME NEW n, NEW m, n = 8, m = 0 \/ m = 1
  PROVE  n + m = 8 \/ n + m = 9
OBVIOUS

\* One more check adds what it returned to what was ever found.
LEMMA EverFoundGrows ==
  ASSUME returned \in Seq(Entry), NEW e \in Entry, returned' = Append(returned, e)
  PROVE  EverFound' = EverFound \cup ToSet(e.found)
<1>1. /\ Len(returned) \in Nat /\ DOMAIN returned = 1..Len(returned)
      /\ DOMAIN returned' = 1..(Len(returned) + 1)
  OBVIOUS
<1>2. \A i \in 1..Len(returned) : returned'[i] = returned[i]
  OBVIOUS
<1>3. returned'[Len(returned) + 1] = e
  OBVIOUS
<1>4. \A i \in DOMAIN returned' :
        i \in DOMAIN returned \/ i = Len(returned) + 1
  BY <1>1
<1>5. /\ DOMAIN returned \subseteq DOMAIN returned'
      /\ Len(returned) + 1 \in DOMAIN returned'
  BY <1>1
<1>6. EverFound' = UNION {ToSet(returned'[i].found) : i \in DOMAIN returned'}
  BY DEF EverFound
<1>7. EverFound' \subseteq EverFound \cup ToSet(e.found)
  <2>1. SUFFICES ASSUME NEW i \in DOMAIN returned'
                 PROVE  ToSet(returned'[i].found) \subseteq EverFound \cup ToSet(e.found)
    BY <1>6
  <2>2. CASE i \in DOMAIN returned
    <3>1. returned'[i] = returned[i]
      BY <1>1, <1>2, <2>2
    <3>2. QED
      BY <2>2, <3>1 DEF EverFound
  <2>3. CASE i = Len(returned) + 1
    BY <1>3, <2>3
  <2>4. QED
    BY <1>4, <2>2, <2>3
<1>8. EverFound \subseteq EverFound'
  <2>1. SUFFICES ASSUME NEW i \in DOMAIN returned
                 PROVE  ToSet(returned[i].found) \subseteq EverFound'
    BY DEF EverFound
  <2>2. i \in DOMAIN returned' /\ returned'[i] = returned[i]
    BY <1>1, <1>2, <1>5
  <2>3. QED
    BY <1>6, <2>2
<1>9. ToSet(e.found) \subseteq EverFound'
  BY <1>3, <1>5, <1>6
<1>10. QED
  BY <1>7, <1>8, <1>9

\* Every check has a name.
LEMMA ChecksHaveNames ==
  /\ ConfigPhases \in Seq(Check) /\ Len(ConfigPhases) = 8
  /\ \A limits \in BOOLEAN : /\ LiveChecks(limits) \in Seq(Check)
                             /\ (Len(LiveChecks(limits)) = 8 \/ Len(LiveChecks(limits)) = 9)
<1>1. ConfigPhases \in Seq(Check) /\ Len(ConfigPhases) = 8
  BY DEF ConfigPhases, Check
<1>2. ASSUME NEW limits \in BOOLEAN
      PROVE  LiveChecks(limits) \in Seq(Check) /\ (Len(LiveChecks(limits)) = 8 \/ Len(LiveChecks(limits)) = 9)
  <2> DEFINE always == <<"version/CVE", "chain sync", "peer count", "force-close", "balance",
                         "jamming", "zero-conf", "htlc-limits">>
             more == IF limits THEN <<"exposure-limits">> ELSE <<>>
  <2>1. always \in Seq(Check) /\ Len(always) = 8
    BY DEF Check
  <2>2. more \in Seq(Check) /\ (Len(more) = 0 \/ Len(more) = 1)
    <3>1. CASE limits
      BY <3>1 DEF Check
    <3>2. CASE ~limits
      BY <3>2
    <3>3. QED
      BY <3>1, <3>2
  <2>3. LiveChecks(limits) = always \o more
    BY DEF LiveChecks
  <2> HIDE DEF always, more
  <2>4. (always \o more) \in Seq(Check) /\ Len(always \o more) = Len(always) + Len(more)
    BY <2>1, <2>2, LengthOfConcat
  <2>5. Len(always) + Len(more) = 8 \/ Len(always) + Len(more) = 9
    BY <2>1, <2>2, EightOrNine
  <2>6. QED
    BY <2>3, <2>4, <2>5
<1>3. QED
  BY <1>1, <1>2
-----------------------------------------------------------------------------
(* The scan *)

\* What a check returns, or fails to, reaches both the report and the record of
\* what was ever found.
LEMMA ReturnKeepsWhole ==
  ASSUME report \in Seq(Finding), returned \in Seq(Entry), ToSet(report) = EverFound,
         NEW check \in Check, Finds(check) \/ Fails(check)
  PROVE  report' \in Seq(Finding) /\ returned' \in Seq(Entry) /\ ToSet(report') = EverFound'
<1>1. PICK e \in Entry : returned' = Append(returned, e) /\ report' = report \o e.found
  <2>1. CASE Finds(check)
    <3>1. PICK found \in {<<>>} \cup {<<[check |-> check, severity |-> s]>> :
                                        s \in IF check \in Noisy THEN NoisySeverities ELSE {}} :
            /\ report' = report \o found
            /\ returned' = Append(returned, [check |-> check, failed |-> FALSE, found |-> found])
      BY <2>1 DEF Finds
    <3>2. NoisySeverities \subseteq Severity
      BY ScanAssumption
    <3>3. found \in Seq(Finding)
      <4>1. CASE found = <<>>
        BY <4>1
      <4>2. ASSUME NEW s \in Severity, found = <<[check |-> check, severity |-> s]>>
            PROVE  found \in Seq(Finding)
        <5>1. [check |-> check, severity |-> s] \in Finding
          BY DEF Finding
        <5>2. QED
          BY <4>2, <5>1
      <4>3. QED
        BY <3>1, <3>2, <4>1, <4>2
    <3>4. [check |-> check, failed |-> FALSE, found |-> found] \in Entry
      BY <3>3 DEF Entry
    <3>5. QED
      BY <3>1, <3>4
  <2>2. CASE Fails(check)
    <3>1. [check |-> check, failed |-> TRUE, found |-> <<>>] \in Entry
      BY DEF Entry
    <3>2. report' = report \o <<>>
      BY <2>2 DEF Fails
    <3>3. QED
      BY <2>2, <3>1, <3>2 DEF Fails
  <2>3. QED
    BY <2>1, <2>2
<1>2. e.found \in Seq(Finding)
  BY DEF Entry
<1>3. ToSet(report') = ToSet(report) \cup ToSet(e.found)
  BY <1>1, <1>2, MembersOfConcat
<1>4. EverFound' = EverFound \cup ToSet(e.found)
  BY <1>1, EverFoundGrows
<1>5. report' \in Seq(Finding) /\ returned' \in Seq(Entry)
  BY <1>1, <1>2
<1>6. QED
  BY <1>3, <1>4, <1>5

\* Every step of the scan keeps its types and the report whole; a scan that is
\* over takes no step.
LEMMA ScanStepKeeps ==
  ASSUME ScanTypes, ReportIsWhole, ScanStep
  PROVE  ScanTypes' /\ ReportIsWhole' /\ flags' = flags /\ outcome = "none"
<1> USE DEF ScanTypes, ReportIsWhole, Stages, Outcomes
<1>1. ASSUME UNCHANGED <<report, returned>>
      PROVE  ToSet(report)' = EverFound'
  BY <1>1 DEF EverFound
<1>2. flags.limits \in BOOLEAN
  BY DEF Flags
<1>3. CASE DetectPaths
  BY <1>1, <1>3 DEF DetectPaths, Enter, Return
<1>4. CASE ParseConfig
  BY <1>1, <1>4 DEF ParseConfig, Enter, Return
<1>5. CASE CheckConfig
  <2>1. stage = "config" /\ next \in 1..8 /\ flags' = flags /\ outcome = "none"
    BY <1>5 DEF CheckConfig
  <2>2. ConfigPhases[next] \in Check
    <3>1. ConfigPhases \in Seq(Check) /\ next \in 1..Len(ConfigPhases)
      BY <2>1, ChecksHaveNames
    <3>2. QED
      BY <3>1
  <2>3. report' \in Seq(Finding) /\ returned' \in Seq(Entry) /\ ToSet(report') = EverFound'
    BY <1>5, <2>2, ReturnKeepsWhole DEF CheckConfig
  <2>4. \/ next' = next + 1 /\ next < 8 /\ UNCHANGED <<stage, outcome>>
        \/ stage' = "ports" /\ next' = 1 /\ UNCHANGED outcome
    BY <1>5, ChecksHaveNames DEF CheckConfig, Advance, Enter
  <2>5. QED
    BY <2>1, <2>3, <2>4
<1>6. CASE CheckOpenPorts
  <2>1. stage = "ports" /\ flags' = flags /\ outcome = "none"
    BY <1>6 DEF CheckOpenPorts
  <2>2. report' \in Seq(Finding) /\ returned' \in Seq(Entry) /\ ToSet(report') = EverFound'
    BY <1>6, ReturnKeepsWhole DEF CheckOpenPorts, Check
  <2>3. \/ stage' = "connect" /\ next' = 1 /\ UNCHANGED outcome
        \/ stage' = "returned" /\ outcome' = "ok" /\ UNCHANGED next
    BY <1>6 DEF CheckOpenPorts, Enter, Return
  <2>4. QED
    BY <2>1, <2>2, <2>3
<1>7. CASE Connect
  <2>1. stage = "connect" /\ flags' = flags /\ outcome = "none"
    BY <1>7 DEF Connect
  <2>2. CASE Enter("live") /\ UNCHANGED <<report, warnings, returned>>
    <3>1. 1 \in 1..Len(LiveChecks(flags.limits))
      <4>1. Len(LiveChecks(flags.limits)) = 8 \/ Len(LiveChecks(flags.limits)) = 9
        BY <1>2, ChecksHaveNames
      <4>2. QED
        BY <4>1, Places
    <3>2. QED
      BY <1>1, <2>1, <2>2, <3>1 DEF Enter
  <2>3. CASE Return("ok") /\ Fails("connect")
    <3>1. report' \in Seq(Finding) /\ returned' \in Seq(Entry) /\ ToSet(report') = EverFound'
      BY <2>3, ReturnKeepsWhole DEF Check
    <3>2. QED
      BY <2>1, <2>3, <3>1 DEF Return
  <2>4. QED
    BY <1>7, <2>2, <2>3 DEF Connect
<1>8. CASE CheckLive
  <2> DEFINE checks == LiveChecks(flags.limits)
  <2>1. /\ stage = "live" /\ next \in 1..Len(checks) /\ flags' = flags /\ outcome = "none"
    BY <1>8 DEF CheckLive
  <2>2. checks[next] \in Check /\ (Len(checks) = 8 \/ Len(checks) = 9)
    BY <1>2, <2>1, ChecksHaveNames
  <2>3. report' \in Seq(Finding) /\ returned' \in Seq(Entry) /\ ToSet(report') = EverFound'
    BY <1>8, <2>2, ReturnKeepsWhole DEF CheckLive
  <2>4. \/ next' = next + 1 /\ next < Len(checks) /\ UNCHANGED <<stage, outcome>>
        \/ stage' = "returned" /\ outcome' = "ok" /\ UNCHANGED next
    BY <1>8 DEF CheckLive, Advance, Return
  <2> HIDE DEF checks
  <2>5. next' \in 1..9 /\ (stage' = "live" => next' \in 1..Len(checks))
    <3>1. \A i \in 1..Len(checks) :
            i \in 1..9 /\ (i < Len(checks) => i + 1 \in 1..Len(checks) /\ i + 1 \in 1..9)
      BY <2>2, Places
    <3>2. QED
      BY <2>1, <2>4, <3>1
  <2>6. QED
    BY <2>1, <2>3, <2>4, <2>5 DEF checks
<1>9. QED
  BY <1>3, <1>4, <1>5, <1>6, <1>7, <1>8 DEF ScanStep
-----------------------------------------------------------------------------
(* The session *)

\* No scan has begun and nobody has spoken.
LEMMA InitHolds == Init => IInv
<1> SUFFICES ASSUME Init
             PROVE  IInv
  OBVIOUS
<1>1. ScanTypes
  <2>1. flags \in Flags
    BY ScanAssumption DEF Init, ScanInit
  <2>2. stage = "detect" /\ next = 1 /\ report = <<>> /\ returned = <<>> /\ outcome = "none"
    BY DEF Init, ScanInit
  <2>3. <<>> \in Seq(Finding) /\ <<>> \in Seq(Entry) /\ 1 \in 1..9
    OBVIOUS
  <2>4. QED
    BY <2>1, <2>2, <2>3 DEF ScanTypes, Stages, Outcomes
<1>2. ReportIsWhole
  BY DEF Init, ScanInit, ReportIsWhole, EverFound, ToSet
<1>3. SessionTypes
  BY DEF Init, newScanModel, SessionTypes, MainStages, Outcomes
<1>4. LoopIsHonest /\ MainFollows /\ ExitFollows
  BY DEF Init, newScanModel, LoopIsHonest, MainFollows, ExitFollows
<1>5. QED
  BY <1>1, <1>2, <1>3, <1>4 DEF IInv

\* Steps that leave the scan alone keep what is known of it.
LEMMA ScanRests ==
  ASSUME ScanTypes, ReportIsWhole, UNCHANGED scanVars
  PROVE  ScanTypes' /\ ReportIsWhole'
BY DEF ScanTypes, ReportIsWhole, scanVars, EverFound

\* A step of the scan, in whichever goroutine: the loop has no result yet.
LEMMA executeScanKeeps ==
  ASSUME IInv, executeScan
  PROVE  IInv'
<1>1. /\ ScanTypes /\ ReportIsWhole /\ SessionTypes /\ LoopIsHonest /\ MainFollows
      /\ ExitFollows
  BY DEF IInv
<1>2. ScanTypes' /\ ReportIsWhole' /\ flags' = flags /\ outcome = "none"
  BY <1>1, ScanStepKeeps DEF executeScan
<1>3. UNCHANGED <<main, ui, sending, pressed, displayed, message, exit>>
  BY <1>1 DEF executeScan, sendPhase, SessionTypes
<1>4. main \in {"scanning", "running"}
  BY DEF executeScan
<1>5. SessionTypes' /\ LoopIsHonest' /\ MainFollows' /\ ExitFollows'
  BY <1>1, <1>2, <1>3, <1>4
     DEF SessionTypes, LoopIsHonest, MainFollows, ExitFollows
<1>6. QED
  BY <1>2, <1>5 DEF IInv

\* A message the loop handles.
LEMMA HandleMessageKeeps ==
  ASSUME IInv, HandleMessage
  PROVE  IInv'
<1>1. /\ ScanTypes /\ ReportIsWhole /\ SessionTypes /\ LoopIsHonest /\ MainFollows
      /\ ExitFollows
  BY DEF IInv
<1>2. ScanTypes' /\ ReportIsWhole'
  BY <1>1, ScanRests DEF HandleMessage
<1>3. /\ main = "running" /\ UNCHANGED <<flags, outcome, report, main, pressed, message, exit>>
  BY DEF HandleMessage, scanVars
<1>4. PICK msg \in sending \ {"quit"} : Update(msg)
  BY DEF HandleMessage
<1>5. msg \in {"scanDone", "ctrl+c"} /\ sending' = (sending \ {msg}) \cup {"quit"}
  BY <1>1, <1>4 DEF Update, SessionTypes
<1>6. CASE msg = "ctrl+c"
  <2>1. ui' = [ui EXCEPT !.quitting = TRUE]
    BY <1>4, <1>6 DEF Update
  <2>2. SessionTypes' /\ ui'.result = ui.result
    BY <1>1, <1>3, <1>5, <2>1 DEF SessionTypes
  <2>3. LoopIsHonest' /\ MainFollows' /\ ExitFollows'
    BY <1>1, <1>3, <1>5, <1>6, <2>2 DEF LoopIsHonest, MainFollows, ExitFollows
  <2>4. QED
    BY <1>2, <2>2, <2>3 DEF IInv
<1>7. CASE msg = "scanDone"
  <2>1. ui' = [ui EXCEPT !.result = outcome, !.quitting = TRUE]
    BY <1>4, <1>7 DEF Update
  <2>2. SessionTypes' /\ ui'.result = outcome
    BY <1>1, <1>3, <1>5, <2>1 DEF SessionTypes, ScanTypes
  <2>3. LoopIsHonest' /\ MainFollows' /\ ExitFollows'
    BY <1>1, <1>3, <1>5, <1>7, <2>2 DEF LoopIsHonest, MainFollows, ExitFollows
  <2>4. QED
    BY <1>2, <2>2, <2>3 DEF IInv
<1>8. QED
  BY <1>5, <1>6, <1>7

\* The last step of the command: the gate looks at the report.
LEMMA ExitKeeps ==
  ASSUME IInv, renderReport \/ fail
  PROVE  IInv'
<1>1. /\ ScanTypes /\ ReportIsWhole /\ SessionTypes /\ LoopIsHonest /\ MainFollows
      /\ ExitFollows
  BY DEF IInv
<1>2. /\ UNCHANGED scanVars /\ UNCHANGED <<ui, sending, pressed>>
      /\ main = "result" /\ main' = "exited"
  BY DEF renderReport, fail
<1>3. ScanTypes' /\ ReportIsWhole'
  BY <1>1, <1>2, ScanRests
<1>4. UNCHANGED <<flags, outcome, report>> /\ UNCHANGED Result
  BY <1>2 DEF scanVars, Result
<1>5. /\ HasFindingsAtOrAbove(report, flags.failOn)' <=>
           HasFindingsAtOrAbove(report, flags.failOn)
      /\ message = "none"
  BY <1>1, <1>2, <1>4 DEF HasFindingsAtOrAbove, ExitFollows
<1>6. SessionTypes' /\ ExitFollows'
  <2>1. CASE renderReport
    <3>1. /\ Result = "ok" /\ message' = message
          /\ exit' = IF HasFindingsAtOrAbove(report, flags.failOn) THEN 1 ELSE 0
      BY <2>1 DEF renderReport
    <3>2. exit' \in {0, 1} /\ message' = "none"
      BY <1>5, <3>1
    <3>3. SessionTypes'
      BY <1>1, <1>2, <3>2 DEF SessionTypes, MainStages
    <3>4. ExitFollows'
      BY <1>2, <1>4, <1>5, <3>1, <3>2 DEF ExitFollows
    <3>5. QED
      BY <3>3, <3>4
  <2>2. CASE fail
    <3>1. /\ Result # "ok" /\ exit' = 1
          /\ message' = IF Result = "none" THEN "scan interrupted" ELSE "scan error"
      BY <2>2 DEF fail
    <3>2. SessionTypes'
      BY <1>1, <1>2, <3>1 DEF SessionTypes, MainStages
    <3>3. Result = "none" => message' = "scan interrupted"
      BY <3>1
    <3>4. Result # "none" => message' = "scan error"
      BY <3>1
    <3>5. message' # "none"
      BY <3>3, <3>4
    <3>6. ExitFollows'
      <4>1. Result' = Result
        BY <1>4
      <4>2. message' = "scan error" => Result' \notin {"ok", "none"}
        BY <3>1, <3>3, <4>1
      <4>3. message' = "scan interrupted" => Result' = "none"
        BY <3>4, <4>1
      <4>4. exit' # 0
        <5>1. exit' = 1
          BY <3>1
        <5>2. QED
          BY <5>1
      <4>5. QED
        BY <1>2, <3>5, <4>2, <4>3, <4>4 DEF ExitFollows
    <3>7. QED
      BY <3>2, <3>6
  <2>3. QED
    BY <2>1, <2>2
<1>7. LoopIsHonest' /\ MainFollows'
  BY <1>1, <1>2, <1>4, <1>5 DEF LoopIsHonest, MainFollows
<1>8. QED
  BY <1>3, <1>6, <1>7 DEF IInv

\* Every step keeps the inductive invariant.
LEMMA NextKeeps == IInv /\ [Next]_vars => IInv'
<1> SUFFICES ASSUME IInv, [Next]_vars
             PROVE  IInv'
  OBVIOUS
<1>1. /\ ScanTypes /\ ReportIsWhole /\ SessionTypes /\ LoopIsHonest /\ MainFollows
      /\ ExitFollows
  BY DEF IInv
<1>2. ASSUME UNCHANGED scanVars, UNCHANGED <<ui, message, exit>>,
             SessionTypes', LoopIsHonest', MainFollows', main # "exited", main' # "exited"
      PROVE  IInv'
  BY <1>1, <1>2, ScanRests DEF IInv, ExitFollows
<1>3. CASE UNCHANGED vars
  <2>1. /\ UNCHANGED scanVars /\ UNCHANGED sessionVars
    BY <1>3 DEF vars
  <2>2. SessionTypes' /\ LoopIsHonest' /\ MainFollows' /\ ExitFollows'
    BY <1>1, <2>1 DEF scanVars, sessionVars, SessionTypes, LoopIsHonest, MainFollows,
                      ExitFollows, Result, HasFindingsAtOrAbove
  <2>3. QED
    BY <1>1, <2>1, <2>2, ScanRests DEF IInv
<1>4. CASE startScan
  <2>1. /\ UNCHANGED scanVars /\ UNCHANGED <<main, ui, pressed, message, exit>>
        /\ main = "running" /\ outcome # "none" /\ sending' = sending \cup {"scanDone"}
    BY <1>4 DEF startScan
  <2>2. SessionTypes' /\ LoopIsHonest' /\ MainFollows'
    BY <1>1, <2>1 DEF scanVars, SessionTypes, LoopIsHonest, MainFollows
  <2>3. QED
    BY <1>2, <2>1, <2>2
<1>5. CASE PressCtrlC
  <2>1. /\ UNCHANGED scanVars /\ UNCHANGED <<main, ui, message, exit>>
        /\ main = "running" /\ pressed' = TRUE /\ sending' = sending \cup {"ctrl+c"}
    BY <1>5 DEF PressCtrlC
  <2>2. SessionTypes' /\ LoopIsHonest' /\ MainFollows'
    BY <1>1, <2>1 DEF scanVars, SessionTypes, LoopIsHonest, MainFollows
  <2>3. QED
    BY <1>2, <2>1, <2>2
<1>6. CASE HandleQuit
  <2>1. /\ UNCHANGED scanVars /\ UNCHANGED <<ui, sending, pressed, message, exit>>
        /\ main = "running" /\ main' = "result" /\ "quit" \in sending
    BY <1>6 DEF HandleQuit
  <2>2. SessionTypes' /\ LoopIsHonest' /\ MainFollows'
    BY <1>1, <2>1 DEF scanVars, SessionTypes, LoopIsHonest, MainFollows, MainStages
  <2>3. QED
    BY <1>2, <2>1, <2>2
<1>7. CASE runScan
  <2>1. /\ UNCHANGED scanVars /\ UNCHANGED <<ui, sending, pressed, message, exit>>
        /\ main = "start" /\ main' = IF flags.interactive THEN "running" ELSE "scanning"
    BY <1>7 DEF runScan
  <2>2. SessionTypes' /\ LoopIsHonest' /\ MainFollows'
    BY <1>1, <2>1 DEF scanVars, SessionTypes, LoopIsHonest, MainFollows, MainStages
  <2>3. QED
    BY <1>2, <2>1, <2>2
<1>8. CASE ScanReturns
  <2>1. /\ UNCHANGED scanVars /\ UNCHANGED <<ui, sending, pressed, message, exit>>
        /\ main = "scanning" /\ main' = "result" /\ outcome # "none"
    BY <1>8 DEF ScanReturns
  <2>2. SessionTypes' /\ LoopIsHonest' /\ MainFollows'
    BY <1>1, <2>1 DEF scanVars, SessionTypes, LoopIsHonest, MainFollows, MainStages
  <2>3. QED
    BY <1>2, <2>1, <2>2
<1>9. CASE RunFails
  <2>1. /\ UNCHANGED scanVars /\ UNCHANGED <<ui, sending, pressed>>
        /\ main = "running" /\ main' = "exited" /\ message' = "UI error" /\ exit' = 1
    BY <1>9 DEF RunFails
  <2>2. SessionTypes' /\ LoopIsHonest' /\ MainFollows'
    BY <1>1, <2>1 DEF scanVars, SessionTypes, LoopIsHonest, MainFollows, MainStages
  <2>3. ExitFollows'
    <3>1. /\ message' # "none" /\ message' # "scan error" /\ message' # "scan interrupted"
          /\ exit' # 0
      <4>1. message' = "UI error"
        BY <2>1
      <4>2. exit' = 1
        BY <2>1
      <4>3. message' # "none" /\ message' # "scan error" /\ message' # "scan interrupted"
        BY <4>1
      <4>4. exit' # 0
        BY <4>2
      <4>5. QED
        BY <4>3, <4>4
    <3>2. QED
      BY <2>1, <3>1 DEF ExitFollows
  <2>4. QED
    BY <1>1, <2>1, <2>2, <2>3, ScanRests DEF IInv
<1>10. QED
  BY <1>3, <1>4, <1>5, <1>6, <1>7, <1>8, <1>9, executeScanKeeps, HandleMessageKeeps, ExitKeeps
     DEF Next, Interface, Main

\* The invariant holds in every run.
LEMMA InvariantHolds == Spec => []IInv
BY InitHolds, NextKeeps, PTL DEF Spec

\* Type correctness of a scan and its session (scan.go:216-306, spinner.go:33-57).
THEOREM TypeCorrect == Spec => []TypeOK
<1>1. IInv => TypeOK
  <2> SUFFICES ASSUME IInv
               PROVE  TypeOK
    OBVIOUS
  <2>1. ScanTypeOK
    <3>1. \A i \in DOMAIN report : report[i] \in Finding
      BY DEF IInv, ScanTypes
    <3>2. QED
      BY <3>1 DEF IInv, ScanTypes, ScanTypeOK, Finding
  <2>2. QED
    BY <2>1 DEF IInv, SessionTypes, TypeOK, Messages
<1>2. QED
  BY <1>1, InvariantHolds, PTL

\* The exit code is that of the whole report of a scan that has come to its end,
\* or 1, whatever the display hides and whenever ctrl+c is pressed; and only the
\* user interrupts (scan.go:345-394, 396-440; spinner.go:66-98).
THEOREM ExitSound == Spec => []ExitIsOfTheWholeScan
<1>1. IInv => ExitIsOfTheWholeScan
  <2> SUFFICES ASSUME IInv, main = "exited"
               PROVE  /\ exit = 0 =>
                           /\ outcome = "ok"
                           /\ \A i \in DOMAIN report :
                                ~AtOrAbove(report[i].severity, flags.failOn)
                      /\ message = "none" =>
                           /\ outcome = "ok"
                           /\ exit = 1 <=>
                                \E f \in EverFound : AtOrAbove(f.severity, flags.failOn)
                      /\ message = "scan error" => outcome = "error"
                      /\ message = "scan interrupted" => pressed
    BY DEF ExitIsOfTheWholeScan
  <2>1. Result # "none" => Result = outcome
    BY DEF IInv, LoopIsHonest, Result
  <2>2. /\ message = "none" =>
             /\ Result = "ok"
             /\ exit = IF HasFindingsAtOrAbove(report, flags.failOn) THEN 1 ELSE 0
        /\ message = "scan error" => Result \notin {"ok", "none"}
        /\ message = "scan interrupted" => Result = "none"
        /\ exit = 0 => message = "none"
    BY DEF IInv, ExitFollows
  <2>3. HasFindingsAtOrAbove(report, flags.failOn) <=>
          \E f \in EverFound : AtOrAbove(f.severity, flags.failOn)
    <3>1. HasFindingsAtOrAbove(report, flags.failOn) <=>
            \E f \in ToSet(report) : AtOrAbove(f.severity, flags.failOn)
      BY DEF HasFindingsAtOrAbove, ToSet
    <3>2. QED
      BY <3>1 DEF IInv, ReportIsWhole
  <2>4. message = "scan error" => outcome = "error"
    BY <2>1, <2>2 DEF IInv, ScanTypes, Outcomes
  <2>5. message = "scan interrupted" => pressed
    <3>1. message # "UI error" /\ Result = "none" => pressed
      BY DEF IInv, MainFollows, Result
    <3>2. QED
      BY <2>2, <3>1
  <2>6. exit = 0 => ~HasFindingsAtOrAbove(report, flags.failOn)
    BY <2>2
  <2>7. exit = 0 => \A i \in DOMAIN report : ~AtOrAbove(report[i].severity, flags.failOn)
    BY <2>6 DEF HasFindingsAtOrAbove
  <2>8. message = "none" => outcome = "ok"
    BY <2>1, <2>2
  <2>9. message = "none" =>
          (exit = 1 <=> \E f \in EverFound : AtOrAbove(f.severity, flags.failOn))
    <3>1. message = "none" => (exit = 1 <=> HasFindingsAtOrAbove(report, flags.failOn))
      BY <2>2
    <3>2. QED
      BY <2>3, <3>1
  <2>10. QED
    BY <2>2, <2>4, <2>5, <2>7, <2>8, <2>9
<1>2. QED
  BY <1>1, InvariantHolds, PTL
-----------------------------------------------------------------------------
(* Every check in its turn *)

\* One more check adds its name, what it found, and a warning if it failed.
LEMMA ReturnedGrows ==
  ASSUME returned \in Seq(Entry), NEW e \in Entry, returned' = Append(returned, e)
  PROVE  /\ Names \in Seq(Check) /\ Names' = Append(Names, e.check)
         /\ Found' = Found \o e.found
         /\ Failed' = Failed \o (IF e.failed THEN <<e.check>> ELSE <<>>)
<1> DEFINE name == [x \in Entry |-> x.check]
           find == [x \in Entry |-> x.found]
           mark == [x \in Entry |-> IF x.failed THEN <<x.check>> ELSE <<>>]
<1>1. /\ name \in [Entry -> Check] /\ find \in [Entry -> Seq(Finding)]
      /\ mark \in [Entry -> Seq(Check)]
  BY DEF Entry
<1>2. name[e] = e.check /\ find[e] = e.found
      /\ mark[e] = IF e.failed THEN <<e.check>> ELSE <<>>
  OBVIOUS
<1>3. ASSUME NEW s \in Seq(Entry)
      PROVE  /\ Image(name, s) = [i \in DOMAIN s |-> s[i].check]
             /\ Image(find, s) = [i \in DOMAIN s |-> s[i].found]
             /\ Image(mark, s) = [i \in DOMAIN s |-> IF s[i].failed THEN <<s[i].check>> ELSE <<>>]
  <2>1. \A i \in DOMAIN s : s[i] \in Entry
    OBVIOUS
  <2> QED BY <2>1 DEF Image
<1>4. /\ Names = Image(name, returned) /\ Found = FlattenSeq(Image(find, returned))
      /\ Failed = FlattenSeq(Image(mark, returned))
  BY <1>3 DEF Names, Found, Failed
<1>5. Append(returned, e) \in Seq(Entry) /\ returned' \in Seq(Entry)
  OBVIOUS
<1>6. /\ Names' = Image(name, Append(returned, e))
      /\ Found' = FlattenSeq(Image(find, Append(returned, e)))
      /\ Failed' = FlattenSeq(Image(mark, Append(returned, e)))
  BY <1>3, <1>5 DEF Names, Found, Failed
<1> HIDE DEF name, find, mark
<1>7. \A U : \A F \in [Entry -> U] : \A s \in Seq(Entry) : \A x \in Entry :
        Image(F, s) \in Seq(U) /\ Image(F, Append(s, x)) = Append(Image(F, s), F[x])
  BY ImageOfAppend, Zenon
<1>8. /\ Image(name, returned) \in Seq(Check)
      /\ Image(name, Append(returned, e)) = Append(Image(name, returned), name[e])
  BY <1>1, <1>7, Zenon
<1>9. /\ Image(find, returned) \in Seq(Seq(Finding))
      /\ Image(find, Append(returned, e)) = Append(Image(find, returned), find[e])
  BY <1>1, <1>7, Zenon
<1>10. /\ Image(mark, returned) \in Seq(Seq(Check))
       /\ Image(mark, Append(returned, e)) = Append(Image(mark, returned), mark[e])
  BY <1>1, <1>7, Zenon
<1>11. find[e] \in Seq(Finding) /\ mark[e] \in Seq(Check)
  BY <1>1
<1>12. FlattenSeq(Append(Image(find, returned), find[e])) = Found \o find[e]
  BY <1>4, <1>9, <1>11, FlattenAppend
<1>13. FlattenSeq(Append(Image(mark, returned), mark[e])) = Failed \o mark[e]
  BY <1>4, <1>10, <1>11, FlattenAppend
<1>14. Names \in Seq(Check) /\ Names' = Append(Names, e.check)
  BY <1>2, <1>4, <1>6, <1>8
<1>15. Found' = Found \o e.found
  BY <1>2, <1>6, <1>9, <1>12
<1>16. Failed' = Failed \o (IF e.failed THEN <<e.check>> ELSE <<>>)
  BY <1>2, <1>6, <1>10, <1>13
<1> QED BY <1>14, <1>15, <1>16

\* A check that returns, in its turn.
LEMMA ReturnMarks ==
  ASSUME returned \in Seq(Entry), report \in Seq(Finding), warnings \in Seq(Check),
         report = Found, warnings = Failed,
         NEW check \in Check, (Finds(check) /\ UNCHANGED warnings) \/ Fails(check)
  PROVE  /\ Names \in Seq(Check) /\ Names' = Append(Names, check)
         /\ report' = Found' /\ warnings' = Failed' /\ warnings' \in Seq(Check)
         /\ ToSet(warnings') \subseteq ToSet(warnings) \cup {check}
         /\ Finds(check) \/ ToSet(warnings') = ToSet(warnings) \cup {check}
<1>1. CASE Finds(check) /\ UNCHANGED warnings
  <2>1. PICK found \in {<<>>} \cup {<<[check |-> check, severity |-> s]>> :
                                      s \in IF check \in Noisy THEN NoisySeverities ELSE {}} :
          /\ report' = report \o found
          /\ returned' = Append(returned, [check |-> check, failed |-> FALSE, found |-> found])
    BY <1>1 DEF Finds
  <2>2. found \in Seq(Finding)
    <3>1. NoisySeverities \subseteq Severity
      BY ScanAssumption
    <3>2. CASE found = <<>>
      BY <3>2
    <3>3. ASSUME NEW s \in Severity, found = <<[check |-> check, severity |-> s]>>
          PROVE  found \in Seq(Finding)
      <4>1. [check |-> check, severity |-> s] \in Finding
        BY DEF Finding
      <4> QED BY <3>3, <4>1
    <3> QED BY <2>1, <3>1, <3>2, <3>3
  <2> DEFINE e == [check |-> check, failed |-> FALSE, found |-> found]
  <2>3. e \in Entry /\ e.check = check /\ e.failed = FALSE /\ e.found = found
    BY <2>2 DEF Entry
  <2>4. returned' = Append(returned, e)
    BY <2>1
  <2> HIDE DEF e
  <2>5. /\ Names \in Seq(Check) /\ Names' = Append(Names, e.check)
        /\ Found' = Found \o e.found
        /\ Failed' = Failed \o (IF e.failed THEN <<e.check>> ELSE <<>>)
    BY <2>3, <2>4, ReturnedGrows
  <2>6. Failed' = Failed
    <3>1. Failed \o <<>> = Failed
      OBVIOUS
    <3> QED BY <2>3, <2>5, <3>1
  <2> QED BY <1>1, <2>1, <2>3, <2>5, <2>6
<1>2. CASE Fails(check)
  <2> DEFINE e == [check |-> check, failed |-> TRUE, found |-> <<>>]
  <2>1. e \in Entry /\ e.check = check /\ e.failed = TRUE /\ e.found = <<>>
    BY DEF Entry
  <2>2. returned' = Append(returned, e) /\ warnings' = Append(warnings, check) /\ report' = report
    BY <1>2 DEF Fails
  <2> HIDE DEF e
  <2>3. /\ Names \in Seq(Check) /\ Names' = Append(Names, e.check)
        /\ Found' = Found \o e.found
        /\ Failed' = Failed \o (IF e.failed THEN <<e.check>> ELSE <<>>)
    BY <2>1, <2>2, ReturnedGrows
  <2>4. warnings \o <<check>> = Append(warnings, check)
    OBVIOUS
  <2>5. ToSet(Append(warnings, check)) = ToSet(warnings) \cup {check}
    BY MembersOfAppend
  <2>6. Append(warnings, check) \in Seq(Check)
    OBVIOUS
  <2>7. report' = Found'
    <3>1. Found \o <<>> = Found
      OBVIOUS
    <3> QED BY <2>1, <2>2, <2>3, <3>1
  <2> QED BY <2>1, <2>2, <2>3, <2>4, <2>5, <2>6, <2>7
<1> QED BY <1>1, <1>2

\* One more member of a list, and the last.
LEMMA NextOfList ==
  ASSUME NEW T, NEW list \in Seq(T), NEW n \in 1..Len(list)
  PROVE  /\ SubSeq(list, 1, n - 1) \in Seq(T) /\ list[n] \in T
         /\ Append(SubSeq(list, 1, n - 1), list[n]) = SubSeq(list, 1, n)
         /\ SubSeq(list, 1, Len(list)) = list
<1>1. /\ Len(list) \in Nat /\ 1 \in 1..Len(list) /\ n \in 1..n /\ n - 1 \in Int
      /\ \A i \in 1..(n - 1) : list[i] \in T
  OBVIOUS
<1>2. SubSeq(list, 1, n - 1) \in Seq(T)
  BY <1>1, SubSeqProperties
<1>3. SubSeq(list, 1, n) = SubSeq(list, 1, n - 1) \o <<list[n]>>
  BY <1>1, SubSeqRecursiveSecond
<1>4. list[n] \in T
  OBVIOUS
<1>5. Append(SubSeq(list, 1, n - 1), list[n]) = SubSeq(list, 1, n - 1) \o <<list[n]>>
  BY <1>2, <1>4, AppendIsConcat
<1>6. SubSeq(list, 1, Len(list)) = list
  BY SubSeqFull
<1> QED BY <1>2, <1>3, <1>4, <1>5, <1>6

\* A list goes on with what is appended to its end.
LEMMA AppendToEnd ==
  ASSUME NEW T, NEW s \in Seq(T), NEW t \in Seq(T), NEW e \in T
  PROVE  Append(s \o t, e) = s \o Append(t, e)
<1>1. (s \o t) \in Seq(T) /\ <<e>> \in Seq(T)
  OBVIOUS
<1>2. Append(s \o t, e) = (s \o t) \o <<e>> /\ Append(t, e) = t \o <<e>>
  BY <1>1, AppendIsConcat
<1> QED BY <1>1, <1>2, ConcatAssociative

\* No live check is called connect.
LEMMA ConnectIsNoLiveCheck ==
  ASSUME NEW limits \in BOOLEAN
  PROVE  LiveChecks(limits) \in Seq(Check \ {"connect"})
<1> DEFINE always == <<"version/CVE", "chain sync", "peer count", "force-close", "balance",
                       "jamming", "zero-conf", "htlc-limits">>
           more == IF limits THEN <<"exposure-limits">> ELSE <<>>
<1>1. always \in Seq(Check \ {"connect"})
  BY DEF Check
<1>2. more \in Seq(Check \ {"connect"})
  <2>1. CASE limits
    BY <2>1 DEF Check
  <2>2. CASE ~limits
    BY <2>2
  <2> QED BY <2>1, <2>2
<1>3. LiveChecks(limits) = always \o more
  BY DEF LiveChecks
<1> HIDE DEF always, more
<1> QED BY <1>1, <1>2, <1>3, LengthOfConcat

\* A list of one.
LEMMA ListOfOne ==
  ASSUME NEW T, NEW e \in T
  PROVE  <<e>> \in Seq(T)
OBVIOUS

\* Every step of the scan runs the check whose turn it is, and no other.
LEMMA TurnsKeep ==
  ASSUME ScanTypes, ReportIsWhole, EveryCheckInTurn, ScanStep
  PROVE  EveryCheckInTurn'
<1> USE DEF ScanTypes, ReportIsWhole, EveryCheckInTurn, Stages, Outcomes
<1>0. "open ports" \in Check /\ "connect" \in Check
  BY DEF Check
<1>1. ASSUME UNCHANGED <<report, warnings, returned>>
      PROVE  UNCHANGED <<Names, Found, Failed>>
  BY <1>1 DEF Names, Found, Failed
<1>2. flags.limits \in BOOLEAN /\ flags.config \in BOOLEAN /\ flags.connect \in BOOLEAN
  BY DEF Flags
<1>3. Offline \in Seq(Check)
  <2>1. <<"open ports">> \in Seq(Check)
    BY <1>0, ListOfOne
  <2>2. (IF flags.config THEN ConfigPhases ELSE <<>>) \in Seq(Check)
    BY ChecksHaveNames
  <2> QED BY <2>1, <2>2, LengthOfConcat DEF Offline
<1>4. CASE DetectPaths
  <2>1. /\ stage = "detect" /\ outcome = "none" /\ UNCHANGED <<flags, report, warnings, returned>>
        /\ UNCHANGED <<Names, Found, Failed>>
    BY <1>1, <1>4 DEF DetectPaths
  <2>2. \/ flags.config /\ stage' = "parse" /\ outcome' = "none"
        \/ ~flags.config /\ stage' = "ports" /\ outcome' = "none"
        \/ stage' = "returned" /\ outcome' = "error"
    BY <1>4, <2>1 DEF DetectPaths, Enter, Return
  <2> QED BY <2>1, <2>2
<1>5. CASE ParseConfig
  <2>1. /\ stage = "parse" /\ outcome = "none" /\ UNCHANGED <<flags, report, warnings, returned>>
        /\ UNCHANGED <<Names, Found, Failed>>
    BY <1>1, <1>5 DEF ParseConfig
  <2>2. \/ stage' = "config" /\ next' = 1 /\ outcome' = "none"
        \/ stage' = "returned" /\ outcome' = "error"
    BY <1>5, <2>1 DEF ParseConfig, Enter, Return
  <2>3. SubSeq(ConfigPhases, 1, 1 - 1) = <<>>
    BY SubSeqEmpty
  <2> QED BY <2>1, <2>2, <2>3
<1>6. CASE CheckConfig
  <2>1. stage = "config" /\ next \in 1..8 /\ outcome = "none" /\ UNCHANGED <<flags, warnings>>
        /\ Finds(ConfigPhases[next])
    BY <1>6 DEF CheckConfig
  <2>2. ConfigPhases \in Seq(Check) /\ Len(ConfigPhases) = 8
    BY ChecksHaveNames
  <2>3. /\ ConfigPhases[next] \in Check
        /\ Append(SubSeq(ConfigPhases, 1, next - 1), ConfigPhases[next]) = SubSeq(ConfigPhases, 1, next)
        /\ SubSeq(ConfigPhases, 1, 8) = ConfigPhases
    BY <2>1, <2>2, NextOfList
  <2>4. /\ Names' = Append(Names, ConfigPhases[next])
        /\ report' = Found' /\ warnings' = Failed'
    BY <2>1, <2>3, ReturnMarks
  <2>5. \/ next' = next + 1 /\ next < 8 /\ stage' = "config" /\ outcome' = "none"
        \/ next = 8 /\ stage' = "ports" /\ next' = 1 /\ outcome' = "none"
    BY <1>6, <2>1, <2>2 DEF CheckConfig, Advance, Enter
  <2>6. Names' = SubSeq(ConfigPhases, 1, next)
    BY <2>1, <2>3, <2>4
  <2>7. flags.config
    BY <2>1
  <2>8. next + 1 - 1 = next
    BY <2>1
  <2> QED BY <2>1, <2>3, <2>4, <2>5, <2>6, <2>7, <2>8
<1>7. CASE CheckOpenPorts
  <2>1. stage = "ports" /\ outcome = "none" /\ UNCHANGED <<flags, warnings>> /\ Finds("open ports")
    BY <1>7 DEF CheckOpenPorts
  <2>2. /\ Names \in Seq(Check) /\ Names' = Append(Names, "open ports")
        /\ report' = Found' /\ warnings' = Failed'
    BY <2>1, ReturnMarks, <1>0
  <2>3. Names' = Offline
    <3>1. Append(Names, "open ports") = Names \o <<"open ports">>
      BY <1>0, <2>2, AppendIsConcat
    <3> QED BY <2>1, <2>2, <3>1 DEF Offline
  <2>4. \/ flags.connect /\ stage' = "connect" /\ outcome' = "none"
        \/ ~flags.connect /\ stage' = "returned" /\ outcome' = "ok"
    BY <1>7, <2>1 DEF CheckOpenPorts, Enter, Return
  <2>5. ~flags.connect => Applicable' = Offline
    <3>1. ~flags.connect => Applicable' = Offline \o <<>>
      BY <2>1 DEF Applicable, Offline
    <3> QED BY <1>3, <3>1
  <2> QED BY <2>1, <2>2, <2>3, <2>4, <2>5 DEF Offline
<1>8. CASE Connect
  <2>1. stage = "connect" /\ outcome = "none" /\ flags' = flags /\ Names = Offline /\ Offline' = Offline
    BY <1>8 DEF Connect, Offline
  <2>2. CASE Enter("live") /\ UNCHANGED <<report, warnings, returned>>
    <3>1. stage' = "live" /\ next' = 1 /\ outcome' = "none" /\ UNCHANGED <<Names, Found, Failed>>
      BY <1>1, <2>1, <2>2 DEF Enter
    <3>2. SubSeq(LiveChecks(flags.limits), 1, 1 - 1) = <<>>
      BY SubSeqEmpty
    <3>3. Offline \o <<>> = Offline
      BY <1>3
    <3> QED BY <2>1, <2>2, <3>1, <3>2, <3>3
  <2>3. CASE Return("ok") /\ Fails("connect")
    <3>1. stage' = "returned" /\ outcome' = "ok"
      BY <2>3 DEF Return
    <3>2. /\ Names' = Append(Names, "connect") /\ warnings' \in Seq(Check)
          /\ report' = Found' /\ warnings' = Failed'
      BY <2>3, ReturnMarks, <1>0
    <3>3. "connect" \in ToSet(warnings')
      <4>1. warnings' = Append(warnings, "connect")
        BY <2>3 DEF Fails
      <4>2. ToSet(Append(warnings, "connect")) = ToSet(warnings) \cup {"connect"}
        BY <1>0, MembersOfAppend
      <4> QED BY <4>1, <4>2
    <3>4. Applicable' = Offline \o <<"connect">>
      BY <2>1, <3>3 DEF Applicable, Offline
    <3>5. Append(Offline, "connect") = Offline \o <<"connect">>
      BY <1>0, <1>3, AppendIsConcat
    <3> QED BY <2>1, <3>1, <3>2, <3>4, <3>5
  <2> QED BY <1>8, <2>2, <2>3 DEF Connect
<1>9. CASE CheckLive
  <2> DEFINE checks == LiveChecks(flags.limits)
  <2>1. /\ stage = "live" /\ next \in 1..Len(checks) /\ flags' = flags /\ outcome = "none"
        /\ Offline' = Offline /\ LiveChecks(flags.limits)' = checks
    BY <1>9 DEF CheckLive, Offline
  <2>2. checks \in Seq(Check \ {"connect"}) /\ checks \in Seq(Check)
    BY <1>2, ConnectIsNoLiveCheck, ChecksHaveNames
  <2>3. (Finds(checks[next]) /\ UNCHANGED warnings) \/ Fails(checks[next])
    BY <1>9 DEF CheckLive
  <2>4. \/ next' = next + 1 /\ next < Len(checks) /\ stage' = "live" /\ outcome' = "none"
        \/ ~(next < Len(checks)) /\ stage' = "returned" /\ outcome' = "ok"
    BY <1>9, <2>1 DEF CheckLive, Advance, Return
  <2>5. Names = Offline \o SubSeq(checks, 1, next - 1) /\ flags.connect
    BY <2>1
  <2> HIDE DEF checks
  <2>6. checks[next] \in Check /\ checks[next] # "connect"
    BY <2>1, <2>2
  <2>7. /\ Names' = Append(Names, checks[next]) /\ warnings' \in Seq(Check)
        /\ report' = Found' /\ warnings' = Failed'
        /\ ToSet(warnings') \subseteq ToSet(warnings) \cup {checks[next]}
    BY <2>3, <2>6, ReturnMarks
  <2>8. "connect" \notin ToSet(warnings')
    BY <2>1, <2>6, <2>7
  <2>9. /\ SubSeq(checks, 1, next - 1) \in Seq(Check)
        /\ Append(SubSeq(checks, 1, next - 1), checks[next]) = SubSeq(checks, 1, next)
        /\ SubSeq(checks, 1, Len(checks)) = checks
    BY <2>1, <2>2, NextOfList
  <2>10. Names' = Offline \o SubSeq(checks, 1, next)
    BY <1>3, <2>5, <2>6, <2>7, <2>9, AppendToEnd
  <2>11. CASE next < Len(checks) /\ next' = next + 1 /\ stage' = "live" /\ outcome' = "none"
    <3>1. (next + 1) - 1 = next
      BY <2>1
    <3> QED BY <2>1, <2>5, <2>7, <2>8, <2>10, <2>11, <3>1
  <2>12. CASE ~(next < Len(checks)) /\ stage' = "returned" /\ outcome' = "ok"
    <3>1. next = Len(checks)
      <4>1. Len(checks) \in Nat
        BY <2>2
      <4> QED BY <2>1, <2>12, <4>1
    <3>2. Names' = Offline \o checks
      BY <2>9, <2>10, <3>1
    <3>3. Applicable' = Offline \o checks
      BY <2>1, <2>5, <2>8 DEF Applicable, Offline
    <3> QED BY <2>7, <2>12, <3>2, <3>3
  <2> QED BY <2>4, <2>11, <2>12
<1> QED BY <1>4, <1>5, <1>6, <1>7, <1>8, <1>9 DEF ScanStep

\* Every step of the session leaves the scan alone, or is one of the scan; and
\* the display is made of a report that does not change any more.
LEMMA SessionKeeps ==
  IInv /\ EveryCheckInTurn /\ DisplayFollows /\ [Next]_vars => EveryCheckInTurn' /\ DisplayFollows'
<1> SUFFICES ASSUME IInv, EveryCheckInTurn, DisplayFollows, [Next]_vars
             PROVE  EveryCheckInTurn' /\ DisplayFollows'
  OBVIOUS
<1>1. ASSUME UNCHANGED scanVars PROVE EveryCheckInTurn'
  BY <1>1 DEF scanVars, EveryCheckInTurn, Names, Applicable, Offline, Found, Failed
<1>2. ASSUME main' # "exited" PROVE DisplayFollows'
  BY <1>2 DEF DisplayFollows
<1>3. CASE UNCHANGED vars
  BY <1>1, <1>3 DEF vars, sessionVars, scanVars, DisplayFollows, Display, AtLeast
<1>4. CASE executeScan
  BY <1>2, <1>4, TurnsKeep DEF executeScan, IInv
<1>5. CASE startScan \/ PressCtrlC \/ HandleMessage \/ HandleQuit \/ runScan \/ ScanReturns
  <2>1. UNCHANGED scanVars
    BY <1>5 DEF startScan, PressCtrlC, HandleMessage, HandleQuit, runScan, ScanReturns
  <2>2. main' # "exited"
    BY <1>5 DEF startScan, PressCtrlC, HandleMessage, HandleQuit, runScan, ScanReturns
  <2> QED BY <1>1, <1>2, <2>1, <2>2
<1>6. CASE renderReport
  <2>1. UNCHANGED scanVars /\ displayed' = Display
    BY <1>6 DEF renderReport
  <2>2. Display' = Display
    BY <2>1 DEF scanVars, Display, AtLeast
  <2> QED BY <1>1, <2>1, <2>2 DEF DisplayFollows
<1>7. CASE fail \/ RunFails
  <2>1. UNCHANGED scanVars /\ message' # "none"
    BY <1>7 DEF fail, RunFails
  <2> QED BY <1>1, <2>1 DEF DisplayFollows
<1> QED BY <1>3, <1>4, <1>5, <1>6, <1>7 DEF Next, Interface, Main

\* Nothing has been asked and nothing shown.
LEMMA SessionBegins == Init => EveryCheckInTurn /\ DisplayFollows
<1> SUFFICES ASSUME Init PROVE EveryCheckInTurn /\ DisplayFollows
  OBVIOUS
<1>1. /\ stage = "detect" /\ outcome = "none" /\ report = <<>> /\ warnings = <<>> /\ returned = <<>>
      /\ main = "start"
  BY DEF Init, ScanInit
<1> DEFINE found == [i \in DOMAIN <<>> |-> <<>>[i].found]
           failed == [i \in DOMAIN <<>> |-> IF <<>>[i].failed THEN <<<<>>[i].check>> ELSE <<>>]
<1>2. found = <<>> /\ failed = <<>> /\ Names = <<>>
  BY <1>1 DEF Names
<1> HIDE DEF found, failed
<1>3. FlattenSeq(found) = <<>> /\ FlattenSeq(failed) = <<>>
  BY <1>2 DEF FlattenSeq
<1>4. Found = <<>> /\ Failed = <<>>
  BY <1>1, <1>3 DEF Found, Failed, found, failed
<1>5. <<>> \in Seq(Check) /\ ToSet(<<>>) = {}
  BY DEF ToSet
<1> QED BY <1>1, <1>2, <1>4, <1>5 DEF EveryCheckInTurn, DisplayFollows

\* They hold in every run.
LEMMA SessionHolds == Spec => [](EveryCheckInTurn /\ DisplayFollows)
BY SessionBegins, SessionKeeps, InvariantHolds, PTL DEF Spec

\* Every check of a scan that returns a report has run, in its turn, and has left
\* its findings in the report or a warning: whichever checks find something or
\* fail, and wherever the scan is interrupted (scan.go:246-303).
THEOREM NothingSilent == Spec => []NothingIsSilent
<1>1. EveryCheckInTurn => NothingIsSilent
  BY DEF EveryCheckInTurn, NothingIsSilent, Names
<1> QED BY <1>1, SessionHolds, PTL

\* The three filters, one after the other, keep what is at or above each of their
\* thresholds, in its order.
LEMMA FiltersKeep ==
  ASSUME report \in Seq(Finding), flags \in Flags
  PROVE  Display = Within(report, {f \in ToSet(report) : Wanted(f)})
<1> DEFINE low == IF flags.verbose THEN "Info" ELSE "Low"
           least == flags.minSeverity
           shown == AtLeast(report, low)
           A == {f \in ToSet(report) : AtOrAbove(f.severity, low)}
           B == {f \in ToSet(shown) : AtOrAbove(f.severity, least)}
           W == {f \in ToSet(report) : Wanted(f)}
<1>1. shown = Within(report, A) /\ AtLeast(shown, least) = Within(shown, B)
  BY DEF AtLeast
<1>2. Display = IF Rank[least] > Rank["Info"] THEN AtLeast(shown, least) ELSE shown
  BY DEF Display
<1>3. least \in Severity /\ flags.verbose \in BOOLEAN
  BY DEF Flags
<1>4. \A f \in ToSet(report) : f.severity \in Severity
  <2>1. \A i \in DOMAIN report : report[i] \in Finding
    OBVIOUS
  <2>2. \A f \in Finding : f.severity \in Severity
    BY DEF Finding
  <2> QED BY <2>1, <2>2 DEF ToSet
<1>5. \A a \in Severity : AtOrAbove(a, "Info") /\ (AtOrAbove(a, "Low") <=> a # "Info")
  BY DEF AtOrAbove, Severity, Rank
<1>6. \A a \in Severity : ~(Rank[least] > Rank["Info"]) => AtOrAbove(a, least)
  BY <1>3 DEF AtOrAbove, Severity, Rank
<1>7. A = {f \in ToSet(report) : flags.verbose \/ f.severity # "Info"}
  BY <1>3, <1>4, <1>5
<1>8. ToSet(shown) = A
  <2>1. ToSet(report) \cap A = A
    OBVIOUS
  <2> HIDE DEF A, shown
  <2> QED BY <1>1, <2>1, WithinMembers
<1>9. B = {f \in A : AtOrAbove(f.severity, least)}
  BY <1>8
<1>10. Within(shown, B) = Within(report, A \cap B)
  <2> HIDE DEF A, B, shown
  <2> QED BY <1>1, WithinTwice
<1>11. CASE Rank[least] > Rank["Info"]
  <2>1. A \cap B = W
    <3> HIDE DEF A, B, shown
    <3>1. A \cap B = {f \in A : AtOrAbove(f.severity, least)}
      BY <1>9
    <3> QED BY <1>7, <3>1 DEF Wanted
  <2> QED BY <1>1, <1>2, <1>10, <1>11, <2>1
<1>12. CASE ~(Rank[least] > Rank["Info"])
  <2>1. A = W
    <3> HIDE DEF A
    <3> QED BY <1>4, <1>6, <1>7, <1>12 DEF Wanted
  <2> QED BY <1>1, <1>2, <1>12, <2>1
<1> QED BY <1>11, <1>12

\* What is displayed of a finished scan is what the user asked to see of all that
\* the checks returned, no more and no less, in the order they returned it in
\* (scan.go:405-415, 442-450).
THEOREM DisplaySound == Spec => []DisplayIsTheFilteredReport
<1>1. IInv /\ EveryCheckInTurn /\ DisplayFollows => DisplayIsTheFilteredReport
  <2> SUFFICES ASSUME IInv, EveryCheckInTurn, DisplayFollows, main = "exited", message = "none"
               PROVE  displayed = Within(Found, {f \in EverFound : Wanted(f)})
    BY DEF DisplayIsTheFilteredReport
  <2>1. displayed = Display /\ report = Found
    BY DEF DisplayFollows, EveryCheckInTurn
  <2>2. ToSet(report) = EverFound /\ report \in Seq(Finding) /\ flags \in Flags
    BY DEF IInv, ReportIsWhole, ScanTypes
  <2>3. Display = Within(report, {f \in ToSet(report) : Wanted(f)})
    BY <2>2, FiltersKeep, Zenon
  <2> QED BY <2>1, <2>2, <2>3
<1> QED BY <1>1, SessionHolds, InvariantHolds, PTL
=============================================================================
