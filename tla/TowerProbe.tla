----------------------------- MODULE TowerProbe -----------------------------
(***************************************************************************)
(* CheckWatchtowerConnectivity (pkg/checks/watchtower_connectivity.go):    *)
(* one tower after the other is dialled, and four counters make the        *)
(* verdict.                                                                *)
(*                                                                         *)
(* Of a tower URI the model keeps what parseTowerAddress tells apart.  A   *)
(* tower answers or it does not: each dial is a choice.                    *)
(***************************************************************************)
EXTENDS Integers, Sequences, FiniteSets

CONSTANT TowerInputs    \* What the scan is asked to check.

HostForms == {"none", "name", "onion", "v6", "[v6]"}

\* <key>@<host>:<port>: any of the three may be missing.
Towers == [key : BOOLEAN, host : HostForms, port : BOOLEAN]

\* cfg.WatchtowerClient, and the flag --probe-watchtowers.
Inputs == [active : BOOLEAN, towers : Seq(Towers), probe : BOOLEAN]

ASSUME TowerAssumption == TowerInputs \subseteq Inputs

VARIABLES
  given,            \* What the check was called with.
  visited,          \* How many towers the loop is through with.
  reachable, unreachable, onionOnly, malformed,
  verdict,          \* The findings, or that there is no verdict yet.
  answered          \* History: the towers that took a connection.

counters == <<reachable, unreachable, onionOnly, malformed>>

towerVars == <<given, visited, counters, verdict, answered>>

NoVerdict == {"none yet"}

TowerInit ==
  /\ given \in TowerInputs
  /\ visited = 0
  /\ reachable = 0 /\ unreachable = 0 /\ onionOnly = 0 /\ malformed = 0
  /\ verdict = NoVerdict
  /\ answered = {}

-----------------------------------------------------------------------------
(* Addresses *)

\* parseTowerAddress: without a port, or with colons that make it ambiguous,
\* all that follows the key is the host, and the port is 9911.
WellFormed(tower) == tower.key /\ tower.host # "none"

Onion(tower) == tower.host = "onion"

\* JoinHostPort puts the brackets of an IPv6 address around a host that has
\* them already, if SplitHostPort has not taken them off.
Dialable(tower) == tower.host # "[v6]" \/ tower.port

-----------------------------------------------------------------------------
(* The loop *)

Tower == given.towers[visited + 1]

Looping == verdict = NoVerdict /\ given.active /\ visited < Len(given.towers)

Visit == visited' = visited + 1 /\ UNCHANGED <<given, verdict>>

SkipMalformed ==
  /\ Looping /\ ~WellFormed(Tower)
  /\ malformed' = malformed + 1
  /\ Visit /\ UNCHANGED <<reachable, unreachable, onionOnly, answered>>

SkipOnion ==
  /\ Looping /\ WellFormed(Tower) /\ Onion(Tower)
  /\ onionOnly' = onionOnly + 1
  /\ Visit /\ UNCHANGED <<reachable, unreachable, malformed, answered>>

SkipUnprobed ==
  /\ Looping /\ WellFormed(Tower) /\ ~Onion(Tower) /\ ~given.probe
  /\ Visit /\ UNCHANGED <<counters, answered>>

Dial ==
  /\ Looping /\ WellFormed(Tower) /\ ~Onion(Tower) /\ given.probe
  /\ \/ /\ Dialable(Tower)
        /\ reachable' = reachable + 1 /\ answered' = answered \cup {visited + 1}
        /\ UNCHANGED unreachable
     \/ /\ unreachable' = unreachable + 1
        /\ UNCHANGED <<reachable, answered>>
  /\ Visit /\ UNCHANGED <<onionOnly, malformed>>

\* Mutant: malformed URIs are forgotten where the counters must add up.
ProbeFindingsOfOnion ==
  IF reachable = 0 /\ onionOnly > 0 /\ onionOnly = Len(given.towers) THEN {"C-7"}
  ELSE IF reachable = 0 THEN {"C-8"}
  ELSE IF unreachable > 0 THEN {"C-13"}
  ELSE {}

\* What is said about the towers that were probed: one of three findings or none.
ProbeFindings ==
  IF reachable = 0 /\ onionOnly > 0 /\ onionOnly + malformed = Len(given.towers) THEN {"C-7"}
  ELSE IF reachable = 0 THEN {"C-8"}
  ELSE IF unreachable > 0 THEN {"C-13"}
  ELSE {}

ReturnFindings ==
  /\ verdict = NoVerdict
  /\ ~given.active \/ visited = Len(given.towers)
  /\ verdict' = IF ~given.active THEN {}
                ELSE IF given.towers = <<>> THEN {"C-6"}
                ELSE (IF malformed > 0 THEN {"C-9"} ELSE {})
                       \cup (IF given.probe THEN ProbeFindings ELSE {})
  /\ UNCHANGED <<given, visited, counters, answered>>

TowerNext ==
  SkipMalformed \/ SkipOnion \/ SkipUnprobed \/ Dial \/ ReturnFindings

TowerSpec == TowerInit /\ [][TowerNext]_towerVars

-----------------------------------------------------------------------------
(* Properties *)

Numbers == DOMAIN given.towers

Malformed == {i \in Numbers : ~WellFormed(given.towers[i])}

Clearnet == {i \in Numbers : WellFormed(given.towers[i]) /\ ~Onion(given.towers[i])}

\* The verdict on the towers, stated without counters.
\*
\* Silence of a check that probes means that there is a tower, that all are well
\* formed, and that every one outside Tor took a connection, at least one did.
\* No tower that answers is reported, and only if none does is the node said to
\* be without any.  (watchtower_connectivity.go:20-122)
TowersAreJudgedOneByOne ==
  verdict # NoVerdict =>
    /\ "C-6" \in verdict <=> given.active /\ Numbers = {}
    /\ "C-9" \in verdict <=> given.active /\ Malformed # {}
    /\ "C-7" \in verdict <=>
         given.active /\ given.probe /\ Clearnet = {} /\ Numbers \ Malformed # {}
    /\ "C-8" \in verdict <=>
         /\ given.active /\ given.probe /\ Numbers # {}
         /\ answered = {} /\ (Clearnet # {} \/ Malformed = Numbers)
    /\ "C-13" \in verdict <=>
         given.active /\ given.probe /\ answered # {} /\ Clearnet \ answered # {}
    /\ given.active /\ given.probe /\ verdict = {} => Clearnet # {} /\ answered = Clearnet
=============================================================================
