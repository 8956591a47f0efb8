------------------------------ MODULE LiveScan ------------------------------
(***************************************************************************)
(* The live part of executeScanWithOptions (cmd/scan.go) over a node that  *)
(* goes on living: every check asks with one or two calls of its own       *)
(* (pkg/grpc/connect.go), and the node moves between any two of them.  A   *)
(* call may fail, or time out.                                             *)
(***************************************************************************)
EXTENDS LiveNode, SarifReport, Sequences, Scanner

CONSTANTS
  LimitInputs,      \* The limits given on the command line, 0 where none is.
  NodeInputs,       \* The states the node may be in when the scan starts.
  MaxEvents         \* How often the node moves, or fails a call, in a behaviour.

Limits == [maxHotWallet : Nat, maxNodeExposure : Nat, maxChannelCap : Nat]

ASSUME LiveScanAssumption ==
  /\ LimitInputs \subseteq Limits
  /\ MaxEvents \in Nat

\* The states the scan starts from are states of a node.
ASSUME NodeInputsAssumption ==
  \A node \in NodeInputs :
    /\ node.info \in Infos /\ node.wallet \in 0..MaxInt /\ node.open \subseteq Channels
    /\ node.local \in [Channels -> Amounts] /\ \A c \in Channels \ node.open : node.local[c] = 0
    /\ \A c \in Channels : node.local[c] <= terms[c].capacity
    /\ node.htlcs \in [Channels -> HtlcCounts] /\ \A c \in Channels \ node.open : node.htlcs[c] = 0
    /\ node.limbo \in [Channels -> Amounts]

VARIABLES
  limits,           \* The limits.
  check,            \* The check the scan has come to.
  listed,           \* What ListChannels answered a check that has another call to make.
  findings,         \* The findings added to the report so far.
  failed,           \* The checks that ended in a warning.
  events,           \* History: how often the node moved or failed a call.
  moved,            \* History: what moved in or out of channels since they were listed.
  seen              \* History: all states of the node since the scan started.

scanVars == <<limits, check, listed, findings, failed>>

history == <<events, moved, seen>>

liveVars == <<nodeVars, scanVars, history>>

liveChecks ==
  <<"version/CVE", "chain sync", "peer count", "force-close", "balance", "jamming",
    "zero-conf", "htlc-limits", "exposure-limits", "done">>

NotListed == [open |-> {}, local |-> [c \in Channels |-> 0], htlcs |-> [c \in Channels |-> 0],
              answered |-> FALSE]

LiveInit ==
  /\ \E node \in NodeInputs :
       /\ info = node.info /\ wallet = node.wallet /\ open = node.open
       /\ local = node.local /\ htlcs = node.htlcs /\ limbo = node.limbo
  /\ limits \in LimitInputs
  /\ check = 1
  /\ listed = NotListed
  /\ findings = {}
  /\ failed = {}
  /\ events = 0
  /\ moved = 0
  /\ seen = {NodeNow}

-----------------------------------------------------------------------------
(* Calls *)

\* ListChannels, as of now.
ChannelList == [open |-> open, local |-> local, htlcs |-> htlcs, answered |-> TRUE]

At(name) == liveChecks[check] = name

\* Without limits the last check is not in the list.
Given == limits.maxHotWallet > 0 \/ limits.maxNodeExposure > 0 \/ limits.maxChannelCap > 0

\* Mutant: the list of checks is never extended.
NextCheckSkippingLimits == check' = IF check = 8 THEN 10 ELSE check + 1

NextCheck == check' = IF check = 8 /\ ~Given THEN 10 ELSE check + 1

\* Mutant: the list is kept for the checks to come.
AddKeepingList(found) ==
  /\ findings' = findings \cup found
  /\ NextCheck
  /\ UNCHANGED <<listed, nodeVars, limits, failed, history>>

\* The check returns its findings.
Add(found) ==
  /\ findings' = findings \cup found
  /\ listed' = NotListed
  /\ NextCheck
  /\ UNCHANGED <<nodeVars, limits, failed, history>>

\* The check makes its first call of two.
ListFirst ==
  /\ listed' = ChannelList
  /\ moved' = 0
  /\ UNCHANGED <<nodeVars, limits, check, findings, failed, events, seen>>

\* Any call of any check may fail: the check returns the error, and the scan
\* goes on to the next with a warning.
CallFails ==
  /\ ~At("done")
  /\ events < MaxEvents /\ events' = events + 1
  /\ failed' = failed \cup {liveChecks[check]}
  /\ listed' = NotListed
  /\ NextCheck
  /\ UNCHANGED <<nodeVars, limits, findings, moved, seen>>

AskInfo == \/ At("version/CVE") /\ Add(CheckLndVersion(info))
           \/ At("chain sync") /\ Add(CheckChainSync(info))
           \/ At("peer count") /\ Add(CheckPeerCount(info))

AskPending == At("force-close") /\ Add(CheckPendingForceClose(Pending(NodeNow)))

AskChannels == \/ At("jamming") /\ Add(CheckChannelJamming(ChannelList))
               \/ At("zero-conf") /\ Add(CheckZeroConfChannels(ChannelList))
               \/ At("htlc-limits") /\ Add(CheckHighHTLCLimits(ChannelList))

ListForBalance == At("balance") /\ ~listed.answered /\ ListFirst

AskBalance == At("balance") /\ listed.answered /\ Add(CheckLargeLocalBalance(listed, wallet))

ListForLimits ==
  At("exposure-limits") /\ NeedsChannels(limits) /\ ~listed.answered /\ ListFirst

\* The wallet is asked for second.  Without a limit that needs it the check
\* looks at nothing but the list it has.
AskLimits ==
  /\ At("exposure-limits") /\ (NeedsChannels(limits) => listed.answered)
  /\ Add(CheckExposureLimits(limits, listed, wallet))

LiveStep == \/ AskInfo \/ AskPending \/ AskChannels \/ ListForBalance \/ AskBalance
            \/ ListForLimits \/ AskLimits \/ CallFails

-----------------------------------------------------------------------------
(* The node *)

Change(c) == IF local'[c] >= local[c] THEN local'[c] - local[c] ELSE local[c] - local'[c]

\* What a move moves in or out of channels: one channel at most changes.
Moved == IF local' = local THEN 0 ELSE Change(CHOOSE c \in Channels : local'[c] # local[c])

NodeStep ==
  /\ ~At("done")
  /\ events < MaxEvents /\ events' = events + 1
  /\ NodeMoves
  /\ moved' = moved + Moved
  /\ seen' = seen \cup {NodeNow'}
  /\ UNCHANGED scanVars

LiveNext == LiveStep \/ NodeStep

LiveSpec == LiveInit /\ [][LiveNext]_liveVars

-----------------------------------------------------------------------------
(* What the checks promise *)

LiveTypeOK ==
  /\ NodeTypeOK
  /\ limits \in Limits
  /\ check \in 1..10
  /\ listed.open \subseteq Channels /\ listed.local \in [Channels -> Amounts]
  /\ listed.htlcs \in [Channels -> HtlcCounts] /\ listed.answered \in BOOLEAN
  /\ listed.answered => At("balance") \/ At("exposure-limits")
  /\ events \in 0..MaxEvents
  /\ moved \in Nat

\* The first number that differs is smaller.
Older(version, other) ==
  \E i \in 1..3 : version[i] < other[i] /\ \A j \in 1..(i - 1) : version[j] = other[j]

\* The severity of a value above a limit, in numbers without a largest one.
Excess(limit, value) == IF value >= 2 * limit THEN "High" ELSE "Medium"

PendingHtlcs(node) == SumFunction([c \in node.open |-> node.htlcs[c]])

Exposure(node) == totalLocal(node.local) + node.wallet

\* What there is to say about a node, but for its exposure as a whole, if all
\* of it is seen at once.
Verdict(node) ==
  {Live(cve.id, cve.severity) : cve \in
     {v \in cveDatabase : node.info.version # Unparsable /\ Older(node.info.version, v.fixedIn)}}
  \cup (IF node.info.syncedToChain THEN {} ELSE {Live("L-1", "Critical")})
  \cup (IF node.info.syncedToGraph THEN {} ELSE {Live("L-2", "Medium")})
  \cup (IF node.info.numPeers >= 3 THEN {}
        ELSE {Live("L-3", IF node.info.numPeers > 0 THEN "Medium" ELSE "High")})
  \cup (IF \A c \in Channels : node.limbo[c] = 0 THEN {} ELSE {Live("L-4", "High")})
  \cup {OfChannel("L-5", "Medium", c) : c \in
         {d \in node.open : node.local[d] > minSignificantSats /\ 100 * node.local[d] > 80 * terms[d].capacity}}
  \cup {OfChannel("L-7", "High", c) : c \in {d \in node.open : node.htlcs[d] > 19}}
  \cup (IF PendingHtlcs(node) <= 50 \/ \E c \in node.open : node.htlcs[c] > 19 THEN {}
        ELSE {Live("L-8", "Medium")})
  \cup (IF \A c \in node.open : ~terms[c].zeroConf THEN {} ELSE {Live("L-9", "High")})
  \cup (IF \A c \in node.open : terms[c].remoteMaxHTLCs < 200 THEN {} ELSE {Live("L-10", "Medium")})
  \cup (IF limits.maxHotWallet \in 1..(node.wallet - 1)
        THEN {Live("L-11", Excess(limits.maxHotWallet, node.wallet))} ELSE {})
  \cup {OfChannel("L-12", Excess(limits.maxChannelCap, terms[c].capacity), c) : c \in
         {d \in node.open : limits.maxChannelCap \in 1..(terms[d].capacity - 1)}}

\* The two findings that add up the answers to two calls.
Torn == {"L-6", "L-13"}

CheckOf(f) ==
  CASE f.id \in {"L-1", "L-2"}           -> "chain sync"
    [] f.id = "L-3"                      -> "peer count"
    [] f.id = "L-4"                      -> "force-close"
    [] f.id \in {"L-5", "L-6"}           -> "balance"
    [] f.id \in {"L-7", "L-8"}           -> "jamming"
    [] f.id = "L-9"                      -> "zero-conf"
    [] f.id = "L-10"                     -> "htlc-limits"
    [] f.id \in {"L-11", "L-12", "L-13"} -> "exposure-limits"
    [] OTHER                             -> "version/CVE"

\* Whatever else happens to the node while it is looked at: what the report says
\* of it was true at some moment of the scan.  (pkg/checks/live.go,
\* live_extended.go, exposure_limits.go)
FindingsWereTrueOnce ==
  \A f \in findings : f.id \in Torn \/ \E node \in seen : f \in Verdict(node)

\* What was true of the node all through the scan is in the report, or the check
\* that looks for it has ended in a warning.
LastingConditionsAreReported ==
  At("done") =>
    \A f \in UNION {Verdict(node) : node \in seen} :
      (\A node \in seen : f \in Verdict(node)) => f \in findings \/ CheckOf(f) \in failed

\* A report of the exposure, or its absence, is right but for what has moved.
IsClose(id, threshold) ==
  IF \E f \in findings' : f.id = id THEN Exposure(NodeNow) > threshold - moved
                                    ELSE Exposure(NodeNow) <= threshold + moved

\* ListChannels and WalletBalance are two calls, and funds that move in between
\* are counted twice or not at all.  The exposure a check counts is off by what
\* moved in or out of channels since it listed them, and by no more: it reports
\* no exposure that is further below the threshold, and misses none that is
\* further above.  (live.go:144-193, exposure_limits.go:44-115)
ExposureOffByWhatMoved ==
  [][ /\ AskBalance => IsClose("L-6", highExposure)
      /\ AskLimits /\ limits.maxNodeExposure > 0 => IsClose("L-13", limits.maxNodeExposure)
    ]_liveVars

\* Pressure is never passed over: when the check of it has looked at a node with
\* more than 50 pending HTLCs, one of its two findings is there, although the
\* one for the total gives way to the one for a channel.  (live_extended.go:25-61)
PressureIsReported ==
  [][ At("jamming") /\ check' # check /\ PendingHtlcs(NodeNow) > 50 =>
        "jamming" \in failed' \/ \E f \in findings' : f.id \in {"L-7", "L-8"} ]_liveVars

\* The wallet is part of the exposure, in two findings with limits of their own:
\* a wallet above its limit means an exposure above any limit that is no higher,
\* and no less severe.  (exposure_limits.go:54-115)
LimitsAgree ==
  \A f \in findings :
    f.id = "L-11" /\ limits.maxNodeExposure \in 1..limits.maxHotWallet =>
      \E g \in findings : g.id = "L-13" /\ AtOrAbove(g.severity, f.severity)

\* No two findings of one live scan are one alert to a tool that reads the report:
\* a check finds the same thing twice only of two channels, whose numbers are in
\* the titles.  Of the checks of files this is not so.  (sarif.go:203-224)
AlertsAreDistinct ==
  \A f, g \in findings : sarifStableFingerprint(f) = sarifStableFingerprint(g) => f = g
=============================================================================
