----------------------------- MODULE LiveChecks -----------------------------
(***************************************************************************)
(* The checks of the running node (pkg/checks/live.go, live_extended.go,   *)
(* exposure_limits.go, cves.go): what each of them finds in the answers to *)
(* its calls.  Amounts are satoshis.                                       *)
(***************************************************************************)
EXTENDS Integers, Functions

CONSTANTS
  Channels,         \* The channels the node may have: numbers, as channel IDs are.
  terms,            \* What each channel was opened with.
  MaxInt            \* math.MaxInt64

ASSUME ChannelsAssumption ==
  /\ Channels \subseteq Nat \ {0}
  /\ terms \in [Channels -> [capacity : Nat, zeroConf : BOOLEAN, remoteMaxHTLCs : Nat]]
  /\ MaxInt \in Nat /\ \A c \in Channels : terms[c].capacity <= MaxInt

\* A finding; channel is 0 in one that is not about a channel.
OfChannel(id, severity, c) ==
  [id |-> id, module |-> "live", severity |-> severity, channel |-> c]

Live(id, severity) == OfChannel(id, severity, 0)

-----------------------------------------------------------------------------
(* GetInfo *)

cveDatabase ==
  {[id |-> "L-CVE-CVE-2019-12999", severity |-> "Critical", fixedIn |-> <<0, 7, 1>>],
   [id |-> "L-CVE-CVE-2020-26895", severity |-> "Critical", fixedIn |-> <<0, 11, 0>>],
   [id |-> "L-CVE-CVE-2020-26896", severity |-> "High",     fixedIn |-> <<0, 10, 0>>],
   [id |-> "L-CVE-CVE-2021-41593", severity |-> "Critical", fixedIn |-> <<0, 13, 3>>],
   [id |-> "L-CVE-CVE-2023-40231", severity |-> "High",     fixedIn |-> <<0, 17, 0>>]}

\* What parseVersion makes of a version: its three numbers, or nothing.
Unparsable == <<>>

Versions == {Unparsable} \cup (Nat \X Nat \X Nat)

versionBefore(a, b) ==
  /\ a # Unparsable /\ b # Unparsable
  /\ \/ a[1] < b[1]
     \/ a[1] = b[1] /\ a[2] < b[2]
     \/ a[1] = b[1] /\ a[2] = b[2] /\ a[3] < b[3]

CheckLndVersion(info) ==
  {Live(cve.id, cve.severity) : cve \in {v \in cveDatabase : versionBefore(info.version, v.fixedIn)}}

CheckChainSync(info) ==
  {f \in {Live("L-1", "Critical")} : ~info.syncedToChain}
    \cup {f \in {Live("L-2", "Medium")} : ~info.syncedToGraph}

CheckPeerCount(info) ==
  {f \in {Live("L-3", "High")} : info.numPeers = 0}
    \cup {f \in {Live("L-3", "Medium")} : info.numPeers \in 1..2}

-----------------------------------------------------------------------------
(* PendingChannels and ListChannels                                        *)
(*                                                                         *)
(* A list has the open channels, and the local balance and pending HTLCs   *)
(* of every channel, 0 for one that is not open.                           *)

CheckPendingForceClose(pending) == {f \in {Live("L-4", "High")} : pending # {}}

\* Mutant: the heaviest channel stands for all of them.
CheckChannelJammingOfOne(list) ==
  LET jammed == {c \in list.open : list.htlcs[c] >= 20}
  IN  {OfChannel("L-7", "High", c) : c \in jammed}
        \cup {f \in {Live("L-8", "Medium")} : jammed = {} /\ \E c \in list.open : list.htlcs[c] > 50}

CheckChannelJamming(list) ==
  LET jammed == {c \in list.open : list.htlcs[c] >= 20}
  IN  {OfChannel("L-7", "High", c) : c \in jammed}
        \cup {f \in {Live("L-8", "Medium")} :
                SumFunctionOnSet(list.htlcs, list.open) > 50 /\ jammed = {}}

CheckZeroConfChannels(list) ==
  {f \in {Live("L-9", "High")} : \E c \in list.open : terms[c].zeroConf}

CheckHighHTLCLimits(list) ==
  {f \in {Live("L-10", "Medium")} : \E c \in list.open : terms[c].remoteMaxHTLCs >= 200}

-----------------------------------------------------------------------------
(* ListChannels and WalletBalance *)

minSignificantSats == 500000

highExposure == 10000000

totalLocal(local) == SumFunction(local)

\* Mutant: the capacity of a channel is taken for the node's own.
totalExposureOfCapacity(list, wallet) ==
  SumFunction([c \in list.open |-> terms[c].capacity]) + wallet

totalExposure(list, wallet) == totalLocal(list.local) + wallet

\* The ratio of a channel without capacity is not taken.
CheckLargeLocalBalance(list, wallet) ==
  {OfChannel("L-5", "Medium", c) :
     c \in {d \in list.open : /\ terms[d].capacity # 0
                              /\ 5 * list.local[d] > 4 * terms[d].capacity
                              /\ list.local[d] > minSignificantSats}}
    \cup {f \in {Live("L-6", "Info")} : totalExposure(list, wallet) > highExposure}

\* The values of a signed integer.
Int64 == -(MaxInt + 1)..MaxInt

\* threshold * 2 wraps around.
Twice(threshold) ==
  LET product == threshold * 2
  IN  IF product > MaxInt THEN product - 2 * (MaxInt + 1)
      ELSE IF product < -(MaxInt + 1) THEN product + 2 * (MaxInt + 1)
      ELSE product

\* Mutant: twice a large threshold is negative.
atLeastDoubleWrapping(value, threshold) ==
  threshold > 0 /\ value >= Twice(threshold)

atLeastDouble(value, threshold) ==
  /\ threshold > 0
  /\ threshold <= MaxInt \div 2
  /\ value >= Twice(threshold)

\* A finding about a value above its limit; a limit that is not positive is none.
Above(limit, value, id, c) ==
  IF limit > 0 /\ value > limit
    THEN {OfChannel(id, IF atLeastDouble(value, limit) THEN "High" ELSE "Medium", c)}
    ELSE {}

\* The balances of the channels count only towards the limits that need them.
NeedsChannels(limits) == limits.maxChannelCap > 0 \/ limits.maxNodeExposure > 0

\* Mutant: the whole exposure is never severe.
CheckExposureLimitsMildly(limits, list, wallet) ==
  Above(limits.maxHotWallet, wallet, "L-11", 0)
    \cup (UNION {Above(limits.maxChannelCap, terms[c].capacity, "L-12", c) : c \in list.open})
    \cup {f \in {Live("L-13", "Medium")} :
            limits.maxNodeExposure > 0 /\ totalExposure(list, wallet) > limits.maxNodeExposure}

CheckExposureLimits(limits, list, wallet) ==
  Above(limits.maxHotWallet, wallet, "L-11", 0)
    \cup (UNION {Above(limits.maxChannelCap, terms[c].capacity, "L-12", c) : c \in list.open})
    \cup Above(limits.maxNodeExposure, totalExposure(list, wallet), "L-13", 0)
=============================================================================
