------------------------------ MODULE LiveNode ------------------------------
(***************************************************************************)
(* The node a live scan looks at, as far as the checks can tell it apart,  *)
(* and what may happen to it between two calls of a scan.  The node is not *)
(* part of the repository: its moves are those of a Lightning node.        *)
(***************************************************************************)
EXTENDS LiveChecks, FiniteSets

CONSTANTS
  Amounts,          \* The local balances a channel may have.
  HtlcCounts,       \* The numbers of pending HTLCs of a channel.
  InfoChanges       \* The infos the node may come to answer with.

Infos == [version : Versions, syncedToChain : BOOLEAN, syncedToGraph : BOOLEAN, numPeers : Nat]

ASSUME NodeAssumption ==
  /\ IsFiniteSet(Channels)
  /\ Amounts \subseteq Nat /\ 0 \in Amounts
  /\ HtlcCounts \subseteq Nat /\ 0 \in HtlcCounts
  /\ InfoChanges \subseteq Infos
  /\ \A c \in Channels : terms[c].capacity \in Amounts

VARIABLES
  info,             \* What GetInfo answers.
  wallet,           \* The confirmed balance.
  open,             \* The open channels.
  local,            \* The local balance of each channel, 0 if it is not open.
  htlcs,            \* Its number of pending HTLCs, 0 if it is not open.
  limbo             \* What is locked up in each channel being force-closed.

nodeVars == <<info, wallet, open, local, htlcs, limbo>>

NodeTypeOK ==
  /\ info \in Infos
  /\ wallet \in 0..MaxInt
  /\ open \subseteq Channels
  /\ local \in [Channels -> Amounts] /\ \A c \in Channels \ open : local[c] = 0
  /\ \A c \in Channels : local[c] <= terms[c].capacity
  /\ htlcs \in [Channels -> HtlcCounts] /\ \A c \in Channels \ open : htlcs[c] = 0
  /\ limbo \in [Channels -> Amounts]

\* What a perfect observer sees, all of it at once.
NodeNow == [info |-> info, wallet |-> wallet, open |-> open, local |-> local,
            htlcs |-> htlcs, limbo |-> limbo]

\* A channel that is not force-closed with something in limbo is not pending.
Pending(node) == {c \in Channels : node.limbo[c] > 0}

-----------------------------------------------------------------------------
(* Moves.  There are fewer satoshis than an int64 has numbers. *)

\* The funds of a new channel come from the wallet.
OpenChannel(c) ==
  /\ c \notin open /\ limbo[c] = 0
  /\ terms[c].capacity <= wallet
  /\ open' = open \cup {c}
  /\ local' = [local EXCEPT ![c] = terms[c].capacity]
  /\ wallet' = wallet - terms[c].capacity
  /\ UNCHANGED <<info, htlcs, limbo>>

\* Both sides agree: the balance is back in the wallet.
CloseChannel(c) ==
  /\ c \in open /\ htlcs[c] = 0 /\ wallet + local[c] <= MaxInt
  /\ open' = open \ {c}
  /\ local' = [local EXCEPT ![c] = 0]
  /\ wallet' = wallet + local[c]
  /\ UNCHANGED <<info, htlcs, limbo>>

\* One side does not: the balance is locked up first.
ForceClose(c) ==
  /\ c \in open
  /\ open' = open \ {c}
  /\ limbo' = [limbo EXCEPT ![c] = local[c]]
  /\ local' = [local EXCEPT ![c] = 0]
  /\ htlcs' = [htlcs EXCEPT ![c] = 0]
  /\ UNCHANGED <<info, wallet>>

Sweep(c) ==
  /\ limbo[c] > 0 /\ wallet + limbo[c] <= MaxInt
  /\ wallet' = wallet + limbo[c]
  /\ limbo' = [limbo EXCEPT ![c] = 0]
  /\ UNCHANGED <<info, open, local, htlcs>>

\* A payment is sent or received.
Pay(c) ==
  /\ c \in open
  /\ \E amount \in Amounts :
       /\ amount <= terms[c].capacity /\ amount # local[c]
       /\ local' = [local EXCEPT ![c] = amount]
  /\ UNCHANGED <<info, wallet, open, htlcs, limbo>>

ForwardHtlcs(c) ==
  /\ c \in open
  /\ \E n \in HtlcCounts \ {htlcs[c]} : htlcs' = [htlcs EXCEPT ![c] = n]
  /\ UNCHANGED <<info, wallet, open, local, limbo>>

\* Peers come and go, the chain is synced or falls behind, the node is upgraded.
ChangeInfo ==
  /\ info' \in InfoChanges \ {info}
  /\ UNCHANGED <<wallet, open, local, htlcs, limbo>>

NodeMoves ==
  \/ \E c \in Channels : \/ OpenChannel(c) \/ CloseChannel(c) \/ ForceClose(c)
                         \/ Sweep(c) \/ Pay(c) \/ ForwardHtlcs(c)
  \/ ChangeInfo
=============================================================================
