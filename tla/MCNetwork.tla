----------------------------- MODULE MCNetwork -----------------------------
(***************************************************************************)
(* The parts of a scan that ask the network: the watchtowers, the running  *)
(* node, and the strings in its answers.  They share nothing, so each is   *)
(* run from its own initial states while the others stand still.           *)
(***************************************************************************)
EXTENDS LiveScan, TowerProbe, Sanitizer

partVars == <<liveVars, towerVars, textVars>>

-----------------------------------------------------------------------------
(* Towers: all forms of a URI, and every list of at most three. *)

Named == [key |-> TRUE, host |-> "name", port |-> TRUE]

MCTowers ==
  {Named, [Named EXCEPT !.key = FALSE], [Named EXCEPT !.host = "none"],
   [Named EXCEPT !.host = "onion"], [Named EXCEPT !.host = "[v6]", !.port = FALSE]}

NoTowers == [active |-> FALSE, towers |-> <<>>, probe |-> TRUE]

MCTowerInputs ==
  {NoTowers} \cup [active : {TRUE}, towers : UNION {[1..n -> MCTowers] : n \in 0..3}, probe : BOOLEAN]

-----------------------------------------------------------------------------
(* A node with three channels, of 9, 4 and 0.6 million satoshis: the balances *)
(* of the first alone, or of the others with the wallet, can pass the limits. *)

MCTerms ==
  <<[capacity |-> 9000000, zeroConf |-> FALSE, remoteMaxHTLCs |-> 200],
    [capacity |-> 4000000, zeroConf |-> TRUE,  remoteMaxHTLCs |-> 30],
    [capacity |-> 600000,  zeroConf |-> FALSE, remoteMaxHTLCs |-> 199]>>

Healthy == [version |-> <<0, 18, 0>>, syncedToChain |-> TRUE, syncedToGraph |-> TRUE, numPeers |-> 3]

MCInfoChanges ==
  {[Healthy EXCEPT !.numPeers = 2], [Healthy EXCEPT !.numPeers = 0, !.syncedToGraph = FALSE],
   [Healthy EXCEPT !.version = <<0, 10, 9>>, !.syncedToChain = FALSE],
   [Healthy EXCEPT !.version = Unparsable]}

Node(i, w, o, l, h, b) ==
  [info |-> i, wallet |-> w, open |-> o, local |-> l, htlcs |-> h, limbo |-> b]

\* Four nodes, on both sides of the versions and thresholds that the checks test.
MCNodeInputs ==
  {Node(Healthy, 9500000, {3}, <<0, 0, 600000>>, <<0, 0, 0>>, <<0, 0, 0>>),
   Node(Healthy, 500000, {1, 2, 3}, <<9000000, 500000, 0>>, <<19, 19, 19>>, <<0, 0, 0>>),
   Node([Healthy EXCEPT !.version = <<0, 7, 1>>, !.numPeers = 1],
        6000000, {2, 3}, <<0, 4000000, 500000>>, <<0, 20, 19>>, <<500000, 0, 0>>),
   Node([Healthy EXCEPT !.version = <<0, 13, 2>>, !.syncedToChain = FALSE],
        0, {1}, <<4000000, 0, 0>>, <<0, 0, 0>>, <<0, 0, 0>>)}

GivenLimits(hot, node, cap) == [maxHotWallet |-> hot, maxNodeExposure |-> node, maxChannelCap |-> cap]

MCLimitInputs ==
  {GivenLimits(0, 0, 0), GivenLimits(5000000, 10000000, 8000000), GivenLimits(4500000, 4500000, 300000),
   GivenLimits(0, 9000000, 4000000), GivenLimits(9000000, 0, 0)}

-----------------------------------------------------------------------------
(* Every string of at most five runes. *)

MCTextInputs == UNION {[1..n -> Runes] : n \in 0..5}

-----------------------------------------------------------------------------

QuietLive ==
  /\ info = Healthy /\ wallet = 9500000 /\ open = {3}
  /\ limits = GivenLimits(0, 0, 0)
  /\ LiveInit

QuietTowers == given = NoTowers /\ TowerInit

QuietText == runes = <<>> /\ TextInit

Init == \/ LiveInit /\ QuietTowers /\ QuietText
        \/ QuietLive /\ TowerInit /\ QuietText
        \/ QuietLive /\ QuietTowers /\ TextInit

Next == \/ given = NoTowers /\ runes = <<>> /\ LiveNext /\ UNCHANGED <<towerVars, textVars>>
        \/ given # NoTowers /\ TowerNext /\ UNCHANGED <<liveVars, textVars>>
        \/ runes # <<>> /\ TextNext /\ UNCHANGED <<liveVars, towerVars>>

Spec == Init /\ [][Next]_partVars
=============================================================================
