---------------------------- MODULE ConfigChecks ----------------------------
(***************************************************************************)
(* The checks that read only the configuration (pkg/checks): each is a     *)
(* function from what ParseBytes returned to the findings it reports.  A   *)
(* finding is its ID and its module; what differs beyond that, titles with *)
(* values in them and severities, no property here depends on.             *)
(***************************************************************************)
EXTENDS LndConf

Finding(id, module) == [ID |-> id, Module |-> module]

\* "if condition { findings = append(findings, ...) }"
Report(condition, id, module) == IF condition THEN {Finding(id, module)} ELSE {}

-----------------------------------------------------------------------------
(* Addresses.  The host of each address that net.SplitHostPort splits. *)

\* The host of ":10009".
NoHost == ""

SplitHostPort ==
  {<<"127.0.0.1:10009", "127.0.0.1">>, <<"127.0.0.1:8080", "127.0.0.1">>,
   <<"127.0.0.1:9735", "127.0.0.1">>, <<"[::1]:10009", "::1">>,
   <<"0.0.0.0:10009", "0.0.0.0">>, <<"0.0.0.0:8080", "0.0.0.0">>,
   <<"0.0.0.0:9735", "0.0.0.0">>, <<":10009", NoHost>>, <<"[::]:10009", "::">>,
   <<"192.168.1.5:10009", "192.168.1.5">>, <<"192.168.1.5:8080", "192.168.1.5">>,
   <<"203.0.113.5:9735", "203.0.113.5">>, <<"203.0.113.6:9735", "203.0.113.6">>,
   <<"abc.onion:9735", "abc.onion">>}

\* The addresses without a port that start with a colon.
StartWithColon == {"::1", "::"}

isLoopback(addr) ==
  LET host == IF Has(SplitHostPort, addr) THEN For(SplitHostPort, addr) ELSE addr
  IN  host \in {"127.0.0.1", "::1", "localhost"}

isBoundToAllInterfaces(addr) ==
  IF Has(SplitHostPort, addr)
    THEN For(SplitHostPort, addr) \in {NoHost, "0.0.0.0", "::"}
    ELSE addr \in StartWithColon

isOnionAddress(addr) == addr \in {"abc.onion:9735", "abc.onion"}

Clearnet(cfg) == {ip \in Multi(cfg, "externalip") : ~isOnionAddress(ip)}

TorActive(cfg) == KeyBool(cfg, "tor.active")

-----------------------------------------------------------------------------
(* transport.go, exposure.go *)

CheckRPCBindAddress(cfg) ==
  Report(\E a \in Multi(cfg, "rpclisten") : isBoundToAllInterfaces(a), "T-3", "transport")
  \cup Report(\E a \in Multi(cfg, "restlisten") : isBoundToAllInterfaces(a), "T-3b", "transport")

CheckExternalIPLeak(cfg) ==
  Report(TorActive(cfg) /\ Clearnet(cfg) # {}, "T-5", "transport")

\* A listener that other machines reach, though not on every interface.
Exposed(cfg, key) ==
  /\ ~TorActive(cfg)
  /\ \E a \in Multi(cfg, key) : ~isLoopback(a) /\ ~isBoundToAllInterfaces(a)

CheckNetworkExposure(cfg) ==
  Report(/\ ~TorActive(cfg)
         /\ \E a \in Multi(cfg, "listen") : isBoundToAllInterfaces(a), "N-1", "transport")
  \cup Report(KeyBool(cfg, "nat"), "N-2", "transport")
  \cup Report(Cardinality(Clearnet(cfg)) > 1, "N-3", "transport")
  \cup Report(Exposed(cfg, "rpclisten"), "N-4", "transport")
  \cup Report(Exposed(cfg, "restlisten"), "N-5", "transport")

-----------------------------------------------------------------------------
(* privacy.go, and watchtower_connectivity.go without probing *)

CheckTorConfig(cfg) ==
  IF ~TorActive(cfg) THEN {} ELSE
    Report(KeyBool(cfg, "tor.skip-proxy-for-clearnet-targets"), "N-1", "privacy")
    \cup Report(~KeyBool(cfg, "tor.streamisolation"), "N-2", "privacy")
    \cup Report(~KeyBool(cfg, "tor.v3"), "N-1b", "privacy")
    \cup Report(~KeyBool(cfg, "tor.encryptkey"), "K-2", "keys")

CheckPrivacySettings(cfg) ==
  Report(~KeyBool(cfg, "protocol.option-scid-alias"), "N-3", "privacy")

CheckChannelSafety(cfg) ==
  Report(~KeyBool(cfg, "wtclient.active"), "C-1", "channels")
  \cup Report(KeyInt(cfg, "bitcoin.defaultchanconfs") \in 1..2, "C-2", "channels")
  \cup Report(KeyInt(cfg, "maxchansize") = 0, "C-4", "channels")
  \cup Report(KeyInt(cfg, "maxpendingchannels") = 0, "C-5", "channels")

\* parseTowerAddress: a public key, "@" and a host.
WellFormedTowers == {"03ab@tower:9911", "03cd@tower"}

CheckWatchtowerConnectivity(cfg) ==
  LET towers == Multi(cfg, "wtclient.private-tower-uris")
  IN  IF ~KeyBool(cfg, "wtclient.active") THEN {} ELSE
        Report(towers = {}, "C-6", "channels")
        \cup Report(\E t \in towers : t \notin WellFormedTowers, "C-9", "channels")

-----------------------------------------------------------------------------
(* policy.go *)

CheckChannelPolicy(cfg) ==
  Report(KeyBool(cfg, "allow-circular-route"), "P-1", "policy")
  \cup Report(~KeyBool(cfg, "rejectpush") /\ ~Explicit(cfg, "rejectpush"), "P-2", "policy")
  \cup Report(/\ Explicit(cfg, "default-remote-max-htlcs")
              /\ KeyInt(cfg, "default-remote-max-htlcs") > 100, "P-3", "policy")
  \cup Report(~KeyBool(cfg, "enable-upfront-shutdown"), "P-4", "policy")
  \cup Report(/\ Explicit(cfg, "max-cltv-expiry")
              /\ KeyInt(cfg, "max-cltv-expiry") > 2016, "P-5", "policy")
  \cup Report(Explicit(cfg, "minchansize") /\ KeyInt(cfg, "minchansize") < 20000, "P-6", "policy")

CheckBitcoinPolicy(cfg) ==
  Report(/\ Explicit(cfg, "bitcoin.timelockdelta")
         /\ KeyInt(cfg, "bitcoin.timelockdelta") < 40, "P-7", "policy")
  \cup Report(/\ Explicit(cfg, "bitcoin.minhtlc")
              /\ KeyInt(cfg, "bitcoin.minhtlc") <= 1, "P-8", "policy")
  \cup Report(KeyString(cfg, "bitcoin.estimatemode") = "ECONOMICAL", "P-9", "policy")

CheckPaymentSecurity(cfg) ==
  Report(KeyBool(cfg, "accept-keysend"), "P-10", "policy")
  \cup Report(KeyBool(cfg, "accept-amp"), "P-11", "policy")
  \cup Report(KeyBool(cfg, "requireinterceptor"), "P-12", "policy")
  \cup Report(KeyString(cfg, "restcors") = "*", "P-13", "access")

-----------------------------------------------------------------------------
(* resilience.go *)

CheckProtocolSecurity(cfg) ==
  Report(KeyBool(cfg, "protocol.zero-conf"), "R-1", "protocol")
  \cup Report(KeyBool(cfg, "protocol.no-anchors"), "R-2", "protocol")
  \cup Report(KeyBool(cfg, "protocol.wumbo-channels"), "R-3", "protocol")

CheckAutopilotSecurity(cfg) == Report(KeyBool(cfg, "autopilot.active"), "R-4", "policy")

CheckGossipSecurity(cfg) ==
  Report(/\ Explicit(cfg, "gossip.ban-threshold")
         /\ KeyInt(cfg, "gossip.ban-threshold") = 0, "R-5", "policy")

CheckTLSHardening(cfg) ==
  Report(KeyBool(cfg, "no-rest-tls"), "R-6", "transport")
  \cup Report(/\ Explicit(cfg, "tlsencryptkey")
              /\ ~KeyBool(cfg, "tlsencryptkey"), "R-7", "transport")

CheckDangerousFlagsExtended(cfg) ==
  Report(KeyBool(cfg, "wallet-unlock-allow-create"), "R-8", "access")

-----------------------------------------------------------------------------
(* access.go *)

CheckNoMacaroons(cfg) == Report(KeyBool(cfg, "no-macaroons"), "A-1", "access")

CheckDangerousFlags(cfg) ==
  Report(KeyBool(cfg, "noseedbackup"), "H-6a", "hygiene")
  \cup Report(KeyBool(cfg, "noencryptwallet"), "H-6b", "hygiene")
  \cup Report(KeyString(cfg, "debuglevel") \in {"trace", "debug"}, "H-4", "hygiene")
  \cup Report(KeyBool(cfg, "debughtlc"), "H-4b", "hygiene")
  \cup Report(Explicit(cfg, "trickledelay") /\ KeyInt(cfg, "trickledelay") = 0, "H-6c", "hygiene")
  \cup Report(KeyBool(cfg, "unsafe-disconnect"), "H-6d", "hygiene")

-----------------------------------------------------------------------------

\* What executeScanWithOptions adds to the report after reading the file.
ConfigFindings(cfg) ==
  CheckRPCBindAddress(cfg) \cup CheckExternalIPLeak(cfg) \cup CheckTLSHardening(cfg)
  \cup CheckNoMacaroons(cfg) \cup CheckDangerousFlags(cfg) \cup CheckDangerousFlagsExtended(cfg)
  \cup CheckTorConfig(cfg) \cup CheckPrivacySettings(cfg)
  \cup CheckChannelSafety(cfg) \cup CheckWatchtowerConnectivity(cfg)
  \cup CheckNetworkExposure(cfg)
  \cup CheckChannelPolicy(cfg) \cup CheckBitcoinPolicy(cfg) \cup CheckPaymentSecurity(cfg)
  \cup CheckProtocolSecurity(cfg) \cup CheckAutopilotSecurity(cfg) \cup CheckGossipSecurity(cfg)

FindingsIn(file) == ConfigFindings(ParseBytes(file))
=============================================================================
