-------------------------- MODULE MCConfigSuggest --------------------------
(***************************************************************************)
(* ConfigSuggest for the settings that a check, alone or with others,      *)
(* takes exception to, and some that it must not.                          *)
(***************************************************************************)
EXTENDS ConfigSuggest

\* One value that is reported, of every key that is looked at by itself.
Flags == {
  Set("no-macaroons", "true"), Set("debuglevel", "trace"), Set("debughtlc", "1"),
  Set("noseedbackup", "true"), Set("noencryptwallet", "true"),
  Set("unsafe-disconnect", "true"), Set("trickledelay", "0"), Set("no-rest-tls", "true"),
  Set("tlsencryptkey", "false"), Set("wallet-unlock-allow-create", "true"),
  Set("allow-circular-route", "true"), Set("rejectpush", "false"),
  Set("default-remote-max-htlcs", "101"), Set("max-cltv-expiry", "2017"),
  Set("minchansize", "19999"), Set("accept-keysend", "true"), Set("accept-amp", "true"),
  Set("requireinterceptor", "true"), Set("restcors", "*"),
  Set("bitcoin.defaultchanconfs", "1"), Set("bitcoin.minhtlc", "1"),
  Set("bitcoin.timelockdelta", "39"), Set("bitcoin.estimatemode", "ECONOMICAL"),
  Set("protocol.zero-conf", "true"), Set("protocol.wumbo-channels", "true"),
  Set("protocol.no-anchors", "true"), Set("gossip.ban-threshold", "0"),
  Set("autopilot.active", "true")}

\* The settings that are looked at together, repeated or not.
Network == {
  Set("nat", "true"), Set("tor.active", "true"),
  Set("tor.skip-proxy-for-clearnet-targets", "true"), Set("tor.streamisolation", "false"),
  Set("rpclisten", "127.0.0.1:10009"), Set("rpclisten", "192.168.1.5:10009"),
  Set("rpclisten", ":10009"), Set("rpclisten", "0.0.0.0"), Set("rpclisten", "::1"),
  Set("restlisten", "0.0.0.0:8080"), Set("listen", "0.0.0.0:9735"),
  Set("externalip", "203.0.113.5:9735"), Set("externalip", "203.0.113.6:9735"),
  Set("externalip", "abc.onion:9735")}

\* Towers, values that are no numbers, and other ways to write a setting.
Others == {
  Set("wtclient.active", "false"), Set("wtclient.private-tower-uris", "tower:9911"),
  Set("maxchansize", "large"), Set("minchansize", "small"), Set("maxpendingchannels", "3"),
  Bare("tor.active"), Bare("nat"), Bare("debughtlc"),
  OtherCase(Set("gossip.ban-threshold", "0")), OtherCase(Set("tor.active", "true"))}

MCEdits == Flags \cup Network \cup Others
=============================================================================
