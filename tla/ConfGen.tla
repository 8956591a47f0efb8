------------------------------ MODULE ConfGen ------------------------------
(***************************************************************************)
(* The lnd.conf that "lnaudit generate" writes (pkg/confgen/confgen.go):   *)
(* the settings each of its sections emits, without the comments and       *)
(* without the settings no check looks at.                                 *)
(***************************************************************************)
EXTENDS LndConf

\* "Watchtower" is whether a URI is given.  Network, profile and alias make a
\* difference only to settings that no check looks at.
Options == [Tor : BOOLEAN, Watchtower : BOOLEAN]

Keyval(key, value) == <<key, value>>

applicationSection(opts) ==
  <<Keyval("rpclisten", "127.0.0.1:10009"), Keyval("restlisten", "127.0.0.1:8080"),
    Keyval("debuglevel", "info")>>
  \o (IF opts.Tor THEN <<Keyval("listen", "127.0.0.1:9735")>> ELSE <<>>)

tlsSection == <<Keyval("tlsencryptkey", "true")>>

bitcoinSection ==
  <<Keyval("bitcoin.defaultchanconfs", "3"), Keyval("bitcoin.estimatemode", "CONSERVATIVE"),
    Keyval("bitcoin.timelockdelta", "80"), Keyval("bitcoin.minhtlc", "1000")>>

\* maxchansize and maxpendingchannels are emitted as comments.
channelSection ==
  <<Keyval("minchansize", "20000"), Keyval("default-remote-max-htlcs", "30"),
    Keyval("max-cltv-expiry", "2016"), Keyval("enable-upfront-shutdown", "true"),
    Keyval("rejectpush", "true")>>

protocolSection == <<Keyval("protocol.option-scid-alias", "true")>>

gossipSection == <<Keyval("gossip.ban-threshold", "100")>>

\* Mutant: the onion key is left unencrypted.
torSectionPlainKey ==
  <<Keyval("tor.active", "true"), Keyval("tor.v3", "true"),
    Keyval("tor.streamisolation", "true")>>

torSection ==
  <<Keyval("tor.active", "true"), Keyval("tor.v3", "true"),
    Keyval("tor.streamisolation", "true"), Keyval("tor.encryptkey", "true")>>

watchtowerSection(opts) ==
  <<Keyval("wtclient.active", "true")>>
  \o (IF opts.Watchtower THEN <<Keyval("wtclient.private-tower-uris", "03ab@tower:9911")>>
      ELSE <<>>)

-----------------------------------------------------------------------------

\* The settings that follow a section's header in the file.
Under(header, keyvals) ==
  [i \in DOMAIN keyvals |-> Setting(header, keyvals[i][1], keyvals[i][2])]

\* A header is written at the start of applicationSection, bitcoinSection,
\* protocolSection, torSection and watchtowerSection only: channelSection comes
\* under [Bitcoin] and gossipSection under [protocol].
Generate(opts) ==
  Under("Application Options", applicationSection(opts) \o tlsSection)
  \o Under("Bitcoin", bitcoinSection \o channelSection)
  \o Under("protocol", protocolSection \o gossipSection)
  \o (IF opts.Tor THEN Under("tor", torSection) ELSE <<>>)
  \o Under("wtclient", watchtowerSection(opts))
=============================================================================
