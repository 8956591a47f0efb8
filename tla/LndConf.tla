------------------------------ MODULE LndConf ------------------------------
(***************************************************************************)
(* lnd.conf and what ParseBytes (pkg/config/config.go) reads from it.  A   *)
(* file is the sequence of its settings, each with the section it stands   *)
(* in.  Only the keys that a check looks at are here; values are strings,  *)
(* as in the file, from the sets that the checks tell apart.               *)
(***************************************************************************)
EXTENDS Integers, Sequences, SequencesExt, FiniteSets

ApplicationKeys ==
  {"no-macaroons", "debuglevel", "debughtlc", "noseedbackup", "noencryptwallet",
   "unsafe-disconnect", "trickledelay", "maxpendingchannels", "maxchansize", "nat",
   "no-rest-tls", "tlsencryptkey", "wallet-unlock-allow-create",
   "allow-circular-route", "rejectpush", "enable-upfront-shutdown",
   "default-remote-max-htlcs", "max-cltv-expiry", "minchansize", "accept-keysend",
   "accept-amp", "requireinterceptor", "restcors",
   "rpclisten", "restlisten", "listen", "externalip"}

\* The keys with a prefix stand in the section of that name.
BitcoinKeys ==
  {"bitcoin.defaultchanconfs", "bitcoin.minhtlc", "bitcoin.timelockdelta",
   "bitcoin.estimatemode"}
TorKeys ==
  {"tor.active", "tor.v3", "tor.encryptkey", "tor.streamisolation",
   "tor.skip-proxy-for-clearnet-targets"}
WtclientKeys == {"wtclient.active", "wtclient.private-tower-uris"}
ProtocolKeys ==
  {"protocol.option-scid-alias", "protocol.zero-conf", "protocol.wumbo-channels",
   "protocol.no-anchors"}
GossipKeys == {"gossip.ban-threshold"}
AutopilotKeys == {"autopilot.active"}

Key == ApplicationKeys \cup BitcoinKeys \cup TorKeys \cup WtclientKeys
         \cup ProtocolKeys \cup GossipKeys \cup AutopilotKeys

\* Where ParseBytes looks for a key.
SectionRead(key) ==
  CASE key \in ApplicationKeys -> "Application Options"
    [] key \in BitcoinKeys     -> "Bitcoin"
    [] key \in TorKeys         -> "tor"
    [] key \in WtclientKeys    -> "wtclient"
    [] key \in ProtocolKeys    -> "protocol"
    [] key \in GossipKeys      -> "gossip"
    [] key \in AutopilotKeys   -> "autopilot"

Section == {SectionRead(key) : key \in Key}

(***************************************************************************)
(* A setting.  "exact": section and key are spelled as ParseBytes spells   *)
(* them, not in another case.  "bare": the line is the key alone, without  *)
(* "=", which stands for true.                                             *)
(***************************************************************************)
Setting(section, key, value) ==
  [section |-> section, key |-> key, value |-> value, exact |-> TRUE, bare |-> FALSE]

\* A setting in the section it is read from.
Set(key, value) == Setting(SectionRead(key), key, value)

Bare(key) == [Set(key, "true") EXCEPT !.bare = TRUE]

OtherCase(setting) == [setting EXCEPT !.exact = FALSE]

-----------------------------------------------------------------------------
(* gopkg.in/ini.v1, as ParseBytes uses it *)

\* ini.ShadowLoad, which keeps repeated keys, rejects a line without "=".
ShadowLoads(file) == \A i \in DOMAIN file : ~file[i].bare

\* The values of a key, by the lines that give them.  Names are matched exactly
\* after ShadowLoad, and in any case after LoadSources with its options.
ValuesIn(file, key) ==
  [i \in {i \in DOMAIN file : /\ file[i].key = key /\ file[i].section = SectionRead(key)
                              /\ ShadowLoads(file) => file[i].exact}
     |-> file[i].value]

First(values) == values[Min(DOMAIN values)]

-----------------------------------------------------------------------------

\* Mutant: of a repeated key the first value is kept, never the others.
ParseBytesFirstOnly(file) ==
  [key \in Key |->
     LET values == ValuesIn(file, key)
     IN  IF values = <<>> THEN values ELSE Restrict(values, {Min(DOMAIN values)})]

\* The values known of each key.  Without ShadowLoad a repeated key has the
\* value it was given last, and no other.
ParseBytes(file) ==
  [key \in Key |->
     LET values == ValuesIn(file, key)
     IN  IF ShadowLoads(file) \/ values = <<>> THEN values
         ELSE Restrict(values, {Max(DOMAIN values)})]

\* Key.String: the first value, empty if there is none.
KeyString(cfg, key) == IF cfg[key] = <<>> THEN "" ELSE First(cfg[key])

Explicit(cfg, key) == KeyString(cfg, key) # ""

\* Key.Bool, whose error is dropped.
KeyBool(cfg, key) == KeyString(cfg, key) \in {"true", "1"}

\* A table of pairs, and what it has for x.
Has(table, x) == \E pair \in table : pair[1] = x
For(table, x) == (CHOOSE pair \in table : pair[1] = x)[2]

Numbers ==
  {<<"0", 0>>, <<"1", 1>>, <<"3", 3>>, <<"30", 30>>, <<"39", 39>>, <<"40", 40>>,
   <<"80", 80>>, <<"100", 100>>, <<"101", 101>>, <<"1000", 1000>>, <<"2016", 2016>>,
   <<"2017", 2017>>, <<"5000", 5000>>, <<"19999", 19999>>, <<"20000", 20000>>,
   <<"16777215", 16777215>>}

\* Key.Int, whose error is dropped: what is not a number counts as 0.
KeyInt(cfg, key) ==
  IF Has(Numbers, KeyString(cfg, key)) THEN For(Numbers, KeyString(cfg, key)) ELSE 0

\* readMulti.  Values that repeat are kept once, by ini.v1.
Multi(cfg, key) == Range(cfg[key]) \ {""}
=============================================================================
