--------------------------- MODULE ConfigSuggest ---------------------------
(***************************************************************************)
(* An operator's work on lnd.conf with "lnaudit generate" and "lnaudit     *)
(* suggest-config" (cmd/generate.go, cmd/suggest_config.go,                *)
(* pkg/confgen/suggest.go): write a file, or let it be generated, edit it, *)
(* have it scanned, apply the suggested patch, line by line or whole, and  *)
(* have the result scanned again.                                          *)
(*                                                                         *)
(* The findings are those of the configuration.  Others lead to manual     *)
(* actions at most, and applying a patch does not change them.             *)
(***************************************************************************)
EXTENDS ConfigChecks, ConfGen, Lists

CONSTANTS
  Edits,            \* The settings an operator may add to a file.
  MaxEdits,         \* Bound: how many the operator adds.
  MaxRuns           \* Bound: how often suggest-config is run.

ASSUME ConfigAssumption == MaxEdits \in Nat /\ MaxRuns \in Nat

VARIABLES
  file,             \* lnd.conf.
  findings,         \* Findings of the last run of suggest-config.
  suggestions,      \* What it suggests, by key.
  manualActions,    \* What it asks the operator to do by hand.
  phase,
  edits,            \* How many settings the operator has added.
  runs,             \* How often suggest-config was run.
  (* Histories, read by the properties only. *)
  scanned,          \* The file of the last run.
  before,           \* The file of the run before it.
  applied           \* The suggestions applied between the two.

vars == <<file, findings, suggestions, manualActions, phase, edits, runs, scanned, before,
          applied>>

-----------------------------------------------------------------------------
(* SuggestFromFindings *)

\* The findings that lead to a setting, by ID, with its key and value.
Suggested == {
  <<"A-1", "no-macaroons", "false">>,
  <<"C-1", "wtclient.active", "true">>,
  <<"C-2", "bitcoin.defaultchanconfs", "3">>,
  <<"C-4", "maxchansize", "16777215">>,
  <<"C-5", "maxpendingchannels", "1">>,
  <<"H-4", "debuglevel", "info">>,
  <<"H-4b", "debughtlc", "false">>,
  <<"H-6b", "noencryptwallet", "false">>,
  <<"H-6c", "trickledelay", "5000">>,
  <<"H-6d", "unsafe-disconnect", "false">>,
  <<"K-2", "tor.encryptkey", "true">>,
  <<"N-1", "tor.skip-proxy-for-clearnet-targets", "false">>,
  <<"N-1b", "tor.v3", "true">>,
  <<"N-2", "tor.streamisolation", "true">>,
  <<"N-3", "protocol.option-scid-alias", "true">>,
  <<"N-4", "rpclisten", "127.0.0.1:10009">>,
  <<"T-3", "rpclisten", "127.0.0.1:10009">>,
  <<"N-5", "restlisten", "127.0.0.1:8080">>,
  <<"T-3b", "restlisten", "127.0.0.1:8080">>,
  <<"P-1", "allow-circular-route", "false">>,
  <<"P-2", "rejectpush", "true">>,
  <<"P-3", "default-remote-max-htlcs", "30">>,
  <<"P-4", "enable-upfront-shutdown", "true">>,
  <<"P-5", "max-cltv-expiry", "2016">>,
  <<"P-6", "minchansize", "20000">>,
  <<"P-7", "bitcoin.timelockdelta", "80">>,
  <<"P-8", "bitcoin.minhtlc", "1000">>,
  <<"P-9", "bitcoin.estimatemode", "CONSERVATIVE">>,
  <<"P-12", "requireinterceptor", "false">>,
  <<"R-1", "protocol.zero-conf", "false">>,
  <<"R-2", "protocol.no-anchors", "false">>,
  <<"R-3", "protocol.wumbo-channels", "false">>,
  <<"R-4", "autopilot.active", "false">>,
  <<"R-5", "gossip.ban-threshold", "100">>,
  <<"R-6", "no-rest-tls", "false">>,
  <<"R-7", "tlsencryptkey", "true">>,
  <<"R-8", "wallet-unlock-allow-create", "false">>}

\* The IDs that lead to a manual action instead, or besides.
Manual == {"C-1", "P-13", "T-5"}

\* One suggestion for each key.  Findings that share a key agree on its value.
SuggestionsFrom(fs) ==
  LET hits == {s \in Suggested : \E f \in fs : f.ID = s[1]}
  IN  [key \in {s[2] : s \in hits} |->
         [Value |-> (CHOOSE s \in hits : s[2] = key)[3],
          Source |-> {s[1] : s \in {h \in hits : h[2] = key}}]]

\* Mutant: what has a suggestion needs no manual action.
ManualActionsUnlessSuggested(fs) ==
  ({f.ID : f \in fs} \cap Manual) \ {s[1] : s \in Suggested}

ManualActionsFrom(fs) == {f.ID : f \in fs} \cap Manual

\* Mutant: the case of the Tor keys is missing.
sectionForKeyWithoutTor(key) ==
  CASE key \in BitcoinKeys   -> "Bitcoin"
    [] key \in ProtocolKeys  -> "protocol"
    [] key \in GossipKeys    -> "gossip"
    [] key \in AutopilotKeys -> "autopilot"
    [] key \in WtclientKeys  -> "wtclient"
    [] OTHER                 -> "Application Options"

sectionForKey(key) ==
  CASE key \in BitcoinKeys   -> "Bitcoin"
    [] key \in ProtocolKeys  -> "protocol"
    [] key \in GossipKeys    -> "gossip"
    [] key \in AutopilotKeys -> "autopilot"
    [] key \in TorKeys       -> "tor"
    [] key \in WtclientKeys  -> "wtclient"
    [] OTHER                 -> "Application Options"

\* The order in which the patch has them: by section, then by key.
PatchOrder == <<
  "allow-circular-route", "debughtlc", "debuglevel", "default-remote-max-htlcs",
  "enable-upfront-shutdown", "max-cltv-expiry", "maxchansize", "maxpendingchannels",
  "minchansize", "no-macaroons", "no-rest-tls", "noencryptwallet", "rejectpush",
  "requireinterceptor", "restlisten", "rpclisten", "tlsencryptkey", "trickledelay",
  "unsafe-disconnect", "wallet-unlock-allow-create",
  "bitcoin.defaultchanconfs", "bitcoin.estimatemode", "bitcoin.minhtlc",
  "bitcoin.timelockdelta",
  "autopilot.active", "gossip.ban-threshold",
  "protocol.no-anchors", "protocol.option-scid-alias", "protocol.wumbo-channels",
  "protocol.zero-conf",
  "tor.encryptkey", "tor.skip-proxy-for-clearnet-targets", "tor.streamisolation", "tor.v3",
  "wtclient.active">>

-----------------------------------------------------------------------------

Init ==
  /\ file \in {<<>>} \cup {Generate(opts) : opts \in Options}
  /\ findings = {} /\ suggestions = <<>> /\ manualActions = {}
  /\ phase = "edit" /\ edits = 0 /\ runs = 0
  /\ scanned = <<>> /\ before = <<>> /\ applied = {}

\* The operator adds a setting.
Edit(setting) ==
  /\ phase = "edit"
  /\ edits < MaxEdits
  /\ file' = Append(file, setting)
  /\ edits' = edits + 1
  /\ UNCHANGED <<findings, suggestions, manualActions, phase, runs, scanned, before, applied>>

\* runSuggestConfig: scan, derive, print.  It does not touch lnd.conf.
SuggestConfig ==
  /\ phase \in {"edit", "applied"}
  /\ runs < MaxRuns
  /\ LET fs == FindingsIn(file)
     IN  /\ findings' = fs
         /\ suggestions' = SuggestionsFrom(fs)
         /\ manualActions' = ManualActionsFrom(fs)
  /\ runs' = runs + 1
  /\ phase' = "suggested"
  /\ before' = scanned
  /\ scanned' = file
  /\ UNCHANGED <<file, edits, applied>>

\* A line that says nothing to the parser.
Comment == Setting("", "", "")

\* The operator comments out what the file says of these keys, and adds what
\* the patch says of them, each under the header it has it under.
Merge(keys) ==
  [i \in DOMAIN file |-> IF file[i].key \in keys THEN Comment ELSE file[i]]
    \o LET patch == Within(PatchOrder, keys)
       IN  [i \in DOMAIN patch |-> Setting(sectionForKey(patch[i]), patch[i],
                                           suggestions[patch[i]].Value)]

Apply(keys) ==
  /\ phase = "suggested"
  /\ runs < MaxRuns
  /\ file' = Merge(keys)
  /\ applied' = keys
  /\ phase' = "applied"
  /\ UNCHANGED <<findings, suggestions, manualActions, edits, runs, scanned, before>>

\* One line of the patch, or all of it.
ApplyLine == \E key \in DOMAIN suggestions : Apply({key})
ApplyAll == DOMAIN suggestions # {} /\ Apply(DOMAIN suggestions)

Next ==
  \/ \E setting \in Edits : Edit(setting)
  \/ SuggestConfig
  \/ ApplyLine
  \/ ApplyAll

Spec == Init /\ [][Next]_vars
-----------------------------------------------------------------------------
(* Properties *)

\* The file was scanned, some of the patch applied, and the file scanned again.
Rescanned == phase = "suggested" /\ runs >= 2

EarlierFindings == FindingsIn(before)

\* The suggestion was made because of f, or of another finding with its ID.
SourceOf(f, key) == \E s \in Suggested : s[1] = f.ID /\ s[2] = key

\* IDs that two checks use for different problems (privacy.go:19, :33, :81 and
\* exposure.go:21, :35, :55).  SuggestFromFindings knows those of privacy.go.
SharedID(f) == f.ID \in {"N-1", "N-2", "N-3"} /\ f.Module = "transport"

\* Whatever line of the patch is applied, the finding it was suggested for is
\* gone from the next scan, except where checks share an ID.  This holds the
\* checks, the table of suggestions, the headers of the patch and the sections
\* that are read together.  (suggest.go:58-150, sectionForKey, ParseBytes)
PatchFixesItsFindings ==
  Rescanned => \A f \in findings \cap EarlierFindings, key \in applied :
    SourceOf(f, key) => SharedID(f)

\* What the file says when its bare keys are spelled out.
SpelledOut(conf) ==
  [i \in DOMAIN conf |->
     [section |-> conf[i].section, key |-> conf[i].key, value |-> conf[i].value,
      exact |-> conf[i].exact, bare |-> FALSE]]

\* Applying a patch, in part or whole, brings no new finding, with two
\* exceptions: the watchtower client it activates needs towers, as its manual
\* actions say, and once the last bare key is replaced the parser reads
\* what it had skipped until then.
PatchCausesNothingNew ==
  Rescanned => \A f \in findings \ EarlierFindings :
    \/ f.ID \in {"C-6", "C-9"} /\ "wtclient.active" \in applied
       /\ "C-1" \in ManualActionsFrom(EarlierFindings)
    \/ f \in FindingsIn(SpelledOut(before))

\* The addresses at which other machines reach a listener.
Reachable == {"0.0.0.0:10009", ":10009", "[::]:10009", "0.0.0.0", "::",
              "192.168.1.5:10009", "0.0.0.0:8080", "192.168.1.5:8080"}

\* A gRPC or REST listener that other machines reach is reported, by one of two
\* checks that split the addresses between them, wherever it stands among
\* others.  Three cases are not: behind a bare key, in another section or one
\* spelled otherwise, and, with Tor, an address that is not recognized as a wildcard.
\* (transport.go:164-194, exposure.go:70-96)
ReachableListenersAreReported ==
  phase = "suggested" => \A i \in DOMAIN scanned :
    /\ ShadowLoads(scanned) /\ scanned[i].exact
    /\ scanned[i].key \in {"rpclisten", "restlisten"}
    /\ scanned[i].section = SectionRead(scanned[i].key)
    /\ scanned[i].value \in Reachable
    /\ TorActive(ParseBytes(scanned)) => isBoundToAllInterfaces(scanned[i].value)
    => \E f \in findings :
         f.ID \in IF scanned[i].key = "rpclisten" THEN {"T-3", "N-4"} ELSE {"T-3b", "N-5"}

\* A generated file has no finding but those its template leaves to the
\* operator, those about the towers it was given none of, and two of settings
\* it does emit, under the wrong header (GeneratedSettingsAreRead).
GeneratedIsHardened ==
  phase = "suggested" => \A opts \in Options :
    scanned = Generate(opts) =>
      {f.ID : f \in findings} \subseteq
        {"C-4", "C-5", "P-2", "P-4"} \cup (IF opts.Watchtower THEN {} ELSE {"C-6"})

-----------------------------------------------------------------------------
(* What the documentation says, and the code does not do *)

\* confgen.go:116 and README.md:458: what the generator emits as key=value is
\* "Recommended hardening", and generate.go:111 has it validated with "lnaudit
\* scan".  So the scan reads it.
GeneratedSettingsAreRead ==
  phase = "suggested" => \A opts \in Options :
    scanned = Generate(opts) =>
      \A i \in DOMAIN scanned :
        KeyString(ParseBytes(scanned), scanned[i].key) = scanned[i].value
=============================================================================
