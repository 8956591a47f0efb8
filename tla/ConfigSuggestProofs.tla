------------------------ MODULE ConfigSuggestProofs ------------------------
(***************************************************************************)
(* Theorems about ConfigSuggest, for any edits of an operator and any      *)
(* number of them and of runs: a listener that other machines reach is     *)
(* reported; a patch, applied in part or whole, removes what it was        *)
(* suggested for and brings nothing new; and of what generate writes, the  *)
(* scan reports only what the template leaves open.                        *)
(***************************************************************************)
EXTENDS ConfigSuggest, FoldTheorems, TLAPS

-----------------------------------------------------------------------------
(* The table of suggestions *)

\* Rows of the table that agree on the key agree on the value.
LEMMA OneValue == \A s, t \in Suggested : s[2] = t[2] => s[3] = t[3]
  BY SMTT(60) DEF Suggested

\* Every key of the table is one that ParseBytes reads.
LEMMA SuggestedAreKeys == \A s \in Suggested : s[2] \in Key
  BY SMTT(60) DEF Suggested, Key, ApplicationKeys, BitcoinKeys, TorKeys, WtclientKeys,
    ProtocolKeys, GossipKeys, AutopilotKeys

\* The patch has a key under the section that it is read from.
LEMMA UnderItsHeader == \A key \in Key : sectionForKey(key) = SectionRead(key)
<1> SUFFICES ASSUME NEW key \in Key
             PROVE  sectionForKey(key) = SectionRead(key)
  OBVIOUS
<1> DEFINE In(S) == key \in S
<1>1. /\ In(ApplicationKeys) => ~In(BitcoinKeys) /\ ~In(TorKeys) /\ ~In(WtclientKeys)
                                /\ ~In(ProtocolKeys) /\ ~In(GossipKeys) /\ ~In(AutopilotKeys)
      /\ In(BitcoinKeys) => ~In(TorKeys) /\ ~In(WtclientKeys) /\ ~In(ProtocolKeys)
                            /\ ~In(GossipKeys) /\ ~In(AutopilotKeys)
      /\ In(TorKeys) => ~In(WtclientKeys) /\ ~In(ProtocolKeys) /\ ~In(GossipKeys)
                        /\ ~In(AutopilotKeys)
      /\ In(WtclientKeys) => ~In(ProtocolKeys) /\ ~In(GossipKeys) /\ ~In(AutopilotKeys)
      /\ In(ProtocolKeys) => ~In(GossipKeys) /\ ~In(AutopilotKeys)
      /\ In(GossipKeys) => ~In(AutopilotKeys)
  BY SMTT(60) DEF ApplicationKeys, BitcoinKeys, TorKeys, WtclientKeys, ProtocolKeys,
    GossipKeys, AutopilotKeys
<1>2. CASE key \in ApplicationKeys
  BY <1>1, <1>2, Zenon DEF sectionForKey, SectionRead
<1>3. CASE key \in BitcoinKeys
  BY <1>1, <1>3, Zenon DEF sectionForKey, SectionRead
<1>4. CASE key \in TorKeys
  BY <1>1, <1>4, Zenon DEF sectionForKey, SectionRead
<1>5. CASE key \in WtclientKeys
  BY <1>1, <1>5, Zenon DEF sectionForKey, SectionRead
<1>6. CASE key \in ProtocolKeys
  BY <1>1, <1>6, Zenon DEF sectionForKey, SectionRead
<1>7. CASE key \in GossipKeys
  BY <1>1, <1>7, Zenon DEF sectionForKey, SectionRead
<1>8. CASE key \in AutopilotKeys
  BY <1>1, <1>8, Zenon DEF sectionForKey, SectionRead
<1> QED  BY <1>2, <1>3, <1>4, <1>5, <1>6, <1>7, <1>8 DEF Key

\* The patch lists every key of the table.
LEMMA SuggestedAreListed == \A s \in Suggested : s[2] \in ToSet(PatchOrder)
<1> DEFINE P == PatchOrder
<1>1. \A s \in Suggested : \E i \in 1..35 : P[i] = s[2]
  BY SMTT(60) DEF Suggested, PatchOrder
<1>2. DOMAIN P = 1..35
  BY DEF PatchOrder
<1>3. ToSet(P) = {P[i] : i \in DOMAIN P}
  BY DEF ToSet
<1> QED  BY <1>1, <1>2, <1>3

\* The patch lists keys that ParseBytes reads, and no other.
LEMMA PatchOrderType == PatchOrder \in Seq(Key)
  BY SMTT(60) DEF PatchOrder, Key, ApplicationKeys, BitcoinKeys, TorKeys, WtclientKeys,
    ProtocolKeys, GossipKeys, AutopilotKeys

-----------------------------------------------------------------------------
(* Numbers and addresses *)

\* A table that has one value for x.
LEMMA TableHas ==
  ASSUME NEW table, NEW pair \in table,
         \A p \in table : p[1] = pair[1] => p[2] = pair[2]
  PROVE  Has(table, pair[1]) /\ For(table, pair[1]) = pair[2]
<1>1. \E p \in table : p[1] = pair[1]
  OBVIOUS
<1> DEFINE c == CHOOSE p \in table : p[1] = pair[1]
<1>2. c \in table /\ c[1] = pair[1]
  BY <1>1
<1> QED  BY <1>1, <1>2 DEF Has, For

\* Numbers as they are written, and what they are.
Written ==
  {<<"1", 1>>, <<"3", 3>>, <<"30", 30>>, <<"80", 80>>, <<"100", 100>>, <<"1000", 1000>>,
   <<"2016", 2016>>, <<"5000", 5000>>, <<"20000", 20000>>, <<"16777215", 16777215>>}

\* The values that the table suggests for numbers are read as numbers.
LEMMA SuggestedNumbers ==
  ASSUME NEW cfg, NEW key,
         NEW pair \in Written, KeyString(cfg, key) = pair[1]
  PROVE  KeyInt(cfg, key) = pair[2]
<1>1. \A p, q \in Numbers : p[1] = q[1] => p[2] = q[2]
  BY SMTT(60) DEF Numbers
<1>2. pair \in Numbers
  BY SMTT(60) DEF Numbers, Written
<1>3. Has(Numbers, pair[1]) /\ For(Numbers, pair[1]) = pair[2]
  BY <1>1, <1>2, TableHas
<1> QED  BY <1>3 DEF KeyInt

-----------------------------------------------------------------------------
(* What is read of a file *)

\* The lines that a file may have.
FileLine ==
  Edits \cup {Comment} \cup {Set(s[2], s[3]) : s \in Suggested}
    \cup UNION {ToSet(Generate(opts)) : opts \in Options}

\* conf sets the key, and to this value only.
SetsOnly(conf, key, value) ==
  /\ \E i \in DOMAIN conf : conf[i].key = key
  /\ \A i \in DOMAIN conf : conf[i].key = key => conf[i] = Set(key, value)

\* Then that value is read.
LEMMA OneValueIsRead ==
  ASSUME NEW conf \in Seq(FileLine), NEW key \in Key, NEW value,
         SetsOnly(conf, key, value)
  PROVE  /\ KeyString(ParseBytes(conf), key) = value
         /\ Multi(ParseBytes(conf), key) = {value} \ {""}
<1> PICK i \in DOMAIN conf : conf[i].key = key
  BY DEF SetsOnly
<1> DEFINE lines == {j \in DOMAIN conf : /\ conf[j].key = key /\ conf[j].section = SectionRead(key)
                                         /\ ShadowLoads(conf) => conf[j].exact}
           values == ValuesIn(conf, key)
           read == ParseBytes(conf)[key]
<1>1. values = [j \in lines |-> conf[j].value]
  BY DEF ValuesIn
<1>2. i \in lines
  BY DEF Set, Setting, SetsOnly
<1>3. \A j \in lines : conf[j].value = value
  BY DEF Set, Setting, SetsOnly
<1>4. Len(conf) \in Nat /\ lines \in SUBSET (1..Len(conf)) /\ lines # {}
  BY <1>2
<1>5. Min(lines) \in lines /\ Max(lines) \in lines
  BY <1>4, Extremes
<1>6. read = values \/ read = Restrict(values, {Max(lines)})
  BY <1>1 DEF ParseBytes
<1> HIDE DEF lines, read
<1>7. PICK D \in SUBSET lines : D # {} /\ read = [j \in D |-> value]
  <2>1. CASE read = values
    <3>1. read = [j \in lines |-> value]
      BY <1>1, <1>3, <2>1
    <3> QED  BY <3>1, <1>2
  <2>2. CASE read = Restrict(values, {Max(lines)})
    <3>1. read = [j \in {Max(lines)} |-> value]
      BY <1>1, <1>3, <1>5, <2>2 DEF Restrict
    <3> QED  BY <3>1, <1>5
  <2> QED  BY <1>6, <2>1, <2>2
<1>8. D \in SUBSET (1..Len(conf)) /\ DOMAIN read = D /\ read # <<>>
  BY <1>4, <1>7
<1>9. Min(D) \in D
  BY <1>4, <1>7, <1>8, Extremes
<1>10. First(read) = value
  BY <1>7, <1>9 DEF First
<1>11. Range(read) = {value}
  BY <1>7 DEF Range
<1> QED  BY <1>8, <1>10, <1>11 DEF KeyString, Multi, read

\* Of two files that give a key the same values on the same lines, and that are
\* loaded in the same way, the same is read.
LEMMA SameIsRead ==
  ASSUME NEW conf1, NEW conf2, NEW key \in Key,
         ShadowLoads(conf1) = ShadowLoads(conf2),
         ValuesIn(conf1, key) = ValuesIn(conf2, key)
  PROVE  ParseBytes(conf1)[key] = ParseBytes(conf2)[key]
  BY DEF ParseBytes

-----------------------------------------------------------------------------
(* Patches *)

\* What some findings suggest for a key is what the table has for it, in the row
\* of one of them.
LEMMA SuggestionsFollowTheTable ==
  ASSUME NEW fs, NEW key \in DOMAIN SuggestionsFrom(fs)
  PROVE  /\ \E s \in Suggested : /\ s[2] = key /\ \E f \in fs : f.ID = s[1]
                                 /\ SuggestionsFrom(fs)[key].Value = s[3]
         /\ \A s \in Suggested : s[2] = key => SuggestionsFrom(fs)[key].Value = s[3]
<1> DEFINE hits == {s \in Suggested : \E f \in fs : f.ID = s[1]}
           c == CHOOSE s \in hits : s[2] = key
<1>1. \E s \in hits : s[2] = key
  BY DEF SuggestionsFrom
<1>2. c \in hits /\ c[2] = key
  BY <1>1
<1>3. SuggestionsFrom(fs)[key].Value = c[3]
  BY DEF SuggestionsFrom
<1> QED  BY <1>2, <1>3, OneValue

\* The file that Merge makes of conf.
Merged(conf, keys, sgs) ==
  [i \in DOMAIN conf |-> IF conf[i].key \in keys THEN Comment ELSE conf[i]]
    \o LET patch == Within(PatchOrder, keys)
       IN  [i \in DOMAIN patch |-> Setting(sectionForKey(patch[i]), patch[i],
                                           sgs[patch[i]].Value)]

\* new is conf with some keys set to the values of the table, and nothing else
\* about them.
IsPatched(conf, keys, new) ==
  /\ DOMAIN conf \subseteq DOMAIN new
  /\ \A i \in DOMAIN conf : new[i] = IF conf[i].key \in keys THEN Comment ELSE conf[i]
  /\ \A i \in DOMAIN new \ DOMAIN conf :
       \E s \in Suggested : s[2] \in keys /\ new[i] = Set(s[2], s[3])
  /\ \A key \in keys : \E i \in DOMAIN new \ DOMAIN conf, s \in Suggested :
       s[2] = key /\ new[i] = Set(key, s[3])

\* Merge makes such a file.
LEMMA MergePatches ==
  ASSUME NEW conf \in Seq(FileLine), NEW fs,
         NEW keys \in SUBSET DOMAIN SuggestionsFrom(fs)
  PROVE  LET new == Merged(conf, keys, SuggestionsFrom(fs))
         IN  new \in Seq(FileLine) /\ IsPatched(conf, keys, new)
<1> DEFINE sgs == SuggestionsFrom(fs)
           patch == Within(PatchOrder, keys)
           kept == [i \in DOMAIN conf |-> IF conf[i].key \in keys THEN Comment ELSE conf[i]]
           added == [i \in DOMAIN patch |-> Setting(sectionForKey(patch[i]), patch[i],
                                                    sgs[patch[i]].Value)]
           new == kept \o added
<1>1. patch \in Seq(Key) /\ ToSet(patch) = ToSet(PatchOrder) \cap keys
  BY PatchOrderType, WithinMembers
<1>2. ASSUME NEW key \in keys
      PROVE  \E s \in Suggested :
               /\ s[2] = key /\ sgs[key].Value = s[3]
               /\ Setting(sectionForKey(key), key, sgs[key].Value) = Set(key, s[3])
  <2>1. PICK s \in Suggested : s[2] = key /\ sgs[key].Value = s[3]
    BY SuggestionsFollowTheTable
  <2>2. key \in Key
    BY <2>1, SuggestedAreKeys
  <2> QED  BY <2>1, <2>2, UnderItsHeader DEF Set
<1> HIDE DEF sgs, patch
<1>3. \A i \in DOMAIN patch : patch[i] \in keys
  BY <1>1 DEF ToSet
<1>4. \A key \in keys : \E i \in DOMAIN patch : patch[i] = key
  <2> SUFFICES ASSUME NEW key \in keys PROVE \E i \in DOMAIN patch : patch[i] = key
    OBVIOUS
  <2>1. key \in ToSet(PatchOrder)
    BY <1>2, SuggestedAreListed
  <2> QED  BY <1>1, <2>1 DEF ToSet
<1>5. \A i \in DOMAIN added : \E s \in Suggested : s[2] \in keys /\ added[i] = Set(s[2], s[3])
  BY <1>2, <1>3
<1>6. \A key \in keys : \E i \in DOMAIN added, s \in Suggested :
        s[2] = key /\ added[i] = Set(key, s[3])
  BY <1>2, <1>4
<1>7. \A s \in Suggested : Set(s[2], s[3]) \in FileLine
  BY DEF FileLine
<1>8. added \in Seq(FileLine)
  <2>1. Len(patch) \in Nat /\ DOMAIN added = 1..Len(patch)
    BY <1>1
  <2> QED  BY <1>5, <1>7, <2>1
<1>9. kept \in Seq(FileLine)
  <2>1. Comment \in FileLine
    BY DEF FileLine
  <2>2. Len(conf) \in Nat /\ DOMAIN kept = 1..Len(conf)
    OBVIOUS
  <2>3. \A i \in DOMAIN conf : kept[i] \in FileLine
    BY <2>1
  <2> QED  BY <2>2, <2>3
<1>10. Len(kept) = Len(conf) /\ DOMAIN kept = DOMAIN conf
  OBVIOUS
<1>11. \A i \in DOMAIN conf : kept[i] = IF conf[i].key \in keys THEN Comment ELSE conf[i]
  OBVIOUS
<1> HIDE DEF kept, added
<1>12. /\ new \in Seq(FileLine)
       /\ Len(new) = Len(kept) + Len(added)
       /\ \A i \in 1..Len(kept) : new[i] = kept[i]
       /\ \A i \in 1..Len(added) : new[Len(kept) + i] = added[i]
  BY <1>8, <1>9
<1>13. DOMAIN new = 1..(Len(kept) + Len(added)) /\ DOMAIN conf = 1..Len(kept)
  BY <1>9, <1>10, <1>12
<1>14. ASSUME NEW i \in DOMAIN new \ DOMAIN conf
       PROVE  \E j \in DOMAIN added : new[i] = added[j]
  <2>1. i - Len(kept) \in 1..Len(added)
    BY <1>8, <1>9, <1>13
  <2> QED  BY <1>8, <1>9, <1>12, <2>1
<1>15. ASSUME NEW j \in DOMAIN added
       PROVE  Len(kept) + j \in DOMAIN new \ DOMAIN conf /\ new[Len(kept) + j] = added[j]
  BY <1>8, <1>9, <1>12, <1>13
<1> HIDE DEF new
<1>16. DOMAIN conf \subseteq DOMAIN new
  BY <1>8, <1>9, <1>13
<1>17. \A i \in DOMAIN conf : new[i] = IF conf[i].key \in keys THEN Comment ELSE conf[i]
  BY <1>10, <1>11, <1>12, <1>13
<1>18. \A i \in DOMAIN new \ DOMAIN conf :
         \E s \in Suggested : s[2] \in keys /\ new[i] = Set(s[2], s[3])
  BY <1>5, <1>14
<1>19. \A key \in keys : \E i \in DOMAIN new \ DOMAIN conf, s \in Suggested :
         s[2] = key /\ new[i] = Set(key, s[3])
  BY <1>6, <1>15
<1>20. IsPatched(conf, keys, new)
  BY <1>16, <1>17, <1>18, <1>19 DEF IsPatched
<1>21. Merged(conf, keys, SuggestionsFrom(fs)) = new
  BY DEF Merged, new, kept, added, patch, sgs
<1> QED  BY <1>12, <1>20, <1>21

\* The empty name is that of no key.
LEMMA NoEmptyKey == "" \notin Key
  BY SMTT(60) DEF Key, ApplicationKeys, BitcoinKeys, TorKeys, WtclientKeys,
    ProtocolKeys, GossipKeys, AutopilotKeys

\* The configuration cfg has of some keys what the table suggests.
Advised(cfg, keys) ==
  \A s \in Suggested : s[2] \in keys => /\ KeyString(cfg, s[2]) = s[3]
                                        /\ Multi(cfg, s[2]) = {s[3]} \ {""}

\* What is read of keys that a patch sets, and of those that it does not.
LEMMA PatchedIsRead ==
  ASSUME NEW conf \in Seq(FileLine), NEW new \in Seq(FileLine),
         NEW keys \in SUBSET {s[2] : s \in Suggested},
         IsPatched(conf, keys, new)
  PROVE  /\ Advised(ParseBytes(new), keys)
         /\ \E old \in {conf, SpelledOut(conf)} : \A key \in Key \ keys :
              ParseBytes(new)[key] = ParseBytes(old)[key]
<1>1. /\ Comment.key = "" /\ ~Comment.bare
      /\ \A s \in Suggested : /\ Set(s[2], s[3]).key = s[2] /\ ~Set(s[2], s[3]).bare
  BY DEF Comment, Set, Setting
<1>2. ASSUME NEW key \in keys, NEW i \in DOMAIN new, new[i].key = key
      PROVE  \E s \in Suggested : s[2] = key /\ new[i] = Set(key, s[3])
  <2>1. key \in Key
    BY SuggestedAreKeys
  <2>2. i \notin DOMAIN conf
    BY <1>1, <1>2, <2>1, NoEmptyKey DEF IsPatched
  <2>3. PICK s \in Suggested : new[i] = Set(s[2], s[3])
    BY <2>2 DEF IsPatched
  <2> QED  BY <1>1, <1>2, <2>3
<1>3. ASSUME NEW s \in Suggested, s[2] \in keys
      PROVE  /\ KeyString(ParseBytes(new), s[2]) = s[3]
             /\ Multi(ParseBytes(new), s[2]) = {s[3]} \ {""}
  <2>1. PICK i \in DOMAIN new, t \in Suggested : t[2] = s[2] /\ new[i] = Set(s[2], t[3])
    BY <1>3 DEF IsPatched
  <2>2. new[i] = Set(s[2], s[3])
    BY <2>1, OneValue
  <2>3. \A j \in DOMAIN new : new[j].key = s[2] => new[j] = Set(s[2], s[3])
    BY <1>2, <1>3, OneValue
  <2>4. s[2] \in Key /\ SetsOnly(new, s[2], s[3])
    BY <1>1, <2>1, <2>2, <2>3, SuggestedAreKeys DEF SetsOnly
  <2> QED  BY <2>4, OneValueIsRead
<1>4. ASSUME NEW key \in Key \ keys, NEW i \in DOMAIN new, new[i].key = key
      PROVE  i \in DOMAIN conf /\ new[i] = conf[i]
  <2>1. ASSUME i \notin DOMAIN conf PROVE FALSE
    <3>1. PICK s \in Suggested : s[2] \in keys /\ new[i] = Set(s[2], s[3])
      BY <2>1 DEF IsPatched
    <3> QED  BY <1>1, <1>4, <3>1
  <2>2. new[i] = IF conf[i].key \in keys THEN Comment ELSE conf[i]
    BY <2>1 DEF IsPatched
  <2> QED  BY <1>1, <1>4, <2>1, <2>2, NoEmptyKey
<1>5. ASSUME NEW key \in Key \ keys, NEW i \in DOMAIN conf, conf[i].key = key
      PROVE  i \in DOMAIN new /\ new[i] = conf[i]
  BY <1>5 DEF IsPatched
<1>6. ASSUME NEW old, old \in {conf, SpelledOut(conf)}, ShadowLoads(new) = ShadowLoads(old),
             NEW key \in Key \ keys
      PROVE  ParseBytes(new)[key] = ParseBytes(old)[key]
  <2>1. /\ DOMAIN old = DOMAIN conf
        /\ \A i \in DOMAIN conf : /\ old[i].key = conf[i].key
                                  /\ old[i].section = conf[i].section
                                  /\ old[i].exact = conf[i].exact
                                  /\ old[i].value = conf[i].value
    <3>1. CASE old = conf
      BY <3>1
    <3>2. CASE old = SpelledOut(conf)
      BY <3>2 DEF SpelledOut
    <3> QED  BY <1>6, <3>1, <3>2
  <2> DEFINE At(f) == {i \in DOMAIN f : /\ f[i].key = key /\ f[i].section = SectionRead(key)
                                        /\ ShadowLoads(f) => f[i].exact}
  <2>2. \A i \in DOMAIN new : new[i].key = key => i \in DOMAIN old /\ old[i].key = key
    BY <1>4, <2>1
  <2>3. \A i \in DOMAIN old : old[i].key = key => i \in DOMAIN new /\ new[i].key = key
    BY <1>5, <2>1
  <2>4. \A i \in DOMAIN new \cap DOMAIN old : new[i].key = key =>
          /\ new[i].section = old[i].section
          /\ new[i].exact = old[i].exact
          /\ new[i].value = old[i].value
    BY <1>4, <2>1
  <2>5. At(new) = At(old) /\ \A i \in At(new) : new[i].value = old[i].value
    BY <1>6, <2>2, <2>3, <2>4
  <2>6. ValuesIn(new, key) = ValuesIn(old, key)
    BY <2>5 DEF ValuesIn
  <2> QED  BY <1>6, <2>6, SameIsRead
<1>7. \E old \in {conf, SpelledOut(conf)} : ShadowLoads(new) = ShadowLoads(old)
  <2>1. ShadowLoads(conf) => ShadowLoads(new)
    <3> SUFFICES ASSUME \A i \in DOMAIN conf : ~conf[i].bare, NEW i \in DOMAIN new
                 PROVE  ~new[i].bare
      BY DEF ShadowLoads
    <3>1. CASE i \in DOMAIN conf
      <4>1. new[i] = Comment \/ new[i] = conf[i]
        BY <3>1 DEF IsPatched
      <4> QED  BY <1>1, <3>1, <4>1
    <3>2. CASE i \notin DOMAIN conf
      <4>1. PICK s \in Suggested : new[i] = Set(s[2], s[3])
        BY <3>2 DEF IsPatched
      <4> QED  BY <1>1, <4>1
    <3> QED  BY <3>1, <3>2
  <2>2. ShadowLoads(SpelledOut(conf))
    <3>1. \A i \in DOMAIN SpelledOut(conf) : SpelledOut(conf)[i].bare = FALSE
      BY DEF SpelledOut
    <3> QED  BY <3>1 DEF ShadowLoads
  <2>3. ShadowLoads(new) \in BOOLEAN /\ ShadowLoads(conf) \in BOOLEAN
          /\ ShadowLoads(SpelledOut(conf)) \in BOOLEAN
    BY DEF ShadowLoads
  <2> QED  BY <2>1, <2>2, <2>3
<1>8. Advised(ParseBytes(new), keys)
  BY <1>3 DEF Advised
<1> QED  BY <1>6, <1>7, <1>8

-----------------------------------------------------------------------------
(* What the checks make of a patched file *)

\* The keys that the patch turns off, and on.
Off ==
  {"no-macaroons", "debughtlc", "noencryptwallet", "unsafe-disconnect",
   "tor.skip-proxy-for-clearnet-targets", "allow-circular-route", "requireinterceptor",
   "protocol.zero-conf", "protocol.no-anchors", "protocol.wumbo-channels",
   "autopilot.active", "no-rest-tls", "wallet-unlock-allow-create"}

On ==
  {"wtclient.active", "tor.encryptkey", "tor.v3", "tor.streamisolation",
   "protocol.option-scid-alias", "rejectpush", "enable-upfront-shutdown",
   "tlsencryptkey"}

\* The numbers it sets.
Amounts ==
  {<<"bitcoin.defaultchanconfs", 3>>, <<"maxchansize", 16777215>>,
   <<"maxpendingchannels", 1>>, <<"trickledelay", 5000>>,
   <<"default-remote-max-htlcs", 30>>, <<"max-cltv-expiry", 2016>>,
   <<"minchansize", 20000>>, <<"bitcoin.timelockdelta", 80>>,
   <<"bitcoin.minhtlc", 1000>>, <<"gossip.ban-threshold", 100>>}

\* Every such key has a row.
LEMMA Rows ==
  /\ \A key \in Off : \E s \in Suggested : s[2] = key /\ s[3] = "false"
  /\ \A key \in On : \E s \in Suggested : s[2] = key /\ s[3] = "true"
  /\ \E s \in Suggested : s[2] = "debuglevel" /\ s[3] = "info"
  /\ \E s \in Suggested : s[2] = "bitcoin.estimatemode" /\ s[3] = "CONSERVATIVE"
  /\ \E s \in Suggested : s[2] = "rpclisten" /\ s[3] = "127.0.0.1:10009"
  /\ \E s \in Suggested : s[2] = "restlisten" /\ s[3] = "127.0.0.1:8080"
  BY SMTT(60) DEF Off, On, Suggested

\* Every number has a row, and is read as it is written.
LEMMA AmountRows ==
  \A pair \in Amounts : \E s \in Suggested :
    /\ s[2] = pair[1]
    /\ <<s[3], pair[2]>> \in Written
  BY SMTT(60) DEF Amounts, Suggested, Written

\* So this is what the checks find of them.
LEMMA AdvisedValues ==
  ASSUME NEW cfg, NEW keys, Advised(cfg, keys)
  PROVE  /\ \A key \in Off \cap keys : ~KeyBool(cfg, key)
         /\ \A key \in On \cap keys : KeyBool(cfg, key)
         /\ \A pair \in Amounts : pair[1] \in keys => KeyInt(cfg, pair[1]) = pair[2]
         /\ "debuglevel" \in keys => KeyString(cfg, "debuglevel") = "info"
         /\ "bitcoin.estimatemode" \in keys =>
              KeyString(cfg, "bitcoin.estimatemode") = "CONSERVATIVE"
         /\ "rpclisten" \in keys => Multi(cfg, "rpclisten") = {"127.0.0.1:10009"}
         /\ "restlisten" \in keys => Multi(cfg, "restlisten") = {"127.0.0.1:8080"}
<1>1. ASSUME NEW s \in Suggested, s[2] \in keys
      PROVE  KeyString(cfg, s[2]) = s[3] /\ Multi(cfg, s[2]) = {s[3]} \ {""}
  BY <1>1 DEF Advised
<1>2. \A key \in Off \cap keys : KeyString(cfg, key) = "false"
  <2> SUFFICES ASSUME NEW key \in Off, key \in keys PROVE KeyString(cfg, key) = "false"
    OBVIOUS
  <2>1. PICK s \in Suggested : s[2] = key /\ s[3] = "false"
    BY Rows
  <2>2. KeyString(cfg, s[2]) = s[3]
    BY <1>1, <2>1
  <2> QED  BY <2>1, <2>2
<1>3. \A key \in On \cap keys : KeyString(cfg, key) = "true"
  <2> SUFFICES ASSUME NEW key \in On, key \in keys PROVE KeyString(cfg, key) = "true"
    OBVIOUS
  <2>1. PICK s \in Suggested : s[2] = key /\ s[3] = "true"
    BY Rows
  <2>2. KeyString(cfg, s[2]) = s[3]
    BY <1>1, <2>1
  <2> QED  BY <2>1, <2>2
<1>4. ASSUME NEW pair \in Amounts, pair[1] \in keys
      PROVE  KeyInt(cfg, pair[1]) = pair[2]
  <2>1. PICK s \in Suggested :
          /\ s[2] = pair[1]
          /\ <<s[3], pair[2]>> \in Written
    BY AmountRows
  <2>2. KeyString(cfg, pair[1]) = <<s[3], pair[2]>>[1]
    BY <1>1, <1>4, <2>1
  <2>3. KeyInt(cfg, pair[1]) = <<s[3], pair[2]>>[2]
    BY <2>1, <2>2, SuggestedNumbers
  <2> QED  BY <2>3
<1>5. /\ "debuglevel" \in keys => KeyString(cfg, "debuglevel") = "info"
      /\ "bitcoin.estimatemode" \in keys =>
           KeyString(cfg, "bitcoin.estimatemode") = "CONSERVATIVE"
      /\ "rpclisten" \in keys => Multi(cfg, "rpclisten") = {"127.0.0.1:10009"}
      /\ "restlisten" \in keys => Multi(cfg, "restlisten") = {"127.0.0.1:8080"}
  BY <1>1, Rows
<1> QED  BY <1>2, <1>3, <1>4, <1>5 DEF KeyBool

\* The addresses of the patch are reached by this machine only.
LEMMA SuggestedAddresses ==
  \A addr \in {"127.0.0.1:10009", "127.0.0.1:8080"} :
    isLoopback(addr) /\ ~isBoundToAllInterfaces(addr)
<1>1. \A p \in SplitHostPort :
        p[1] \in {"127.0.0.1:10009", "127.0.0.1:8080"} => p[2] = "127.0.0.1"
  BY SMTT(60) DEF SplitHostPort
<1>2. /\ <<"127.0.0.1:10009", "127.0.0.1">> \in SplitHostPort
      /\ <<"127.0.0.1:8080", "127.0.0.1">> \in SplitHostPort
  BY SMTT(60) DEF SplitHostPort
<1>3. ASSUME NEW addr \in {"127.0.0.1:10009", "127.0.0.1:8080"}
      PROVE  Has(SplitHostPort, addr) /\ For(SplitHostPort, addr) = "127.0.0.1"
  <2> DEFINE pair == <<addr, "127.0.0.1">>
  <2>1. pair \in SplitHostPort
    BY <1>2
  <2>2. Has(SplitHostPort, pair[1]) /\ For(SplitHostPort, pair[1]) = pair[2]
    BY <1>1, <2>1, TableHas
  <2> QED  BY <2>2
<1>4. "127.0.0.1" \notin {NoHost, "0.0.0.0", "::"}
  BY DEF NoHost
<1> QED  BY <1>3, <1>4 DEF isLoopback, isBoundToAllInterfaces

\* Keys that no finding suggests anything for.
LEMMA NeverSuggested ==
  \A s \in Suggested : s[2] \notin
    {"tor.active", "nat", "externalip", "listen", "noseedbackup", "accept-keysend",
     "accept-amp", "restcors", "wtclient.private-tower-uris"}
  BY SMTT(60) DEF Suggested

\* cfg and old differ only in some keys, of which cfg has what is suggested.
Improves(cfg, old, keys) ==
  /\ keys \subseteq {s[2] : s \in Suggested}
  /\ Advised(cfg, keys)
  /\ \A key \in Key \ keys : cfg[key] = old[key]

\* The key that a finding is about, by its ID.
LEMMA KeyOfID ==
  \A s \in Suggested :
    /\ s[1] \notin {"C-6", "C-9", "H-6a", "P-10", "P-11", "P-13", "T-5"}
    /\ s[1] = "A-1" => s[2] = "no-macaroons"
    /\ s[1] = "C-1" => s[2] = "wtclient.active"
    /\ s[1] = "C-2" => s[2] = "bitcoin.defaultchanconfs"
    /\ s[1] = "C-4" => s[2] = "maxchansize"
    /\ s[1] = "C-5" => s[2] = "maxpendingchannels"
    /\ s[1] = "H-4" => s[2] = "debuglevel"
    /\ s[1] = "H-4b" => s[2] = "debughtlc"
    /\ s[1] = "H-6b" => s[2] = "noencryptwallet"
    /\ s[1] = "H-6c" => s[2] = "trickledelay"
    /\ s[1] = "H-6d" => s[2] = "unsafe-disconnect"
    /\ s[1] = "K-2" => s[2] = "tor.encryptkey"
    /\ s[1] = "N-1" => s[2] = "tor.skip-proxy-for-clearnet-targets"
    /\ s[1] = "N-1b" => s[2] = "tor.v3"
    /\ s[1] = "N-2" => s[2] = "tor.streamisolation"
    /\ s[1] = "N-3" => s[2] = "protocol.option-scid-alias"
    /\ s[1] = "N-4" => s[2] = "rpclisten"
    /\ s[1] = "T-3" => s[2] = "rpclisten"
    /\ s[1] = "N-5" => s[2] = "restlisten"
    /\ s[1] = "T-3b" => s[2] = "restlisten"
    /\ s[1] = "P-1" => s[2] = "allow-circular-route"
    /\ s[1] = "P-2" => s[2] = "rejectpush"
    /\ s[1] = "P-3" => s[2] = "default-remote-max-htlcs"
    /\ s[1] = "P-4" => s[2] = "enable-upfront-shutdown"
    /\ s[1] = "P-5" => s[2] = "max-cltv-expiry"
    /\ s[1] = "P-6" => s[2] = "minchansize"
    /\ s[1] = "P-7" => s[2] = "bitcoin.timelockdelta"
    /\ s[1] = "P-8" => s[2] = "bitcoin.minhtlc"
    /\ s[1] = "P-9" => s[2] = "bitcoin.estimatemode"
    /\ s[1] = "P-12" => s[2] = "requireinterceptor"
    /\ s[1] = "R-1" => s[2] = "protocol.zero-conf"
    /\ s[1] = "R-2" => s[2] = "protocol.no-anchors"
    /\ s[1] = "R-3" => s[2] = "protocol.wumbo-channels"
    /\ s[1] = "R-4" => s[2] = "autopilot.active"
    /\ s[1] = "R-5" => s[2] = "gossip.ban-threshold"
    /\ s[1] = "R-6" => s[2] = "no-rest-tls"
    /\ s[1] = "R-7" => s[2] = "tlsencryptkey"
    /\ s[1] = "R-8" => s[2] = "wallet-unlock-allow-create"
  BY SMTT(60) DEF Suggested

\* What the checks see of the keys that are not patched is what they saw before.
LEMMA SeenUnpatched ==
  ASSUME NEW cfg, NEW old, NEW keys, Improves(cfg, old, keys), NEW key \in Key \ keys
  PROVE  /\ KeyString(cfg, key) = KeyString(old, key)
         /\ KeyBool(cfg, key) = KeyBool(old, key)
         /\ KeyInt(cfg, key) = KeyInt(old, key)
         /\ Explicit(cfg, key) = Explicit(old, key)
         /\ Multi(cfg, key) = Multi(old, key)
  BY DEF Improves, KeyString, KeyBool, KeyInt, Explicit, Multi

\* A check finds nothing that it did not find before, and nothing that was
\* patched because of one of its IDs unless that ID is shared.
NothingNewOf(found, foundBefore, keys) ==
  \A f \in found :
    /\ f \in foundBefore
    /\ \A s \in Suggested : s[1] = f.ID /\ s[2] \in keys => SharedID(f)

\* CheckNoMacaroons finds nothing new.
LEMMA NoMacaroonsNothingNew ==
  ASSUME NEW cfg, NEW old, NEW keys, Improves(cfg, old, keys)
  PROVE  NothingNewOf(CheckNoMacaroons(cfg), CheckNoMacaroons(old), keys)
<1>1. /\ \A key \in Off \cap keys : ~KeyBool(cfg, key)
  BY AdvisedValues DEF Improves
<1>2. /\ {"no-macaroons"} \subseteq Off
      /\ {"no-macaroons"} \subseteq Key
  BY DEF Off, Key, ApplicationKeys
<1> QED  BY <1>1, <1>2, KeyOfID, SeenUnpatched, SMTT(60)
  DEF NothingNewOf, CheckNoMacaroons, Report, Finding, SharedID

\* CheckDangerousFlags finds nothing new.
LEMMA DangerousFlagsNothingNew ==
  ASSUME NEW cfg, NEW old, NEW keys, Improves(cfg, old, keys)
  PROVE  NothingNewOf(CheckDangerousFlags(cfg), CheckDangerousFlags(old), keys)
<1>1. /\ \A key \in Off \cap keys : ~KeyBool(cfg, key)
      /\ "trickledelay" \in keys => KeyInt(cfg, "trickledelay") = 5000
      /\ "debuglevel" \in keys => KeyString(cfg, "debuglevel") = "info"
  <2>1. /\ <<"trickledelay", 5000>> \in Amounts
    BY DEF Amounts
  <2> QED  BY <2>1, AdvisedValues DEF Improves
<1>2. /\ {"noencryptwallet", "debughtlc", "unsafe-disconnect"} \subseteq Off
      /\ {"noencryptwallet", "debughtlc", "unsafe-disconnect", "trickledelay",
          "noseedbackup", "debuglevel"} \subseteq Key
  BY DEF Off, Key, ApplicationKeys
<1>3. "noseedbackup" \notin keys
  BY NeverSuggested DEF Improves
<1> QED  BY <1>1, <1>2, <1>3, KeyOfID, SeenUnpatched, SMTT(60)
  DEF NothingNewOf, CheckDangerousFlags, Report, Finding, SharedID

\* CheckDangerousFlagsExtended finds nothing new.
LEMMA DangerousFlagsExtendedNothingNew ==
  ASSUME NEW cfg, NEW old, NEW keys, Improves(cfg, old, keys)
  PROVE  NothingNewOf(CheckDangerousFlagsExtended(cfg), CheckDangerousFlagsExtended(old), keys)
<1>1. /\ \A key \in Off \cap keys : ~KeyBool(cfg, key)
  BY AdvisedValues DEF Improves
<1>2. /\ {"wallet-unlock-allow-create"} \subseteq Off
      /\ {"wallet-unlock-allow-create"} \subseteq Key
  BY DEF Off, Key, ApplicationKeys
<1> QED  BY <1>1, <1>2, KeyOfID, SeenUnpatched, SMTT(60)
  DEF NothingNewOf, CheckDangerousFlagsExtended, Report, Finding, SharedID

\* CheckTLSHardening finds nothing new.
LEMMA TLSHardeningNothingNew ==
  ASSUME NEW cfg, NEW old, NEW keys, Improves(cfg, old, keys)
  PROVE  NothingNewOf(CheckTLSHardening(cfg), CheckTLSHardening(old), keys)
<1>1. /\ \A key \in Off \cap keys : ~KeyBool(cfg, key)
      /\ \A key \in On \cap keys : KeyBool(cfg, key)
  BY AdvisedValues DEF Improves
<1>2. /\ {"no-rest-tls"} \subseteq Off
      /\ {"tlsencryptkey"} \subseteq On
      /\ {"no-rest-tls", "tlsencryptkey"} \subseteq Key
  BY DEF Off, On, Key, ApplicationKeys
<1> QED  BY <1>1, <1>2, KeyOfID, SeenUnpatched, SMTT(60)
  DEF NothingNewOf, CheckTLSHardening, Report, Finding, SharedID

\* CheckTorConfig finds nothing new.
LEMMA TorConfigNothingNew ==
  ASSUME NEW cfg, NEW old, NEW keys, Improves(cfg, old, keys)
  PROVE  NothingNewOf(CheckTorConfig(cfg), CheckTorConfig(old), keys)
<1>1. /\ \A key \in Off \cap keys : ~KeyBool(cfg, key)
      /\ \A key \in On \cap keys : KeyBool(cfg, key)
  BY AdvisedValues DEF Improves
<1>2. /\ {"tor.skip-proxy-for-clearnet-targets"} \subseteq Off
      /\ {"tor.streamisolation", "tor.v3", "tor.encryptkey"} \subseteq On
      /\ {"tor.skip-proxy-for-clearnet-targets", "tor.streamisolation", "tor.v3",
          "tor.encryptkey", "tor.active"} \subseteq Key
  BY DEF Off, On, Key, TorKeys
<1>3. "tor.active" \notin keys
  BY NeverSuggested DEF Improves
<1> QED  BY <1>1, <1>2, <1>3, KeyOfID, SeenUnpatched, SMTT(60)
  DEF NothingNewOf, CheckTorConfig, Report, Finding, SharedID, TorActive

\* CheckPrivacySettings finds nothing new.
LEMMA PrivacySettingsNothingNew ==
  ASSUME NEW cfg, NEW old, NEW keys, Improves(cfg, old, keys)
  PROVE  NothingNewOf(CheckPrivacySettings(cfg), CheckPrivacySettings(old), keys)
<1>1. /\ \A key \in On \cap keys : KeyBool(cfg, key)
  BY AdvisedValues DEF Improves
<1>2. /\ {"protocol.option-scid-alias"} \subseteq On
      /\ {"protocol.option-scid-alias"} \subseteq Key
  BY DEF On, Key, ProtocolKeys
<1> QED  BY <1>1, <1>2, KeyOfID, SeenUnpatched, SMTT(60)
  DEF NothingNewOf, CheckPrivacySettings, Report, Finding, SharedID

\* CheckChannelSafety finds nothing new.
LEMMA ChannelSafetyNothingNew ==
  ASSUME NEW cfg, NEW old, NEW keys, Improves(cfg, old, keys)
  PROVE  NothingNewOf(CheckChannelSafety(cfg), CheckChannelSafety(old), keys)
<1>1. /\ \A key \in On \cap keys : KeyBool(cfg, key)
      /\ "bitcoin.defaultchanconfs" \in keys => KeyInt(cfg, "bitcoin.defaultchanconfs") = 3
      /\ "maxchansize" \in keys => KeyInt(cfg, "maxchansize") = 16777215
      /\ "maxpendingchannels" \in keys => KeyInt(cfg, "maxpendingchannels") = 1
  <2>1. /\ <<"bitcoin.defaultchanconfs", 3>> \in Amounts
        /\ <<"maxchansize", 16777215>> \in Amounts
        /\ <<"maxpendingchannels", 1>> \in Amounts
    BY DEF Amounts
  <2> QED  BY <2>1, AdvisedValues DEF Improves
<1>2. /\ {"wtclient.active"} \subseteq On
      /\ {"wtclient.active", "bitcoin.defaultchanconfs", "maxchansize",
          "maxpendingchannels"} \subseteq Key
  BY DEF On, Key, ApplicationKeys, BitcoinKeys, WtclientKeys
<1> QED  BY <1>1, <1>2, KeyOfID, SeenUnpatched, SMTT(60)
  DEF NothingNewOf, CheckChannelSafety, Report, Finding, SharedID

\* CheckChannelPolicy finds nothing new.
LEMMA ChannelPolicyNothingNew ==
  ASSUME NEW cfg, NEW old, NEW keys, Improves(cfg, old, keys)
  PROVE  NothingNewOf(CheckChannelPolicy(cfg), CheckChannelPolicy(old), keys)
<1>1. /\ \A key \in Off \cap keys : ~KeyBool(cfg, key)
      /\ \A key \in On \cap keys : KeyBool(cfg, key)
      /\ "default-remote-max-htlcs" \in keys => KeyInt(cfg, "default-remote-max-htlcs") = 30
      /\ "max-cltv-expiry" \in keys => KeyInt(cfg, "max-cltv-expiry") = 2016
      /\ "minchansize" \in keys => KeyInt(cfg, "minchansize") = 20000
  <2>1. /\ <<"default-remote-max-htlcs", 30>> \in Amounts
        /\ <<"max-cltv-expiry", 2016>> \in Amounts
        /\ <<"minchansize", 20000>> \in Amounts
    BY DEF Amounts
  <2> QED  BY <2>1, AdvisedValues DEF Improves
<1>2. /\ {"allow-circular-route"} \subseteq Off
      /\ {"rejectpush", "enable-upfront-shutdown"} \subseteq On
      /\ {"allow-circular-route", "rejectpush", "enable-upfront-shutdown",
          "default-remote-max-htlcs", "max-cltv-expiry", "minchansize"} \subseteq Key
  BY DEF Off, On, Key, ApplicationKeys
<1> QED  BY <1>1, <1>2, KeyOfID, SeenUnpatched, SMTT(60)
  DEF NothingNewOf, CheckChannelPolicy, Report, Finding, SharedID

\* CheckBitcoinPolicy finds nothing new.
LEMMA BitcoinPolicyNothingNew ==
  ASSUME NEW cfg, NEW old, NEW keys, Improves(cfg, old, keys)
  PROVE  NothingNewOf(CheckBitcoinPolicy(cfg), CheckBitcoinPolicy(old), keys)
<1>1. /\ "bitcoin.timelockdelta" \in keys => KeyInt(cfg, "bitcoin.timelockdelta") = 80
      /\ "bitcoin.minhtlc" \in keys => KeyInt(cfg, "bitcoin.minhtlc") = 1000
      /\ "bitcoin.estimatemode" \in keys =>
           KeyString(cfg, "bitcoin.estimatemode") = "CONSERVATIVE"
  <2>1. /\ <<"bitcoin.timelockdelta", 80>> \in Amounts
        /\ <<"bitcoin.minhtlc", 1000>> \in Amounts
    BY DEF Amounts
  <2> QED  BY <2>1, AdvisedValues DEF Improves
<1>2. /\ {"bitcoin.timelockdelta", "bitcoin.minhtlc", "bitcoin.estimatemode"} \subseteq Key
  BY DEF Key, BitcoinKeys
<1> QED  BY <1>1, <1>2, KeyOfID, SeenUnpatched, SMTT(60)
  DEF NothingNewOf, CheckBitcoinPolicy, Report, Finding, SharedID

\* CheckPaymentSecurity finds nothing new.
LEMMA PaymentSecurityNothingNew ==
  ASSUME NEW cfg, NEW old, NEW keys, Improves(cfg, old, keys)
  PROVE  NothingNewOf(CheckPaymentSecurity(cfg), CheckPaymentSecurity(old), keys)
<1>1. /\ \A key \in Off \cap keys : ~KeyBool(cfg, key)
  BY AdvisedValues DEF Improves
<1>2. /\ {"requireinterceptor"} \subseteq Off
      /\ {"requireinterceptor", "accept-keysend", "accept-amp", "restcors"} \subseteq Key
  BY DEF Off, Key, ApplicationKeys
<1>3. "accept-keysend" \notin keys /\ "accept-amp" \notin keys /\ "restcors" \notin keys
  BY NeverSuggested DEF Improves
<1> QED  BY <1>1, <1>2, <1>3, KeyOfID, SeenUnpatched, SMTT(60)
  DEF NothingNewOf, CheckPaymentSecurity, Report, Finding, SharedID

\* CheckProtocolSecurity finds nothing new.
LEMMA ProtocolSecurityNothingNew ==
  ASSUME NEW cfg, NEW old, NEW keys, Improves(cfg, old, keys)
  PROVE  NothingNewOf(CheckProtocolSecurity(cfg), CheckProtocolSecurity(old), keys)
<1>1. /\ \A key \in Off \cap keys : ~KeyBool(cfg, key)
  BY AdvisedValues DEF Improves
<1>2. /\ {"protocol.zero-conf", "protocol.no-anchors", "protocol.wumbo-channels"} \subseteq Off
      /\ {"protocol.zero-conf", "protocol.no-anchors", "protocol.wumbo-channels"} \subseteq Key
  BY DEF Off, Key, ProtocolKeys
<1> QED  BY <1>1, <1>2, KeyOfID, SeenUnpatched, SMTT(60)
  DEF NothingNewOf, CheckProtocolSecurity, Report, Finding, SharedID

\* CheckAutopilotSecurity finds nothing new.
LEMMA AutopilotSecurityNothingNew ==
  ASSUME NEW cfg, NEW old, NEW keys, Improves(cfg, old, keys)
  PROVE  NothingNewOf(CheckAutopilotSecurity(cfg), CheckAutopilotSecurity(old), keys)
<1>1. /\ \A key \in Off \cap keys : ~KeyBool(cfg, key)
  BY AdvisedValues DEF Improves
<1>2. /\ {"autopilot.active"} \subseteq Off
      /\ {"autopilot.active"} \subseteq Key
  BY DEF Off, Key, AutopilotKeys
<1> QED  BY <1>1, <1>2, KeyOfID, SeenUnpatched, SMTT(60)
  DEF NothingNewOf, CheckAutopilotSecurity, Report, Finding, SharedID

\* CheckGossipSecurity finds nothing new.
LEMMA GossipSecurityNothingNew ==
  ASSUME NEW cfg, NEW old, NEW keys, Improves(cfg, old, keys)
  PROVE  NothingNewOf(CheckGossipSecurity(cfg), CheckGossipSecurity(old), keys)
<1>1. /\ "gossip.ban-threshold" \in keys => KeyInt(cfg, "gossip.ban-threshold") = 100
  <2>1. /\ <<"gossip.ban-threshold", 100>> \in Amounts
    BY DEF Amounts
  <2> QED  BY <2>1, AdvisedValues DEF Improves
<1>2. /\ {"gossip.ban-threshold"} \subseteq Key
  BY DEF Key, GossipKeys
<1> QED  BY <1>1, <1>2, KeyOfID, SeenUnpatched, SMTT(60)
  DEF NothingNewOf, CheckGossipSecurity, Report, Finding, SharedID

\* What the checks of addresses see of them.
LEMMA SeenOfAddresses ==
  ASSUME NEW cfg, NEW old, NEW keys, Improves(cfg, old, keys)
  PROVE  /\ TorActive(cfg) = TorActive(old)
         /\ \A key \in {"externalip", "listen"} : Multi(cfg, key) = Multi(old, key)
         /\ KeyBool(cfg, "nat") = KeyBool(old, "nat")
         /\ \A key \in {"rpclisten", "restlisten"} :
              /\ key \in keys => \A a \in Multi(cfg, key) :
                   isLoopback(a) /\ ~isBoundToAllInterfaces(a)
              /\ key \notin keys => Multi(cfg, key) = Multi(old, key)
<1>1. {"externalip", "listen", "nat", "tor.active", "rpclisten", "restlisten"} \subseteq Key
  BY DEF Key, ApplicationKeys, TorKeys
<1>2. \A key \in {"externalip", "listen", "nat", "tor.active"} : key \notin keys
  BY NeverSuggested DEF Improves
<1>3. /\ "rpclisten" \in keys => Multi(cfg, "rpclisten") = {"127.0.0.1:10009"}
      /\ "restlisten" \in keys => Multi(cfg, "restlisten") = {"127.0.0.1:8080"}
  BY AdvisedValues DEF Improves
<1>4. \A key \in {"rpclisten", "restlisten"} : key \in keys => \A a \in Multi(cfg, key) :
        isLoopback(a) /\ ~isBoundToAllInterfaces(a)
  BY <1>3, SuggestedAddresses
<1> QED  BY <1>1, <1>2, <1>4, SeenUnpatched DEF TorActive

\* CheckRPCBindAddress finds nothing new.
LEMMA RPCBindAddressNothingNew ==
  ASSUME NEW cfg, NEW old, NEW keys, Improves(cfg, old, keys)
  PROVE  NothingNewOf(CheckRPCBindAddress(cfg), CheckRPCBindAddress(old), keys)
  BY SeenOfAddresses, KeyOfID, SMTT(60)
  DEF NothingNewOf, CheckRPCBindAddress, Report, Finding, SharedID

\* CheckExternalIPLeak finds nothing new.
LEMMA ExternalIPLeakNothingNew ==
  ASSUME NEW cfg, NEW old, NEW keys, Improves(cfg, old, keys)
  PROVE  NothingNewOf(CheckExternalIPLeak(cfg), CheckExternalIPLeak(old), keys)
  BY SeenOfAddresses, KeyOfID, SMTT(60)
  DEF NothingNewOf, CheckExternalIPLeak, Clearnet, Report, Finding, SharedID

\* CheckNetworkExposure finds nothing new.
LEMMA NetworkExposureNothingNew ==
  ASSUME NEW cfg, NEW old, NEW keys, Improves(cfg, old, keys)
  PROVE  NothingNewOf(CheckNetworkExposure(cfg), CheckNetworkExposure(old), keys)
<1>1. Clearnet(cfg) = Clearnet(old)
  BY SeenOfAddresses DEF Clearnet
<1>2. \A key \in {"rpclisten", "restlisten"} :
        Exposed(cfg, key) => key \notin keys /\ Exposed(old, key)
  BY SeenOfAddresses DEF Exposed
<1> QED  BY <1>1, <1>2, SeenOfAddresses, KeyOfID, SMTT(60)
  DEF NothingNewOf, CheckNetworkExposure, Report, Finding, SharedID

\* CheckWatchtowerConnectivity finds nothing new as long as it is not the patch
\* that activates the client.
LEMMA WatchtowerConnectivityNothingNew ==
  ASSUME NEW cfg, NEW old, NEW keys, Improves(cfg, old, keys),
         NEW f \in CheckWatchtowerConnectivity(cfg)
  PROVE  /\ f.ID \in {"C-6", "C-9"}
         /\ f \in CheckWatchtowerConnectivity(old) \/ "wtclient.active" \in keys
         /\ \A s \in Suggested : s[1] # f.ID
<1>1. {"wtclient.active", "wtclient.private-tower-uris"} \subseteq Key
  BY DEF Key, WtclientKeys
<1>2. "wtclient.private-tower-uris" \notin keys
  BY NeverSuggested DEF Improves
<1> QED  BY <1>1, <1>2, KeyOfID, SeenUnpatched, SMTT(60)
  DEF CheckWatchtowerConnectivity, Report, Finding

\* Nor does any other.
LEMMA NothingNew ==
  ASSUME NEW cfg, NEW old, NEW keys, Improves(cfg, old, keys),
         NEW f \in ConfigFindings(cfg)
  PROVE  /\ f \in ConfigFindings(old)
            \/ (f.ID \in {"C-6", "C-9"} /\ "wtclient.active" \in keys)
         /\ \A s \in Suggested : s[1] = f.ID /\ s[2] \in keys => SharedID(f)
<1>1. CASE f \in CheckWatchtowerConnectivity(cfg)
  BY <1>1, WatchtowerConnectivityNothingNew, Zenon DEF ConfigFindings
<1>2. CASE f \notin CheckWatchtowerConnectivity(cfg)
  BY <1>2, RPCBindAddressNothingNew, ExternalIPLeakNothingNew, TLSHardeningNothingNew,
     NoMacaroonsNothingNew, DangerousFlagsNothingNew, DangerousFlagsExtendedNothingNew,
     TorConfigNothingNew, PrivacySettingsNothingNew, ChannelSafetyNothingNew,
     NetworkExposureNothingNew, ChannelPolicyNothingNew, BitcoinPolicyNothingNew,
     PaymentSecurityNothingNew, ProtocolSecurityNothingNew, AutopilotSecurityNothingNew,
     GossipSecurityNothingNew
  DEF ConfigFindings, NothingNewOf
<1> QED  BY <1>1, <1>2

\* Every address of Reachable is one that other machines reach.
LEMMA ReachableAddresses ==
  \A addr \in Reachable : ~isLoopback(addr) \/ isBoundToAllInterfaces(addr)
<1> DEFINE Listed == {<<"0.0.0.0:10009", "0.0.0.0">>, <<"0.0.0.0:8080", "0.0.0.0">>,
                    <<":10009", NoHost>>, <<"[::]:10009", "::">>,
                    <<"192.168.1.5:10009", "192.168.1.5">>, <<"192.168.1.5:8080", "192.168.1.5">>}
<1>1. \A pair \in Listed : \A p \in SplitHostPort : p[1] = pair[1] => p[2] = pair[2]
  BY SMTT(60) DEF SplitHostPort
<1>2. Listed \subseteq SplitHostPort
  BY SMTT(60) DEF SplitHostPort
<1>3. \A addr \in {"0.0.0.0", "::"} : ~Has(SplitHostPort, addr)
  BY SMTT(60) DEF SplitHostPort, Has
<1>4. \A addr \in Reachable : addr \in {"0.0.0.0", "::"} \/ \E pair \in Listed : addr = pair[1]
  BY SMTT(60) DEF Reachable
<1>5. \A pair \in Listed : pair[2] \in {"0.0.0.0", NoHost, "::"} \/ pair[2] = "192.168.1.5"
  BY SMTT(60)
<1> HIDE DEF Listed
<1>6. ASSUME NEW pair \in Listed
      PROVE  Has(SplitHostPort, pair[1]) /\ For(SplitHostPort, pair[1]) = pair[2]
  BY <1>1, <1>2, TableHas
<1>7. ASSUME NEW pair \in Listed
      PROVE  ~isLoopback(pair[1]) \/ isBoundToAllInterfaces(pair[1])
  BY <1>5, <1>6 DEF isLoopback, isBoundToAllInterfaces
<1>8. \A addr \in {"0.0.0.0", "::"} : ~isLoopback(addr)
  BY <1>3 DEF isLoopback
<1> QED  BY <1>4, <1>7, <1>8

-----------------------------------------------------------------------------
(* Generated files *)

\* A sequence that consists of these members.
ListOf(s, members) == s \in Seq(members) /\ ToSet(s) = members

\* One sequence after another.
LEMMA ListOfBoth ==
  ASSUME NEW s, NEW S, ListOf(s, S), NEW t, NEW T, ListOf(t, T)
  PROVE  ListOf(s \o t, S \cup T)
<1>1. s \in Seq(S \cup T) /\ t \in Seq(S \cup T) /\ ToSet(s) = S /\ ToSet(t) = T
  BY DEF ListOf
<1>2. /\ s \o t \in Seq(S \cup T) /\ Len(s) \in Nat /\ Len(t) \in Nat
      /\ DOMAIN s = 1..Len(s) /\ DOMAIN t = 1..Len(t)
      /\ DOMAIN (s \o t) = 1..(Len(s) + Len(t))
      /\ \A i \in 1..Len(s) : (s \o t)[i] = s[i]
      /\ \A i \in 1..Len(t) : (s \o t)[Len(s) + i] = t[i]
  BY <1>1
<1>3. ToSet(s \o t) \subseteq S \cup T
  BY <1>2 DEF ToSet
<1>4. S \subseteq ToSet(s \o t)
  BY <1>1, <1>2 DEF ToSet
<1>5. T \subseteq ToSet(s \o t)
  <2>1. \A i \in 1..Len(t) : Len(s) + i \in 1..(Len(s) + Len(t))
    BY <1>2
  <2> QED  BY <1>1, <1>2, <2>1 DEF ToSet
<1> QED  BY <1>2, <1>3, <1>4, <1>5 DEF ListOf

\* These settings under a header.
Settings(header, part) == {Setting(header, kv[1], kv[2]) : kv \in part}

\* The settings of a section.
LEMMA ListOfUnder ==
  ASSUME NEW kvs, NEW KV, ListOf(kvs, KV), NEW header
  PROVE  ListOf(Under(header, kvs), Settings(header, KV))
<1>1. Len(kvs) \in Nat /\ DOMAIN kvs = 1..Len(kvs) /\ KV = {kvs[i] : i \in DOMAIN kvs}
  BY DEF ListOf, ToSet
<1> DEFINE S == {Setting(header, kv[1], kv[2]) : kv \in KV}
           u == [i \in DOMAIN kvs |-> Setting(header, kvs[i][1], kvs[i][2])]
<1>2. \A i \in DOMAIN kvs : u[i] \in S
  BY <1>1
<1>3. u \in Seq(S)
  BY <1>1, <1>2
<1>4. S \subseteq ToSet(u)
  BY <1>1 DEF ToSet
<1>5. ToSet(u) \subseteq S
  BY <1>2 DEF ToSet
<1> QED  BY <1>3, <1>4, <1>5 DEF ListOf, Under, Settings

\* Short lists.
LEMMA ListOfFew ==
  /\ ListOf(<<>>, {})
  /\ \A a : ListOf(<<a>>, {a})
  /\ \A a, b : ListOf(<<a, b>>, {a, b})
  /\ \A a, b, c : ListOf(<<a, b, c>>, {a, b, c})
  /\ \A a, b, c, d : ListOf(<<a, b, c, d>>, {a, b, c, d})
  /\ \A a, b, c, d, e : ListOf(<<a, b, c, d, e>>, {a, b, c, d, e})
<1>1. ListOf(<<>>, {})
  BY DEF ListOf, ToSet
<1>2. ASSUME NEW a PROVE ListOf(<<a>>, {a})
  BY DEF ListOf, ToSet
<1>3. ASSUME NEW a, NEW b PROVE ListOf(<<a, b>>, {a, b})
  BY DEF ListOf, ToSet
<1>4. ASSUME NEW a, NEW b, NEW c PROVE ListOf(<<a, b, c>>, {a, b, c})
  BY DEF ListOf, ToSet
<1>5. ASSUME NEW a, NEW b, NEW c, NEW d PROVE ListOf(<<a, b, c, d>>, {a, b, c, d})
  BY DEF ListOf, ToSet
<1>6. ASSUME NEW a, NEW b, NEW c, NEW d, NEW e
      PROVE  ListOf(<<a, b, c, d, e>>, {a, b, c, d, e})
  BY DEF ListOf, ToSet
<1> QED  BY <1>1, <1>2, <1>3, <1>4, <1>5, <1>6

\* What generate sets under each header.
ApplicationPart(opts) ==
  {<<"rpclisten", "127.0.0.1:10009">>, <<"restlisten", "127.0.0.1:8080">>,
   <<"debuglevel", "info">>, <<"tlsencryptkey", "true">>}
    \cup (IF opts.Tor THEN {<<"listen", "127.0.0.1:9735">>} ELSE {})
BitcoinPart ==
  {<<"bitcoin.defaultchanconfs", "3">>, <<"bitcoin.estimatemode", "CONSERVATIVE">>,
   <<"bitcoin.timelockdelta", "80">>, <<"bitcoin.minhtlc", "1000">>,
   <<"minchansize", "20000">>, <<"default-remote-max-htlcs", "30">>,
   <<"max-cltv-expiry", "2016">>, <<"enable-upfront-shutdown", "true">>,
   <<"rejectpush", "true">>}
ProtocolPart ==
  {<<"protocol.option-scid-alias", "true">>, <<"gossip.ban-threshold", "100">>}
TorPart ==
  {<<"tor.active", "true">>, <<"tor.v3", "true">>, <<"tor.streamisolation", "true">>,
   <<"tor.encryptkey", "true">>}
WatchtowerPart(opts) ==
  {<<"wtclient.active", "true">>}
    \cup (IF opts.Watchtower THEN {<<"wtclient.private-tower-uris", "03ab@tower:9911">>}
          ELSE {})

\* The lines that generate writes.
GeneratedLine(opts) ==
  Settings("Application Options", ApplicationPart(opts))
    \cup Settings("Bitcoin", BitcoinPart)
    \cup Settings("protocol", ProtocolPart)
    \cup (IF opts.Tor THEN Settings("tor", TorPart) ELSE {})
    \cup Settings("wtclient", WatchtowerPart(opts))

\* They are those that it writes, one after another.
LEMMA GeneratedMembers ==
  ASSUME NEW opts \in Options
  PROVE  ListOf(Generate(opts), GeneratedLine(opts))
<1>1. ListOf(applicationSection(opts) \o tlsSection, ApplicationPart(opts))
  <2> DEFINE first == <<Keyval("rpclisten", "127.0.0.1:10009"),
                        Keyval("restlisten", "127.0.0.1:8080"), Keyval("debuglevel", "info")>>
             tor == IF opts.Tor THEN <<Keyval("listen", "127.0.0.1:9735")>> ELSE <<>>
             F == {<<"rpclisten", "127.0.0.1:10009">>, <<"restlisten", "127.0.0.1:8080">>,
                   <<"debuglevel", "info">>}
             L == IF opts.Tor THEN {<<"listen", "127.0.0.1:9735">>} ELSE {}
             E == {<<"tlsencryptkey", "true">>}
  <2>1. ListOf(first, F) /\ ListOf(tor, L) /\ ListOf(tlsSection, E)
    BY ListOfFew DEF Keyval, tlsSection
  <2> HIDE DEF first, tor, F, L, E
  <2>2. ListOf((first \o tor) \o tlsSection, (F \cup L) \cup E)
    BY <2>1, ListOfBoth
  <2>3. (F \cup L) \cup E = ApplicationPart(opts)
    BY DEF F, L, E, ApplicationPart
  <2>4. applicationSection(opts) = first \o tor
    BY DEF applicationSection, first, tor
  <2> QED  BY <2>2, <2>3, <2>4
<1>2. ListOf(bitcoinSection \o channelSection, BitcoinPart)
  <2> DEFINE B == {<<"bitcoin.defaultchanconfs", "3">>, <<"bitcoin.estimatemode", "CONSERVATIVE">>,
                   <<"bitcoin.timelockdelta", "80">>, <<"bitcoin.minhtlc", "1000">>}
             C == {<<"minchansize", "20000">>, <<"default-remote-max-htlcs", "30">>,
                   <<"max-cltv-expiry", "2016">>, <<"enable-upfront-shutdown", "true">>,
                   <<"rejectpush", "true">>}
  <2>1. ListOf(bitcoinSection, B) /\ ListOf(channelSection, C)
    BY ListOfFew DEF Keyval, bitcoinSection, channelSection
  <2> HIDE DEF B, C
  <2>2. ListOf(bitcoinSection \o channelSection, B \cup C)
    BY <2>1, ListOfBoth
  <2> QED  BY <2>2 DEF B, C, BitcoinPart
<1>3. ListOf(protocolSection \o gossipSection, ProtocolPart)
  <2> DEFINE P == {<<"protocol.option-scid-alias", "true">>}
             G == {<<"gossip.ban-threshold", "100">>}
  <2>1. ListOf(protocolSection, P) /\ ListOf(gossipSection, G)
    BY ListOfFew DEF Keyval, protocolSection, gossipSection
  <2> HIDE DEF P, G
  <2>2. ListOf(protocolSection \o gossipSection, P \cup G)
    BY <2>1, ListOfBoth
  <2> QED  BY <2>2 DEF P, G, ProtocolPart
<1>4. ListOf(torSection, TorPart)
  BY ListOfFew DEF Keyval, torSection, TorPart
<1>5. ListOf(watchtowerSection(opts), WatchtowerPart(opts))
  <2> DEFINE one == <<Keyval("wtclient.active", "true")>>
             uri == IF opts.Watchtower
                      THEN <<Keyval("wtclient.private-tower-uris", "03ab@tower:9911")>> ELSE <<>>
             A == {<<"wtclient.active", "true">>}
             U == IF opts.Watchtower THEN {<<"wtclient.private-tower-uris", "03ab@tower:9911">>}
                  ELSE {}
  <2>1. ListOf(one, A) /\ ListOf(uri, U)
    BY ListOfFew DEF Keyval
  <2> HIDE DEF one, uri, A, U
  <2>2. ListOf(one \o uri, A \cup U)
    BY <2>1, ListOfBoth
  <2> QED  BY <2>2 DEF one, uri, A, U, watchtowerSection, WatchtowerPart
<1> DEFINE a == Under("Application Options", applicationSection(opts) \o tlsSection)
           b == Under("Bitcoin", bitcoinSection \o channelSection)
           p == Under("protocol", protocolSection \o gossipSection)
           t == IF opts.Tor THEN Under("tor", torSection) ELSE <<>>
           w == Under("wtclient", watchtowerSection(opts))
           SA == Settings("Application Options", ApplicationPart(opts))
           SB == Settings("Bitcoin", BitcoinPart)
           SP == Settings("protocol", ProtocolPart)
           ST == IF opts.Tor THEN Settings("tor", TorPart) ELSE {}
           SW == Settings("wtclient", WatchtowerPart(opts))
<1>6. ListOf(a, SA) /\ ListOf(b, SB) /\ ListOf(p, SP) /\ ListOf(w, SW)
  BY <1>1, <1>2, <1>3, <1>5, ListOfUnder
<1>7. ListOf(t, ST)
  <2>1. ListOf(Under("tor", torSection), Settings("tor", TorPart))
    BY <1>4, ListOfUnder
  <2> QED  BY <2>1, ListOfFew
<1> HIDE DEF a, b, p, t, w, SA, SB, SP, ST, SW
<1>8. ListOf(a \o b, SA \cup SB)
  BY <1>6, ListOfBoth
<1>9. ListOf((a \o b) \o p, (SA \cup SB) \cup SP)
  BY <1>6, <1>8, ListOfBoth
<1>10. ListOf(((a \o b) \o p) \o t, ((SA \cup SB) \cup SP) \cup ST)
  BY <1>7, <1>9, ListOfBoth
<1>11. ListOf((((a \o b) \o p) \o t) \o w, (((SA \cup SB) \cup SP) \cup ST) \cup SW)
  BY <1>6, <1>10, ListOfBoth
<1>12. Generate(opts) = (((a \o b) \o p) \o t) \o w
  BY DEF Generate, a, b, p, t, w
<1>13. GeneratedLine(opts) = (((SA \cup SB) \cup SP) \cup ST) \cup SW
  BY DEF GeneratedLine, SA, SB, SP, ST, SW
<1> QED  BY <1>11, <1>12, <1>13

\* A file that generate writes is a sequence of lines.
LEMMA GeneratedLines ==
  ASSUME NEW opts \in Options
  PROVE  Generate(opts) \in Seq(FileLine)
<1>1. Generate(opts) \in Seq(ToSet(Generate(opts)))
  BY GeneratedMembers DEF ListOf
<1>2. ToSet(Generate(opts)) \subseteq FileLine
  BY DEF FileLine
<1> HIDE DEF FileLine
<1>3. \A S, T : S \subseteq T => Seq(S) \subseteq Seq(T)
  OBVIOUS
<1> QED  BY <1>1, <1>2, <1>3

\* What is read of a generated file.
GeneratedRead(opts) ==
  {<<"rpclisten", "127.0.0.1:10009">>, <<"restlisten", "127.0.0.1:8080">>,
   <<"debuglevel", "info">>, <<"tlsencryptkey", "true">>,
   <<"bitcoin.defaultchanconfs", "3">>, <<"bitcoin.estimatemode", "CONSERVATIVE">>,
   <<"bitcoin.timelockdelta", "80">>, <<"bitcoin.minhtlc", "1000">>,
   <<"protocol.option-scid-alias", "true">>, <<"wtclient.active", "true">>}
    \cup (IF opts.Tor THEN {<<"listen", "127.0.0.1:9735">>} \cup TorPart ELSE {})
    \cup (IF opts.Watchtower THEN {<<"wtclient.private-tower-uris", "03ab@tower:9911">>}
          ELSE {})

\* The sections of the keys that a generated file has.
LEMMA SectionsRead ==
  /\ \A key \in {"rpclisten", "restlisten", "debuglevel", "tlsencryptkey", "listen",
                 "minchansize", "default-remote-max-htlcs", "max-cltv-expiry",
                 "enable-upfront-shutdown", "rejectpush"} :
       key \in Key /\ SectionRead(key) = "Application Options"
  /\ \A key \in {"bitcoin.defaultchanconfs", "bitcoin.estimatemode",
                 "bitcoin.timelockdelta", "bitcoin.minhtlc"} :
       key \in Key /\ SectionRead(key) = "Bitcoin"
  /\ \A key \in {"tor.active", "tor.v3", "tor.streamisolation", "tor.encryptkey"} :
       key \in Key /\ SectionRead(key) = "tor"
  /\ \A key \in {"wtclient.active", "wtclient.private-tower-uris"} :
       key \in Key /\ SectionRead(key) = "wtclient"
  /\ "protocol.option-scid-alias" \in Key
  /\ SectionRead("protocol.option-scid-alias") = "protocol"
  /\ SectionRead("gossip.ban-threshold") = "gossip"
  BY SMTT(60) DEF Key, SectionRead, ApplicationKeys, BitcoinKeys, TorKeys, WtclientKeys,
    ProtocolKeys, GossipKeys, AutopilotKeys

\* A line of a generated file is read or in another section than its key.
LEMMA GeneratedLinesRead ==
  ASSUME NEW opts \in Options
  PROVE  /\ \A pair \in GeneratedRead(opts) :
              pair[1] \in Key /\ Set(pair[1], pair[2]) \in GeneratedLine(opts)
         /\ \A l \in GeneratedLine(opts) : \A pair \in GeneratedRead(opts) :
              l.key = pair[1] => l = Set(pair[1], pair[2])
         /\ \A l \in GeneratedLine(opts) :
              /\ l.exact /\ ~l.bare
              /\ l.section = SectionRead(l.key) => <<l.key, l.value>> \in GeneratedRead(opts)
<1> DEFINE AK == {"rpclisten", "restlisten", "debuglevel", "tlsencryptkey", "listen"}
           BK == {"bitcoin.defaultchanconfs", "bitcoin.estimatemode",
                  "bitcoin.timelockdelta", "bitcoin.minhtlc"}
           TK == {"tor.active", "tor.v3", "tor.streamisolation", "tor.encryptkey"}
           WK == {"wtclient.active", "wtclient.private-tower-uris"}
           Lost == {"minchansize", "default-remote-max-htlcs", "max-cltv-expiry",
                    "enable-upfront-shutdown", "rejectpush", "gossip.ban-threshold"}
           R == GeneratedRead(opts)
<1>1. /\ \A kv \in ApplicationPart(opts) : kv[1] \in AK /\ kv = <<kv[1], kv[2]>>
      /\ \A kv \in BitcoinPart : kv[1] \in BK \cup Lost /\ kv = <<kv[1], kv[2]>>
      /\ \A kv \in ProtocolPart :
           kv[1] \in {"protocol.option-scid-alias", "gossip.ban-threshold"} /\ kv = <<kv[1], kv[2]>>
      /\ \A kv \in TorPart : kv[1] \in TK /\ kv = <<kv[1], kv[2]>>
      /\ \A kv \in WatchtowerPart(opts) : kv[1] \in WK /\ kv = <<kv[1], kv[2]>>
  BY SMTT(60) DEF ApplicationPart, BitcoinPart, ProtocolPart, TorPart, WatchtowerPart
<1>2. /\ \A key \in AK : SectionRead(key) = "Application Options"
      /\ \A key \in BK : SectionRead(key) = "Bitcoin"
      /\ \A key \in TK : SectionRead(key) = "tor"
      /\ \A key \in WK : SectionRead(key) = "wtclient"
      /\ SectionRead("protocol.option-scid-alias") = "protocol"
      /\ \A key \in Lost : SectionRead(key) \notin {"Bitcoin", "protocol"}
  BY SectionsRead
<1>3. /\ ApplicationPart(opts) \subseteq R
      /\ \A kv \in BitcoinPart : kv[1] \in BK => kv \in R
      /\ \A kv \in ProtocolPart : kv[1] = "protocol.option-scid-alias" => kv \in R
      /\ opts.Tor => TorPart \subseteq R
      /\ WatchtowerPart(opts) \subseteq R
  BY SMTT(60) DEF ApplicationPart, BitcoinPart, ProtocolPart, WatchtowerPart, GeneratedRead
<1>4. \A pair \in R : pair[1] \notin Lost
  BY SMTT(60) DEF GeneratedRead, TorPart
<1>5. R \subseteq ApplicationPart(opts) \cup BitcoinPart \cup ProtocolPart
                    \cup (IF opts.Tor THEN TorPart ELSE {}) \cup WatchtowerPart(opts)
  BY SMTT(60) DEF ApplicationPart, BitcoinPart, ProtocolPart, WatchtowerPart, GeneratedRead
<1>6. \A l \in GeneratedLine(opts) :
        \/ \E kv \in ApplicationPart(opts) : l = Setting("Application Options", kv[1], kv[2])
        \/ \E kv \in BitcoinPart : l = Setting("Bitcoin", kv[1], kv[2])
        \/ \E kv \in ProtocolPart : l = Setting("protocol", kv[1], kv[2])
        \/ opts.Tor /\ \E kv \in TorPart : l = Setting("tor", kv[1], kv[2])
        \/ \E kv \in WatchtowerPart(opts) : l = Setting("wtclient", kv[1], kv[2])
  BY DEF GeneratedLine, Settings
<1>7. \A section, key, value :
        LET l == Setting(section, key, value)
        IN  l.section = section /\ l.key = key /\ l.value = value /\ l.exact /\ ~l.bare
  BY DEF Setting
<1>8. /\ \A kv \in ApplicationPart(opts) : SectionRead(kv[1]) = "Application Options"
      /\ \A kv \in TorPart : SectionRead(kv[1]) = "tor"
      /\ \A kv \in WatchtowerPart(opts) : SectionRead(kv[1]) = "wtclient"
  BY <1>1, <1>2
<1>9. \A kv \in BitcoinPart :
        \/ SectionRead(kv[1]) = "Bitcoin" /\ kv \in R
        \/ SectionRead(kv[1]) # "Bitcoin" /\ \A pair \in R : pair[1] # kv[1]
  BY <1>1, <1>2, <1>3, <1>4
<1>10. \A kv \in ProtocolPart :
        \/ SectionRead(kv[1]) = "protocol" /\ kv \in R
        \/ SectionRead(kv[1]) # "protocol" /\ \A pair \in R : pair[1] # kv[1]
  <2> SUFFICES ASSUME NEW kv \in ProtocolPart
               PROVE  \/ SectionRead(kv[1]) = "protocol" /\ kv \in R
                      \/ SectionRead(kv[1]) # "protocol" /\ \A pair \in R : pair[1] # kv[1]
    OBVIOUS
  <2>1. CASE kv[1] = "protocol.option-scid-alias"
    BY <2>1, <1>2, <1>3
  <2>2. CASE kv[1] = "gossip.ban-threshold"
    <3>1. kv[1] \in Lost
      BY <2>2
    <3> QED  BY <3>1, <1>2, <1>4
  <2> QED  BY <1>1, <2>1, <2>2
<1>11. \A p, q \in R : p[1] = q[1] => p[2] = q[2]
  BY SMTT(60) DEF GeneratedRead, TorPart, R
<1> HIDE DEF AK, BK, TK, WK, Lost
<1>12. \A pair \in R :
        \/ SectionRead(pair[1]) = "Application Options" /\ pair \in ApplicationPart(opts)
        \/ SectionRead(pair[1]) = "Bitcoin" /\ pair \in BitcoinPart
        \/ SectionRead(pair[1]) = "protocol" /\ pair \in ProtocolPart
        \/ SectionRead(pair[1]) = "tor" /\ pair \in TorPart /\ opts.Tor
        \/ SectionRead(pair[1]) = "wtclient" /\ pair \in WatchtowerPart(opts)
  BY <1>8, <1>9, <1>10, <1>5
<1>13. ASSUME NEW l, NEW section, NEW kv, kv = <<kv[1], kv[2]>>,
             l = Setting(section, kv[1], kv[2])
      PROVE  /\ l.exact /\ ~l.bare
             /\ l = Setting(l.section, l.key, l.value)
             /\ l.section = section /\ l.key = kv[1] /\ <<l.key, l.value>> = kv
  BY <1>7, <1>13
<1>14. \A pair \in GeneratedRead(opts) : pair[1] \in Key
  BY <1>2, <1>1, <1>4, <1>5, SectionsRead DEF R, AK, BK, TK, WK, Lost
<1>15. \A pair \in GeneratedRead(opts) : Set(pair[1], pair[2]) \in GeneratedLine(opts)
  BY <1>12 DEF R, GeneratedLine, Settings, Set
<1>16. ASSUME NEW l \in GeneratedLine(opts)
       PROVE  /\ l.exact /\ ~l.bare
              /\ l = Setting(l.section, l.key, l.value)
              /\ \/ l.section = SectionRead(l.key) /\ <<l.key, l.value>> \in R
                 \/ /\ l.section # SectionRead(l.key)
                    /\ \A pair \in R : pair[1] # l.key
  <2>1. CASE \E kv \in ApplicationPart(opts) : l = Setting("Application Options", kv[1], kv[2])
    <3>1. PICK kv \in ApplicationPart(opts) : l = Setting("Application Options", kv[1], kv[2])
      BY <2>1
    <3>2. kv = <<kv[1], kv[2]>>
      BY <1>1
    <3>3. /\ l.exact /\ ~l.bare /\ l = Setting(l.section, l.key, l.value)
          /\ l.section = "Application Options" /\ l.key = kv[1] /\ <<l.key, l.value>> = kv
      BY <3>1, <3>2, <1>13
    <3> QED  BY <2>1, <3>3, <1>8, <1>3
  <2>2. CASE \E kv \in BitcoinPart : l = Setting("Bitcoin", kv[1], kv[2])
    <3>1. PICK kv \in BitcoinPart : l = Setting("Bitcoin", kv[1], kv[2])
      BY <2>2
    <3>2. kv = <<kv[1], kv[2]>>
      BY <1>1
    <3>3. /\ l.exact /\ ~l.bare /\ l = Setting(l.section, l.key, l.value)
          /\ l.section = "Bitcoin" /\ l.key = kv[1] /\ <<l.key, l.value>> = kv
      BY <3>1, <3>2, <1>13
    <3> QED  BY <2>2, <3>3, <1>9
  <2>3. CASE \E kv \in ProtocolPart : l = Setting("protocol", kv[1], kv[2])
    <3>1. PICK kv \in ProtocolPart : l = Setting("protocol", kv[1], kv[2])
      BY <2>3
    <3>2. kv = <<kv[1], kv[2]>>
      BY <1>1
    <3>3. /\ l.exact /\ ~l.bare /\ l = Setting(l.section, l.key, l.value)
          /\ l.section = "protocol" /\ l.key = kv[1] /\ <<l.key, l.value>> = kv
      BY <3>1, <3>2, <1>13
    <3> QED  BY <2>3, <3>3, <1>10
  <2>4. CASE opts.Tor /\ \E kv \in TorPart : l = Setting("tor", kv[1], kv[2])
    <3>1. PICK kv \in TorPart : l = Setting("tor", kv[1], kv[2])
      BY <2>4
    <3>2. kv = <<kv[1], kv[2]>>
      BY <1>1
    <3>3. /\ l.exact /\ ~l.bare /\ l = Setting(l.section, l.key, l.value)
          /\ l.section = "tor" /\ l.key = kv[1] /\ <<l.key, l.value>> = kv
      BY <3>1, <3>2, <1>13
    <3> QED  BY <2>4, <3>3, <1>8, <1>3
  <2>5. CASE \E kv \in WatchtowerPart(opts) : l = Setting("wtclient", kv[1], kv[2])
    <3>1. PICK kv \in WatchtowerPart(opts) : l = Setting("wtclient", kv[1], kv[2])
      BY <2>5
    <3>2. kv = <<kv[1], kv[2]>>
      BY <1>1
    <3>3. /\ l.exact /\ ~l.bare /\ l = Setting(l.section, l.key, l.value)
          /\ l.section = "wtclient" /\ l.key = kv[1] /\ <<l.key, l.value>> = kv
      BY <3>1, <3>2, <1>13
    <3> QED  BY <2>5, <3>3, <1>8, <1>3
  <2> QED  BY <1>6, <2>1, <2>2, <2>3, <2>4, <2>5
<1>17. ASSUME NEW l \in GeneratedLine(opts), NEW pair \in GeneratedRead(opts), l.key = pair[1]
       PROVE  l = Set(pair[1], pair[2])
  <2>1. l.section = SectionRead(l.key) /\ <<l.key, l.value>> \in GeneratedRead(opts)
    BY <1>16, <1>17 DEF R
  <2>2. l.value = pair[2]
    BY <1>11, <1>17, <2>1 DEF R
  <2> QED  BY <1>16, <1>17, <2>1, <2>2 DEF Set
<1> QED  BY <1>14, <1>15, <1>16, <1>17 DEF R

\* So this is what the checks read of it.
LEMMA GeneratedValues ==
  ASSUME NEW opts \in Options
  PROVE  LET cfg == ParseBytes(Generate(opts))
         IN  /\ \A pair \in GeneratedRead(opts) :
                  /\ KeyString(cfg, pair[1]) = pair[2]
                  /\ Multi(cfg, pair[1]) = {pair[2]} \ {""}
             /\ \A key \in Key : (\A pair \in GeneratedRead(opts) : pair[1] # key) =>
                  KeyString(cfg, key) = "" /\ Multi(cfg, key) = {}
<1> DEFINE conf == Generate(opts)
           cfg == ParseBytes(conf)
<1>1. conf \in Seq(GeneratedLine(opts)) /\ ToSet(conf) = GeneratedLine(opts)
  BY GeneratedMembers DEF ListOf
<1>2. conf \in Seq(FileLine)
  BY GeneratedLines
<1> HIDE DEF conf
<1>3. /\ \A i \in DOMAIN conf : conf[i] \in GeneratedLine(opts)
      /\ \A l \in GeneratedLine(opts) : \E i \in DOMAIN conf : conf[i] = l
  BY <1>1 DEF ToSet
<1>4. \A pair \in GeneratedRead(opts) : pair[1] \in Key
  BY GeneratedLinesRead
<1>5. ASSUME NEW pair \in GeneratedRead(opts)
      PROVE  KeyString(cfg, pair[1]) = pair[2] /\ Multi(cfg, pair[1]) = {pair[2]} \ {""}
  <2>1. PICK i \in DOMAIN conf : conf[i] = Set(pair[1], pair[2])
    BY <1>3, GeneratedLinesRead
  <2>2. conf[i].key = pair[1]
    BY <2>1 DEF Set, Setting
  <2>3. \A j \in DOMAIN conf : conf[j].key = pair[1] => conf[j] = Set(pair[1], pair[2])
    BY <1>3, GeneratedLinesRead
  <2>4. SetsOnly(conf, pair[1], pair[2])
    BY <2>2, <2>3 DEF SetsOnly
  <2> QED  BY <1>2, <1>4, <2>4, OneValueIsRead
<1>6. ASSUME NEW key \in Key, \A pair \in GeneratedRead(opts) : pair[1] # key
      PROVE  KeyString(cfg, key) = "" /\ Multi(cfg, key) = {}
  <2>1. ASSUME NEW i \in DOMAIN conf, conf[i].key = key, conf[i].section = SectionRead(key)
        PROVE  FALSE
    <3>1. <<conf[i].key, conf[i].value>> \in GeneratedRead(opts)
      BY <1>3, <2>1, GeneratedLinesRead
    <3> QED  BY <1>6, <2>1, <3>1
  <2>2. ValuesIn(conf, key) = <<>>
    BY <2>1 DEF ValuesIn
  <2>3. cfg[key] = <<>>
    BY <2>2 DEF ParseBytes
  <2> QED  BY <2>3 DEF KeyString, Multi, Range
<1> QED  BY <1>5, <1>6 DEF conf

\* The keys that are not read of any generated file, though it may have them.
Unread ==
  {"no-macaroons", "debughtlc", "noencryptwallet", "unsafe-disconnect",
   "tor.skip-proxy-for-clearnet-targets", "allow-circular-route", "requireinterceptor",
   "protocol.zero-conf", "protocol.no-anchors", "protocol.wumbo-channels",
   "autopilot.active", "no-rest-tls", "wallet-unlock-allow-create", "noseedbackup",
   "trickledelay", "nat", "externalip", "accept-keysend", "accept-amp", "restcors",
   "default-remote-max-htlcs", "max-cltv-expiry", "minchansize", "gossip.ban-threshold"}

\* What the checks see of one that opts made.
SeesGenerated(cfg, opts) ==
  /\ \A key \in Unread : KeyString(cfg, key) = "" /\ Multi(cfg, key) = {}
  /\ KeyString(cfg, "debuglevel") = "info"
  /\ KeyString(cfg, "bitcoin.estimatemode") = "CONSERVATIVE"
  /\ \A key \in {"tlsencryptkey", "protocol.option-scid-alias", "wtclient.active"} :
       KeyString(cfg, key) = "true"
  /\ KeyInt(cfg, "bitcoin.defaultchanconfs") = 3
  /\ KeyInt(cfg, "bitcoin.timelockdelta") = 80
  /\ KeyInt(cfg, "bitcoin.minhtlc") = 1000
  /\ Multi(cfg, "rpclisten") = {"127.0.0.1:10009"}
  /\ Multi(cfg, "restlisten") = {"127.0.0.1:8080"}
  /\ IF opts.Tor
       THEN /\ TorActive(cfg)
            /\ \A key \in {"tor.v3", "tor.streamisolation", "tor.encryptkey"} :
                 KeyString(cfg, key) = "true"
       ELSE ~TorActive(cfg) /\ Multi(cfg, "listen") = {}
  /\ opts.Watchtower =>
       Multi(cfg, "wtclient.private-tower-uris") = {"03ab@tower:9911"}
  /\ ~opts.Watchtower => Multi(cfg, "wtclient.private-tower-uris") = {}

\* They do.
LEMMA GeneratedSeen ==
  ASSUME NEW opts \in Options
  PROVE  SeesGenerated(ParseBytes(Generate(opts)), opts)
<1> DEFINE cfg == ParseBytes(Generate(opts))
           R == GeneratedRead(opts)
<1>1. /\ \A pair \in R : /\ KeyString(cfg, pair[1]) = pair[2]
                         /\ Multi(cfg, pair[1]) = {pair[2]} \ {""}
      /\ \A key \in Key : (\A pair \in R : pair[1] # key) =>
           KeyString(cfg, key) = "" /\ Multi(cfg, key) = {}
  BY GeneratedValues
<1> HIDE DEF cfg
<1>2. Unread \subseteq Key
  BY SMTT(60) DEF Unread, Key, ApplicationKeys, BitcoinKeys, TorKeys, ProtocolKeys, GossipKeys,
    AutopilotKeys
<1>3. \A pair \in R : pair[1] \notin Unread
  BY SMTT(60) DEF Unread, GeneratedRead, TorPart
<1>4. \A key \in Unread : KeyString(cfg, key) = "" /\ Multi(cfg, key) = {}
  BY <1>1, <1>2, <1>3
<1>5. /\ <<"debuglevel", "info">> \in R
      /\ <<"bitcoin.estimatemode", "CONSERVATIVE">> \in R
      /\ \A key \in {"tlsencryptkey", "protocol.option-scid-alias", "wtclient.active"} :
           <<key, "true">> \in R
      /\ <<"bitcoin.defaultchanconfs", "3">> \in R
      /\ <<"bitcoin.timelockdelta", "80">> \in R
      /\ <<"bitcoin.minhtlc", "1000">> \in R
      /\ <<"rpclisten", "127.0.0.1:10009">> \in R
      /\ <<"restlisten", "127.0.0.1:8080">> \in R
      /\ opts.Tor => TorPart \subseteq R
      /\ opts.Watchtower => <<"wtclient.private-tower-uris", "03ab@tower:9911">> \in R
  BY SMTT(60) DEF GeneratedRead
<1>6. /\ ~opts.Tor => \A pair \in R : pair[1] \notin {"tor.active", "listen"}
      /\ ~opts.Watchtower => \A pair \in R : pair[1] # "wtclient.private-tower-uris"
  BY SMTT(60) DEF GeneratedRead, TorPart
<1>7. {"tor.active", "listen", "wtclient.private-tower-uris"} \subseteq Key
  BY DEF Key, ApplicationKeys, TorKeys, WtclientKeys
<1> HIDE DEF R
<1>8. \A key, value : <<key, value>> \in R =>
        KeyString(cfg, key) = value /\ Multi(cfg, key) = {value} \ {""}
  <2> SUFFICES ASSUME NEW key, NEW value, <<key, value>> \in R
               PROVE  KeyString(cfg, key) = value /\ Multi(cfg, key) = {value} \ {""}
    OBVIOUS
  <2>1. <<key, value>>[1] = key /\ <<key, value>>[2] = value
    OBVIOUS
  <2> QED  BY <1>1, <2>1
<1>9. /\ KeyInt(cfg, "bitcoin.defaultchanconfs") = 3
      /\ KeyInt(cfg, "bitcoin.timelockdelta") = 80
      /\ KeyInt(cfg, "bitcoin.minhtlc") = 1000
  <2>1. /\ KeyString(cfg, "bitcoin.defaultchanconfs") = <<"3", 3>>[1]
        /\ KeyString(cfg, "bitcoin.timelockdelta") = <<"80", 80>>[1]
        /\ KeyString(cfg, "bitcoin.minhtlc") = <<"1000", 1000>>[1]
    BY <1>5, <1>8
  <2>2. /\ <<"3", 3>> \in Written /\ <<"80", 80>> \in Written /\ <<"1000", 1000>> \in Written
    BY DEF Written
  <2>3. /\ KeyInt(cfg, "bitcoin.defaultchanconfs") = <<"3", 3>>[2]
        /\ KeyInt(cfg, "bitcoin.timelockdelta") = <<"80", 80>>[2]
        /\ KeyInt(cfg, "bitcoin.minhtlc") = <<"1000", 1000>>[2]
    BY <2>1, <2>2, SuggestedNumbers
  <2> QED  BY <2>3
<1>10. opts.Tor => /\ KeyString(cfg, "tor.active") = "true"
                   /\ \A key \in {"tor.v3", "tor.streamisolation", "tor.encryptkey"} :
                        KeyString(cfg, key) = "true"
  BY <1>5, <1>8 DEF TorPart
<1>11. ~opts.Tor => KeyString(cfg, "tor.active") = "" /\ Multi(cfg, "listen") = {}
  BY <1>1, <1>6, <1>7
<1>12. /\ opts.Tor => TorActive(cfg)
       /\ ~opts.Tor => ~TorActive(cfg)
  BY <1>10, <1>11 DEF TorActive, KeyBool
<1>13. /\ KeyString(cfg, "debuglevel") = "info"
       /\ KeyString(cfg, "bitcoin.estimatemode") = "CONSERVATIVE"
       /\ \A key \in {"tlsencryptkey", "protocol.option-scid-alias", "wtclient.active"} :
            KeyString(cfg, key) = "true"
  BY <1>5, <1>8
<1>14. /\ Multi(cfg, "rpclisten") = {"127.0.0.1:10009"}
       /\ Multi(cfg, "restlisten") = {"127.0.0.1:8080"}
       /\ opts.Watchtower =>
            Multi(cfg, "wtclient.private-tower-uris") = {"03ab@tower:9911"}
  <2>1. /\ "127.0.0.1:10009" # "" /\ "127.0.0.1:8080" # "" /\ "03ab@tower:9911" # ""
        /\ \A v : v # "" => {v} \ {""} = {v}
    OBVIOUS
  <2> QED  BY <1>5, <1>8, <2>1
<1>15. ~opts.Watchtower => Multi(cfg, "wtclient.private-tower-uris") = {}
  BY <1>1, <1>6, <1>7
<1> QED  BY <1>4, <1>9, <1>10, <1>11, <1>12, <1>13, <1>14, <1>15 DEF SeesGenerated, cfg

\* So each check finds nothing but what the template leaves open.
LEMMA GeneratedFindings ==
  ASSUME NEW opts \in Options, NEW f \in FindingsIn(Generate(opts))
  PROVE  f.ID \in {"C-4", "C-5", "P-2", "P-4"} \cup (IF opts.Watchtower THEN {} ELSE {"C-6"})
<1> DEFINE cfg == ParseBytes(Generate(opts))
           IDs == {"C-4", "C-5", "P-2", "P-4"} \cup (IF opts.Watchtower THEN {} ELSE {"C-6"})
<1>1. f \in ConfigFindings(cfg)
  BY DEF FindingsIn
<1>15. SeesGenerated(cfg, opts)
  BY GeneratedSeen
<1> HIDE DEF cfg
<1>2. \A key \in Unread : /\ ~KeyBool(cfg, key) /\ ~Explicit(cfg, key)
                          /\ KeyString(cfg, key) = "" /\ Multi(cfg, key) = {}
  BY <1>15 DEF SeesGenerated, KeyBool, Explicit
<1>3. \A key \in {"tlsencryptkey", "protocol.option-scid-alias", "wtclient.active"} :
        KeyBool(cfg, key)
  BY <1>15 DEF SeesGenerated, KeyBool
<1>4. \A key \in {"rpclisten", "restlisten"} : \A a \in Multi(cfg, key) :
        isLoopback(a) /\ ~isBoundToAllInterfaces(a)
  <2>1. /\ Multi(cfg, "rpclisten") = {"127.0.0.1:10009"}
        /\ Multi(cfg, "restlisten") = {"127.0.0.1:8080"}
    BY <1>15 DEF SeesGenerated
  <2> QED  BY <2>1, SuggestedAddresses
<1>5. Clearnet(cfg) = {}
  BY <1>2 DEF Clearnet, Unread
<1>6. f \notin CheckRPCBindAddress(cfg) \cup CheckExternalIPLeak(cfg)
  BY <1>4, <1>5 DEF CheckRPCBindAddress, CheckExternalIPLeak, Report
<1>7. f \notin CheckTLSHardening(cfg) \cup CheckNoMacaroons(cfg) \cup CheckDangerousFlags(cfg)
                 \cup CheckDangerousFlagsExtended(cfg)
  <2>1. KeyString(cfg, "debuglevel") = "info"
    BY <1>15 DEF SeesGenerated
  <2> QED  BY <1>2, <1>3, <2>1 DEF Unread, CheckTLSHardening, CheckNoMacaroons,
      CheckDangerousFlags, CheckDangerousFlagsExtended, Report
<1>8. f \notin CheckTorConfig(cfg) \cup CheckPrivacySettings(cfg)
  <2>1. TorActive(cfg) => \A key \in {"tor.v3", "tor.streamisolation", "tor.encryptkey"} :
                            KeyBool(cfg, key)
    BY <1>15 DEF SeesGenerated, KeyBool
  <2> QED  BY <1>2, <1>3, <2>1 DEF Unread, CheckTorConfig, CheckPrivacySettings, Report
<1>9. f \in CheckChannelSafety(cfg) => f.ID \in {"C-4", "C-5"}
  <2>1. KeyInt(cfg, "bitcoin.defaultchanconfs") = 3
    BY <1>15 DEF SeesGenerated
  <2> QED  BY <1>3, <2>1 DEF CheckChannelSafety, Report, Finding
<1>10. f \in CheckWatchtowerConnectivity(cfg) => f.ID = "C-6" /\ ~opts.Watchtower
  <2>1. /\ opts.Watchtower =>
             Multi(cfg, "wtclient.private-tower-uris") = {"03ab@tower:9911"}
        /\ ~opts.Watchtower => Multi(cfg, "wtclient.private-tower-uris") = {}
    BY <1>15 DEF SeesGenerated
  <2>2. "03ab@tower:9911" \in WellFormedTowers
    BY DEF WellFormedTowers
  <2> QED  BY <2>1, <2>2 DEF CheckWatchtowerConnectivity, Report, Finding
<1>11. f \notin CheckNetworkExposure(cfg)
  <2>1. \A key \in {"rpclisten", "restlisten"} : ~Exposed(cfg, key)
    BY <1>4 DEF Exposed
  <2>2. TorActive(cfg) \/ Multi(cfg, "listen") = {}
    BY <1>15 DEF SeesGenerated
  <2>3. ~(Cardinality(Clearnet(cfg)) > 1)
    BY <1>5, FS_EmptySet
  <2> QED  BY <1>2, <2>1, <2>2, <2>3 DEF Unread, CheckNetworkExposure, Report
<1>12. f \in CheckChannelPolicy(cfg) => f.ID \in {"P-2", "P-4"}
  <2>1. /\ ~KeyBool(cfg, "allow-circular-route")
        /\ ~Explicit(cfg, "default-remote-max-htlcs") /\ ~Explicit(cfg, "max-cltv-expiry")
        /\ ~Explicit(cfg, "minchansize")
    BY <1>2 DEF Unread
  <2> QED  BY <2>1 DEF CheckChannelPolicy, Report, Finding
<1>13. f \notin CheckBitcoinPolicy(cfg)
  <2>1. /\ KeyInt(cfg, "bitcoin.timelockdelta") = 80 /\ KeyInt(cfg, "bitcoin.minhtlc") = 1000
        /\ KeyString(cfg, "bitcoin.estimatemode") = "CONSERVATIVE"
    BY <1>15 DEF SeesGenerated
  <2> QED  BY <2>1 DEF CheckBitcoinPolicy, Report
<1>14. f \notin CheckPaymentSecurity(cfg) \cup CheckProtocolSecurity(cfg)
                  \cup CheckAutopilotSecurity(cfg) \cup CheckGossipSecurity(cfg)
  BY <1>2 DEF Unread, CheckPaymentSecurity, CheckProtocolSecurity, CheckAutopilotSecurity,
    CheckGossipSecurity, Report
<1> QED  BY <1>1, <1>6, <1>7, <1>8, <1>9, <1>10, <1>11, <1>12, <1>13, <1>14
  DEF ConfigFindings

-----------------------------------------------------------------------------
(* The invariant *)

\* conf is the file before with some of what it was suggested applied.
IsApplied(old, keys, conf) ==
  LET sgs == SuggestionsFrom(FindingsIn(old))
  IN  keys \subseteq DOMAIN sgs /\ conf = Merged(old, keys, sgs)

\* The operator sees what the last run made of the file it scanned, and changes
\* the file by the patch of that run only.
PatchInv ==
  /\ file \in Seq(FileLine) /\ scanned \in Seq(FileLine) /\ before \in Seq(FileLine)
  /\ runs \in Nat
  /\ phase \in {"edit", "suggested", "applied"}
  /\ phase = "edit" => runs = 0
  /\ phase # "edit" => /\ findings = FindingsIn(scanned)
                       /\ suggestions = SuggestionsFrom(findings)
  /\ phase = "suggested" => file = scanned
  /\ phase = "applied" => IsApplied(scanned, applied, file)
  /\ Rescanned => IsApplied(before, applied, scanned)

\* PatchInv holds at first.
LEMMA PatchInit == Init => PatchInv
<1> SUFFICES ASSUME Init PROVE PatchInv
  OBVIOUS
<1>1. <<>> \in Seq(FileLine)
  OBVIOUS
<1>2. file \in Seq(FileLine)
  BY <1>1, GeneratedLines DEF Init
<1> QED  BY <1>1, <1>2 DEF Init, PatchInv, Rescanned

\* Every step keeps it.
LEMMA PatchNext == PatchInv /\ [Next]_vars => PatchInv'
<1> SUFFICES ASSUME PatchInv, [Next]_vars PROVE PatchInv'
  OBVIOUS
<1>1. ASSUME NEW setting \in Edits, Edit(setting) PROVE PatchInv'
  <2>1. setting \in FileLine
    BY DEF FileLine
  <2>2. file' \in Seq(FileLine)
    BY <1>1, <2>1 DEF Edit, PatchInv
  <2> QED  BY <1>1, <2>2 DEF Edit, PatchInv, Rescanned
<1>2. CASE SuggestConfig
  <2>1. /\ findings' = FindingsIn(scanned') /\ suggestions' = SuggestionsFrom(findings')
        /\ file' = scanned' /\ phase' = "suggested" /\ runs' = runs + 1
        /\ scanned' = file /\ before' = scanned /\ applied' = applied
    BY <1>2 DEF SuggestConfig
  <2>2. Rescanned' => phase = "applied"
    BY <1>2, <2>1 DEF SuggestConfig, PatchInv, Rescanned
  <2>3. Rescanned' => IsApplied(before', applied', scanned')
    BY <2>1, <2>2 DEF PatchInv
  <2> QED  BY <2>1, <2>3 DEF PatchInv
<1>3. ASSUME NEW keys \in SUBSET DOMAIN suggestions, Apply(keys) PROVE PatchInv'
  <2>1. /\ file' = Merged(file, keys, suggestions) /\ applied' = keys
        /\ phase' = "applied"
        /\ UNCHANGED <<findings, suggestions, manualActions, edits, runs, scanned, before>>
    BY <1>3 DEF Apply, Merge, Merged
  <2>2. file = scanned /\ suggestions = SuggestionsFrom(FindingsIn(scanned))
    BY <1>3 DEF Apply, PatchInv
  <2>3. IsApplied(scanned', applied', file')
    BY <2>1, <2>2 DEF IsApplied
  <2>4. file' \in Seq(FileLine)
    BY <2>1, <2>2, MergePatches DEF PatchInv
  <2>5. ~Rescanned'
    BY <2>1 DEF Rescanned
  <2> QED  BY <1>3, <2>1, <2>2, <2>3, <2>4, <2>5 DEF Apply, PatchInv
<1>4. CASE UNCHANGED vars
  BY <1>4 DEF vars, PatchInv, Rescanned
<1>5. CASE ApplyLine
  BY <1>3, <1>5 DEF ApplyLine
<1>6. CASE ApplyAll
  BY <1>3, <1>6 DEF ApplyAll
<1> QED  BY <1>1, <1>2, <1>4, <1>5, <1>6 DEF Next

\* It is an invariant.
LEMMA PatchInvariance == Spec => []PatchInv
<1>1. Init => PatchInv
  BY PatchInit
<1>2. PatchInv /\ [Next]_vars => PatchInv'
  BY PatchNext
<1> QED  BY <1>1, <1>2, PTL DEF Spec

\* What the scan after a patch reads improves on what was read before, or would
\* have been without bare keys.
LEMMA PatchImproves ==
  ASSUME PatchInv, Rescanned
  PROVE  \E conf \in {before, SpelledOut(before)} :
           Improves(ParseBytes(scanned), ParseBytes(conf), applied)
<1>1. IsApplied(before, applied, scanned) /\ before \in Seq(FileLine) /\ scanned \in Seq(FileLine)
  BY DEF PatchInv
<1>2. applied \in SUBSET DOMAIN SuggestionsFrom(FindingsIn(before))
  BY <1>1 DEF IsApplied
<1>3. IsPatched(before, applied, scanned)
  BY <1>1, <1>2, MergePatches DEF IsApplied
<1>4. applied \in SUBSET {s[2] : s \in Suggested}
  BY <1>2, SuggestionsFollowTheTable
<1>5. Advised(ParseBytes(scanned), applied)
  BY <1>1, <1>3, <1>4, PatchedIsRead
<1>6. PICK conf \in {before, SpelledOut(before)} : \A key \in Key \ applied :
        ParseBytes(scanned)[key] = ParseBytes(conf)[key]
  BY <1>1, <1>3, <1>4, PatchedIsRead
<1> QED  BY <1>4, <1>5, <1>6 DEF Improves

\* Whatever an operator writes and whatever of the patch is applied, the finding
\* that a setting was suggested for is gone.  (suggest.go:58-150)
THEOREM PatchFixes == Spec => []PatchFixesItsFindings
<1>1. PatchInv => PatchFixesItsFindings
  <2> SUFFICES ASSUME PatchInv, Rescanned, NEW f \in findings, NEW key \in applied,
                      SourceOf(f, key)
               PROVE  SharedID(f)
    BY DEF PatchFixesItsFindings
  <2>1. PICK old : Improves(ParseBytes(scanned), old, applied)
    BY PatchImproves
  <2>2. f \in ConfigFindings(ParseBytes(scanned))
    BY DEF PatchInv, Rescanned, FindingsIn
  <2> QED  BY <2>1, <2>2, NothingNew DEF SourceOf
<1> QED  BY <1>1, PatchInvariance, PTL

\* Nor does it bring a finding that the file with its bare keys spelled out did
\* not have, but for the towers of a client it activates.  (suggest.go:58-150)
THEOREM PatchIsSafe == Spec => []PatchCausesNothingNew
<1>1. PatchInv => PatchCausesNothingNew
  <2> SUFFICES ASSUME PatchInv, Rescanned, NEW f \in findings \ EarlierFindings
               PROVE  \/ f.ID \in {"C-6", "C-9"} /\ "wtclient.active" \in applied
                         /\ "C-1" \in ManualActionsFrom(EarlierFindings)
                      \/ f \in FindingsIn(SpelledOut(before))
    BY DEF PatchCausesNothingNew
  <2>1. PICK conf \in {before, SpelledOut(before)} :
          Improves(ParseBytes(scanned), ParseBytes(conf), applied)
    BY PatchImproves
  <2>2. f \in ConfigFindings(ParseBytes(scanned))
    BY DEF PatchInv, Rescanned, FindingsIn
  <2>3. \/ f \in FindingsIn(conf)
        \/ f.ID \in {"C-6", "C-9"} /\ "wtclient.active" \in applied
    BY <2>1, <2>2, NothingNew DEF FindingsIn
  <2>4. ASSUME "wtclient.active" \in applied
        PROVE  "C-1" \in ManualActionsFrom(EarlierFindings)
    <3>1. "wtclient.active" \in DOMAIN SuggestionsFrom(EarlierFindings)
      BY <2>4 DEF PatchInv, IsApplied, EarlierFindings
    <3>2. PICK s \in Suggested : s[2] = "wtclient.active" /\ \E g \in EarlierFindings : g.ID = s[1]
      BY <3>1, SuggestionsFollowTheTable
    <3>3. s[1] = "C-1"
      BY <3>2, SMTT(60) DEF Suggested
    <3> QED  BY <3>2, <3>3 DEF ManualActionsFrom, Manual
  <2> QED  BY <2>3, <2>4 DEF EarlierFindings
<1> QED  BY <1>1, PatchInvariance, PTL

\* A listener that other machines reach is reported.  (transport.go:164-194,
\* exposure.go:70-96)
THEOREM ListenersReported == Spec => []ReachableListenersAreReported
<1>1. PatchInv => ReachableListenersAreReported
  <2> SUFFICES ASSUME PatchInv, phase = "suggested", NEW i \in DOMAIN scanned,
                      ShadowLoads(scanned), scanned[i].exact,
                      scanned[i].key \in {"rpclisten", "restlisten"},
                      scanned[i].section = SectionRead(scanned[i].key),
                      scanned[i].value \in Reachable,
                      TorActive(ParseBytes(scanned)) => isBoundToAllInterfaces(scanned[i].value)
               PROVE  \E f \in findings : f.ID \in
                        IF scanned[i].key = "rpclisten" THEN {"T-3", "N-4"} ELSE {"T-3b", "N-5"}
    BY DEF ReachableListenersAreReported
  <2> DEFINE cfg == ParseBytes(scanned)
             key == scanned[i].key
             addr == scanned[i].value
  <2>1. addr \in Multi(cfg, key)
    <3>1. key \in Key
      BY DEF Key, ApplicationKeys
    <3>2. cfg[key] = ValuesIn(scanned, key)
      BY <3>1 DEF ParseBytes
    <3>3. i \in DOMAIN cfg[key] /\ cfg[key][i] = addr
      BY <3>2 DEF ValuesIn
    <3>4. addr # ""
      BY DEF Reachable
    <3> QED  BY <3>3, <3>4 DEF Multi, Range
  <2>2. ~isLoopback(addr) \/ isBoundToAllInterfaces(addr)
    BY ReachableAddresses
  <2>3. \E f \in ConfigFindings(cfg) : f.ID \in
          IF key = "rpclisten" THEN {"T-3", "N-4"} ELSE {"T-3b", "N-5"}
    <3> HIDE DEF cfg, addr
    <3>1. CASE isBoundToAllInterfaces(addr)
      <4>1. Finding(IF key = "rpclisten" THEN "T-3" ELSE "T-3b", "transport")
              \in CheckRPCBindAddress(cfg)
        BY <2>1, <3>1 DEF CheckRPCBindAddress, Report
      <4> QED  BY <4>1 DEF ConfigFindings, Finding
    <3>2. CASE ~isBoundToAllInterfaces(addr)
      <4>1. ~TorActive(cfg)
        BY <3>2 DEF cfg, addr
      <4>2. Exposed(cfg, key)
        BY <2>1, <2>2, <3>2, <4>1 DEF Exposed
      <4>3. Finding(IF key = "rpclisten" THEN "N-4" ELSE "N-5", "transport")
              \in CheckNetworkExposure(cfg)
        BY <4>2 DEF CheckNetworkExposure, Report
      <4> QED  BY <4>3 DEF ConfigFindings, Finding
    <3> QED  BY <3>1, <3>2
  <2> QED  BY <2>3 DEF PatchInv, FindingsIn
<1> QED  BY <1>1, PatchInvariance, PTL

\* A generated file has no finding but those of its template.  (confgen.go:42-84)
THEOREM GeneratedHardened == Spec => []GeneratedIsHardened
<1>1. PatchInv => GeneratedIsHardened
  BY GeneratedFindings DEF PatchInv, GeneratedIsHardened
<1> QED  BY <1>1, PatchInvariance, PTL
=============================================================================
