----------------------------- MODULE MCFileScan -----------------------------
(***************************************************************************)
(* FileScan on a home with an LND directory, another data directory, a     *)
(* directory that goes deeper than the walks, one that they skip, one that *)
(* cannot be read and a symbolic link; and a data directory elsewhere.     *)
(***************************************************************************)
EXTENDS FileScan

home == 1       dotLnd == 2     lndData == 3    lndChain == 4   node == 5       nodeChain == 6
backups == 7    deep == 8       goDir == 9      srv == 10       locked == 11    srvChain == 12
linked == 13

MCDirs == 1..13

MCParent == <<0, home, dotLnd, lndData, home, node, home, backups, home, 0, backups, srv, home>>

MCDepth == <<2, 3, 4, 7, 3, 6, 3, 7, 3, 1, 4, 4, 3>>

\* A directory has the subdirectory named here, and no other of that name.
Sub(pairs) == [d \in MCDirs \cup {Nowhere} |-> IF \E p \in pairs : p[1] = d
                                                 THEN (CHOOSE p \in pairs : p[1] = d)[2] ELSE Nowhere]

MCCandidateDirs == <<dotLnd>>

MCData == Sub({<<dotLnd, lndData>>})

MCGraph == Sub({<<node, node>>})

MCChain == Sub({<<lndData, lndChain>>, <<node, nodeChain>>, <<srv, srvChain>>})

-----------------------------------------------------------------------------
(* Files *)

Plain(name) == [name |-> name, link |-> FALSE, size |-> 200, readable |-> TRUE,
                perm |-> {"ur", "uw"}, says |-> {}]

Says(name, words) == [Plain(name) EXCEPT !.says = words]

Strays ==
  {Plain("admin.macaroon"), [Plain("readonly.macaroon") EXCEPT !.link = TRUE], Plain("tls.key"), Plain("seed.txt"),
   [Says(".env", {"credentials"}) EXCEPT !.perm = {"ur", "uw", "gr"}],
   [Says(".env", {"credentials", "admin.macaroon"}) EXCEPT !.size = 65537],
   Says("app.yaml", {"admin.macaroon", "readOnlyOperation"}),
   Says("app.yaml", {"admin.macaroon", "invoiceOperation"}),
   [Says("app.yaml", {"admin.macaroon", "adminOperation"}) EXCEPT !.readable = FALSE],
   [Says("app.yaml", {"admin.macaroon"}) EXCEPT !.size = 262145],
   Says("runbook.md", Topics), [Says("runbook.md", {"restore"}) EXCEPT !.size = 199]}

stray == 20     integration == 21       macaroon == 22      wallet == 23        backup == 24

MCFiles == 20..24

MCDestinations == {Nowhere, home, nodeChain}

Integration == Says("job.yaml", {"admin.macaroon"})

\* The five files; the node's own are in dir.
FilesIn(dir, record, place, perm, backed, integrated) ==
  [file |-> <<record, Integration, [Plain("admin.macaroon") EXCEPT !.perm = perm],
              Plain("wallet.db"), Plain("channel.backup")>>,
   at   |-> <<place, integrated, dir, dir, IF backed THEN dir ELSE Nowhere>>]

Shifted(f) == [n \in MCFiles |-> f[n - 19]]

Input(s, f) == [setup |-> s, file |-> Shifted(f.file), at |-> Shifted(f.at)]

-----------------------------------------------------------------------------
(* Inputs *)

Default == [lndDir |-> NotSet, lines |-> <<>>, home |-> home, scanRoot |-> NotSet, runbookDir |-> NotSet]

Line(section, form, dir) == [section |-> section, form |-> form, dir |-> dir]

App == "Application Options"

Lines == {<<Line(App, "plain", node)>>, <<Line(App, "spaced", node)>>, <<Line(App, "commented", node)>>,
          <<Line(App, "plain", node), Line(App, "plain", srv)>>,
          <<Line("other", "plain", srv), Line(App, "plain", node)>>, <<Line(App, "plain", srv)>>}

\* Any stray file anywhere, beside a node with everything in its place.
StrayInputs ==
  {Input(s, FilesIn(lndChain, record, place, {"ur", "uw"}, TRUE, backups)) :
     s \in {Default, [Default EXCEPT !.scanRoot = backups, !.runbookDir = backups]},
     record \in Strays, place \in {home, dotLnd, nodeChain, backups, deep, goDir, locked}}

\* A node whose lnd.conf says where its data directory is, or whose environment
\* is unusual.
OwnInputs ==
  {Input(s, FilesIn(dir, Plain("seed.txt"), backups, IF backed THEN {"ur", "gr"} ELSE {"ur", "uw"}, backed, Nowhere)) :
     s \in {[Default EXCEPT !.lines = l] : l \in Lines}
             \cup {[Default EXCEPT !.home = NotSet, !.lndDir = dotLnd],
                   [Default EXCEPT !.home = linked, !.lndDir = dotLnd],
                   [Default EXCEPT !.home = goDir, !.runbookDir = home]},
     dir \in {lndChain, nodeChain, srvChain}, backed \in BOOLEAN}

\* A long text and a short one on a topic, and more integrations than are looked at.
TextInputs ==
  {Input([Default EXCEPT !.scanRoot = backups, !.runbookDir = home],
         [file |-> <<Says("runbook.md", Topics), [Says("seed.txt", {"restore"}) EXCEPT !.size = 199],
                     Integration, [Integration EXCEPT !.name = ".env"], Says("lnd.conf", {"admin.macaroon"})>>,
          at   |-> <<book, note, backups, backups, backups>>]) :
     book \in {home, backups, deep, Nowhere}, note \in {home, backups, dotLnd}}

MCScanInputs == StrayInputs \cup OwnInputs \cup TextInputs

\* A scan root, and a stray file outside of it.
MCRootInputs == {i \in MCScanInputs : i.setup.scanRoot # NotSet /\ i.at[stray] = home}
=============================================================================
