------------------------------ MODULE FileScan ------------------------------
(***************************************************************************)
(* The checks of a scan that look at the file system (cmd/scan.go:159-228) *)
(* over files that others go on creating, moving and removing.  Four of    *)
(* them walk a tree: filepath.WalkDir lists a directory when it comes to   *)
(* it, and looks at what it has listed later.                              *)
(***************************************************************************)
EXTENDS FileChecks, SequencesExt

CONSTANTS
  ScanInputs,       \* The flags, and what the files are, and where, when the scan starts.
  Destinations,     \* Where files are moved to in this instance.
  macaroonScanDepth,
  MaxMoves

Setups == [lndDir     : Dirs \cup {NotSet},       \* --lnddir
           lines      : Seq(DataDirLine),         \* lnd.conf
           home       : Dirs \cup {NotSet},       \* os.UserHomeDir
           scanRoot   : Dirs \cup {NotSet},       \* --scan-root
           runbookDir : Dirs \cup {NotSet}]       \* --runbook-dir

ASSUME FileScanAssumption ==
  /\ \A input \in ScanInputs : /\ input.setup \in Setups
                               /\ input.file \in [Files -> FileRecords]
                               /\ input.at \in [Files -> Dirs \cup {Nowhere}]
                               /\ \A f, g \in Files : /\ f # g /\ input.at[f] = input.at[g]
                                                     /\ input.at[f] # Nowhere
                                                     => input.file[f].name # input.file[g].name
  /\ Destinations \subseteq Dirs \cup {Nowhere}
  /\ macaroonScanDepth \in Nat /\ MaxMoves \in Nat

VARIABLES
  setup,            \* The flags.
  check,            \* The check the scan has come to.
  todo,             \* What it still has to look at, in order.
  scannedFiles,     \* How many integration files it has looked at.
  coverage,         \* The length of the longest text on each topic.
  findings,         \* What has been found so far.
  been,             \* History: where each file has been.
  moves             \* History: how often a file was moved.

scanVars == <<setup, check, todo, scannedFiles, coverage, findings>>

vars == <<treeVars, scanVars, been, moves>>

Checks == <<"permissions", "macaroon leaks", "least privilege", "secret hygiene", "backup", "runbooks", "done">>

Checking(name) == Checks[check] = name

Paths == Detect(setup.lndDir, setup.lines)

-----------------------------------------------------------------------------
(* The walks *)

Walks == {"macaroon leaks", "least privilege", "secret hygiene", "runbooks"}

\* resolveScanRoot
resolveScanRoot == IF setup.scanRoot # NotSet THEN setup.scanRoot ELSE setup.home

RootOf(name) == CASE name \in {"macaroon leaks", "secret hygiene"} -> setup.home
                  [] name = "least privilege"                      -> resolveScanRoot
                  [] name = "runbooks"                             -> setup.runbookDir

DirEntry(d) == [dir |-> d, file |-> NoFile]

FileEntry(f) == [dir |-> at[f], file |-> f]

\* What a directory lists, in the order of the names, which are the numbers.  A
\* symbolic link is listed as one, and none of the checks follows it.
Children(d) ==
  LET names == {e \in Dirs \ LinkedDirs : parent[e] = d} \cup {f \in Files : at[f] = d}
      entry(n) == IF n \in Files THEN FileEntry(n) ELSE DirEntry(n)
  IN  [i \in 1..Cardinality(names) |->
         entry(CHOOSE n \in names : Cardinality({e \in names : e < n}) = i - 1)]

Entry == Head(todo)

\* Mutant: a directory as deep as the walk may go is not entered.
PrunedAtDepth(d, root) ==
  \/ depth[d] - depth[root] >= macaroonScanDepth
  \/ d \in skipDirs
  \/ StatFails(d)

\* A directory with a name to be skipped is skipped even if it is the root.
Pruned(d, root) ==
  \/ depth[d] - depth[root] > macaroonScanDepth
  \/ d \in skipDirs
  \/ StatFails(d)

Unchecked == UNCHANGED <<treeVars, setup, check, been, moves>>

EnterDir ==
  /\ Checks[check] \in Walks /\ todo # <<>> /\ Entry.file = NoFile
  /\ todo' = (IF Pruned(Entry.dir, RootOf(Checks[check])) THEN <<>> ELSE Children(Entry.dir)) \o Tail(todo)
  /\ UNCHANGED <<scannedFiles, coverage, findings>> /\ Unchecked

\* The next entry is a file.
Looking(name) == Checking(name) /\ todo # <<>> /\ Entry.file # NoFile

\* The file that has the listed path by now: another one, if they were exchanged.
Seen == FileAt(Entry.dir, file[Entry.file].name)

\* A path that is gone has no Lstat any more, and is passed over.
SkipVanished ==
  /\ Checks[check] \in Walks /\ todo # <<>> /\ Entry.file # NoFile /\ Seen = {}
  /\ todo' = Tail(todo)
  /\ UNCHANGED <<scannedFiles, coverage, findings>> /\ Unchecked

CheckAdminMacaroonLeaks ==
  /\ Looking("macaroon leaks")
  /\ \E f \in Seen : findings' = findings \cup StrayMacaroon(f, Entry.dir, Paths.DataDir)
  /\ todo' = Tail(todo)
  /\ UNCHANGED <<scannedFiles, coverage>> /\ Unchecked

\* Mutant: a file that is one too many is passed over, and the walk goes on.
CheckMacaroonLeastPrivilegeOfAll ==
  /\ Looking("least privilege")
  /\ \E f \in Seen :
       IF ~CountsAsIntegration(f, Entry.dir, Paths)
         THEN UNCHANGED <<scannedFiles, findings>>
         ELSE /\ scannedFiles' = scannedFiles + 1
              /\ findings' = IF scannedFiles' > integrationScanMaxFiles
                               THEN findings ELSE findings \cup LeastPrivilege(f, Entry.dir)
  /\ todo' = Tail(todo)
  /\ UNCHANGED coverage /\ Unchecked

\* The walk ends at the file that is one too many.
CheckMacaroonLeastPrivilege ==
  /\ Looking("least privilege")
  /\ \E f \in Seen :
       IF ~CountsAsIntegration(f, Entry.dir, Paths)
         THEN todo' = Tail(todo) /\ UNCHANGED <<scannedFiles, findings>>
         ELSE /\ scannedFiles' = scannedFiles + 1
              /\ IF scannedFiles' > integrationScanMaxFiles
                   THEN todo' = <<>> /\ UNCHANGED findings
                   ELSE /\ findings' = findings \cup LeastPrivilege(f, Entry.dir)
                        /\ todo' = Tail(todo)
  /\ UNCHANGED coverage /\ Unchecked

CheckSecretHygieneLeaks ==
  /\ Looking("secret hygiene")
  /\ \E f \in Seen : findings' = findings \cup SecretHygiene(f, Entry.dir, Paths)
  /\ todo' = Tail(todo)
  /\ UNCHANGED <<scannedFiles, coverage>> /\ Unchecked

CheckIncidentReadiness ==
  /\ Looking("runbooks")
  /\ \E f \in Seen :
       coverage' = IF isRunbook(f, Entry.dir, Paths) THEN Covering(coverage, f) ELSE coverage
  /\ todo' = Tail(todo)
  /\ UNCHANGED <<scannedFiles, findings>> /\ Unchecked

-----------------------------------------------------------------------------
(* The other two *)

CheckFilePermissions ==
  /\ Checking("permissions") /\ todo # <<>>
  /\ findings' = findings \cup checkSingleFile(Head(todo))
  /\ todo' = Tail(todo)
  /\ UNCHANGED <<scannedFiles, coverage>> /\ Unchecked

\* The backup itself, then what shows that the node has channels to back up.
BackupFiles(paths) ==
  <<[name |-> "channel.backup", dir |-> ChainDir(paths)], [name |-> "wallet.db", dir |-> ChainDir(paths)],
    [name |-> "channel.db", dir |-> graph[paths.DataDir]]>>

dirExists(d) == d \in Dirs /\ ~StatFails(parent[d])

Backup == InFile("C-10", "High", NoFile, ChainDir(Paths))

\* Only a backup that is missing, and not just out of sight, asks for evidence.
CheckChannelBackupReadiness ==
  /\ Checking("backup") /\ todo # <<>>
  /\ LET there   == FileAt(Entry.dir, Entry.name) # {} /\ ~StatFails(Entry.dir)
         missing == ~there /\ ~StatFails(Entry.dir)
     IN  IF Entry.name = "channel.backup"
           THEN todo' = (IF missing THEN Tail(todo) ELSE <<>>) /\ UNCHANGED findings
           ELSE /\ todo' = IF there THEN <<>> ELSE Tail(todo)
                /\ findings' = IF there THEN findings \cup {Backup} ELSE findings
  /\ UNCHANGED <<scannedFiles, coverage>> /\ Unchecked

\* What a check has to look at: without a directory, nothing.
Agenda(name) ==
  CASE name = "permissions" -> Targets(Paths)
    [] name \in Walks       -> IF RootOf(name) \in Dirs \ LinkedDirs THEN <<DirEntry(RootOf(name))>> ELSE <<>>
    [] name = "backup"      -> IF dirExists(Paths.DataDir) THEN BackupFiles(Paths) ELSE <<>>
    [] name = "done"        -> <<>>

NextCheck ==
  /\ todo = <<>> /\ ~Checking("done")
  /\ check' = check + 1
  /\ todo' = Agenda(Checks[check + 1])
  /\ findings' = IF Checking("runbooks") /\ setup.runbookDir # NotSet
                   THEN findings \cup RunbookFindings(coverage) ELSE findings
  /\ UNCHANGED <<treeVars, setup, scannedFiles, coverage, been, moves>>

ScanStep ==
  \/ CheckFilePermissions
  \/ EnterDir \/ SkipVanished
  \/ CheckAdminMacaroonLeaks \/ CheckMacaroonLeastPrivilege
  \/ CheckSecretHygieneLeaks \/ CheckIncidentReadiness
  \/ CheckChannelBackupReadiness
  \/ NextCheck

FileMoves ==
  /\ ~Checking("done")
  /\ moves < MaxMoves /\ moves' = moves + 1
  /\ \E f \in Files, d \in Destinations :
       /\ Move(f, d)
       /\ been' = [been EXCEPT ![f] = @ \cup {d}]
  /\ UNCHANGED scanVars

Init ==
  /\ \E input \in ScanInputs : setup = input.setup /\ file = input.file /\ at = input.at
  /\ check = 1
  /\ todo = Targets(Paths)
  /\ scannedFiles = 0
  /\ coverage = [t \in Topics |-> 0]
  /\ findings = {}
  /\ been = [f \in Files |-> {at[f]}]
  /\ moves = 0

Next == ScanStep \/ FileMoves

Spec == Init /\ [][Next]_vars

-----------------------------------------------------------------------------
(* Properties *)

TypeOK ==
  /\ TreeTypeOK
  /\ setup \in Setups
  /\ check \in DOMAIN Checks
  /\ coverage \in [Topics -> Nat]
  /\ scannedFiles \in 0..(integrationScanMaxFiles + 1)
  /\ \A f \in findings : f.file \in Files \cup {NoFile} /\ f.dir \in Dirs \cup {Nowhere}
  /\ \A f \in Files : at[f] \in been[f]
  /\ moves \in 0..MaxMoves

\* The directories a walk of root looks into.
Reached(root) ==
  IF root \notin Dirs \ LinkedDirs THEN {}
  ELSE {d \in Dirs : /\ isInsideDir(d, root)
                     /\ depth[d] <= depth[root] + macaroonScanDepth
                     /\ \A e \in Ancestry[d] \ (Ancestry[root] \ {root}) : e \notin skipDirs \cup LinkedDirs
                     /\ ~StatFails(d)}

\* The files that have been in one place all along.
Still == {f \in Files : Cardinality(been[f]) = 1}

\* A leak that stays where it is, in a directory the walk looks into, is found,
\* however much is moved, created and removed around it; for integrations, as
\* long as the walk has not come to its limit.
\* (access.go:72-151, macaroon_least_privilege.go:74-190, secret_hygiene.go:29-119)
LastingLeaksAreReported ==
  Checking("done") =>
    \A f \in Still :
      /\ at[f] \in Reached(setup.home) =>
           /\ StrayMacaroon(f, at[f], Paths.DataDir) \subseteq findings
           /\ SecretHygiene(f, at[f], Paths) \subseteq findings
      /\ /\ at[f] \in Reached(resolveScanRoot) /\ scannedFiles <= integrationScanMaxFiles
         /\ CountsAsIntegration(f, at[f], Paths)
         => LeastPrivilege(f, at[f]) \subseteq findings

OfWalk == [id \in {"A-3", "A-4", "A-5", "A-6", "H-7a", "H-7b", "H-7c", "H-7d"} |->
             IF id \in {"A-4", "A-5", "A-6"} THEN "least privilege" ELSE "macaroon leaks"]

\* What is reported of a file was so when it was looked at: the file was in a
\* directory the walk looks into, and not where the node keeps its own, although
\* the walk had listed the directory before.
LeaksAreWhereTheyWereSeen ==
  \A leak \in findings :
    leak.id \in DOMAIN OfWalk =>
      /\ leak.dir \in been[leak.file]
      /\ leak.dir \in Reached(RootOf(OfWalk[leak.id]))
      /\ ~isInsideDir(leak.dir, Paths.DataDir)
      /\ leak.id # "A-3" => ~isInsideDir(leak.dir, Paths.LndDir)

\* The node's own places, as the parser that the other checks use reads lnd.conf:
\* of several lines the first counts.
Own == OwnPaths(setup.lndDir, setup.lines)

\* Every line that sets datadir is one that the line scan of lndpath.go reads as
\* the ini parser does.
Plainly == \A i \in DOMAIN setup.lines :
             setup.lines[i].form = "plain" /\ setup.lines[i].section = "Application Options"

\* A file that has stayed where a target is kept, and is a link or open to others.
Lax(f, target) ==
  /\ f \in Still /\ at[f] = target.dir /\ target.dir # Nowhere /\ ~StatFails(target.dir)
  /\ file[f].name = target.name
  /\ file[f].link \/ isOverlyPermissive(file[f].perm, target.maxPerm)

\* What has to be said of it.
Warning(f, target) ==
  InFile(target.id, IF file[f].link THEN "High" ELSE target.severity, f, target.dir)

\* lnd.conf is read twice, by a line scan for the paths and by the ini parser. If
\* datadir is written plainly, however often, the two take the same files for the
\* node's own: no leak of any kind is reported of a file in its data directory, nor,
\* but for a macaroon, of one in its LND directory; each of the files whose
\* permissions count is told of, by its own finding and severity, if it is a link
\* or too open; and so is a backup that is missing.
\* (lndpath.go:101-166, permissions.go:19-116, backup_readiness.go:14-69)
OwnFilesAreTakenForOwn ==
  Plainly =>
    /\ \A leak \in findings :
         leak.id \in DOMAIN OfWalk =>
           /\ ~isInsideDir(leak.dir, Own.DataDir)
           /\ leak.id # "A-3" => ~isInsideDir(leak.dir, Own.LndDir)
    /\ Checking("done") =>
         /\ \A f \in Files, target \in ToSet(Targets(Own)) : Lax(f, target) => Warning(f, target) \in findings
         /\ LET dir == ChainDir(Own)
            IN  /\ dir # Nowhere /\ ~StatFails(dir) /\ dirExists(Own.DataDir)
                /\ \E f \in Still : at[f] = dir /\ file[f].name = "wallet.db"
                /\ \A f \in Files : file[f].name = "channel.backup" => dir \notin been[f]
                => Backup \in findings

\* A topic is covered if one text on it was seen, however short the others are,
\* and found too brief only if all of them were.
\* (incident_readiness.go:71-153)
RunbooksAreJudgedByTheLongest ==
  Checking("done") /\ setup.runbookDir # NotSet =>
    \A t \in Topics :
      LET Ids   == {found.id : found \in findings}
          lasting == {f \in Still : /\ at[f] \in Reached(setup.runbookDir)
                                    /\ isRunbook(f, at[f], Paths) /\ t \in file[f].says}
      IN  /\ (\E f \in lasting : file[f].size > 0) => TopicId[t] \notin Ids
          /\ (\E f \in lasting : file[f].size >= minRunbookChars) => TooBriefId[t] \notin Ids
          /\ TopicId[t] \notin Ids /\ TooBriefId[t] \notin Ids =>
               \E f \in Files, d \in Reached(setup.runbookDir) :
                 d \in been[f] /\ t \in file[f].says /\ file[f].size >= minRunbookChars

\* README.md:162: "Restrict filesystem secret scans to a specific root".
SecretScansStayInRoot ==
  setup.scanRoot # NotSet =>
    \A leak \in findings : leak.id \in DOMAIN OfWalk => isInsideDir(leak.dir, setup.scanRoot)
=============================================================================
