----------------------------- MODULE FileChecks -----------------------------
(***************************************************************************)
(* What the checks of the file system find in a single file.               *)
(***************************************************************************)
EXTENDS FileTree

CONSTANT integrationScanMaxFiles

ASSUME LimitAssumption == integrationScanMaxFiles \in Nat

\* A finding about file f in directory d; 0 and Nowhere in one that is not about
\* a file.
InFile(id, severity, f, d) == [id |-> id, severity |-> severity, file |-> f, dir |-> d]

NoFile == 0

-----------------------------------------------------------------------------
(* pkg/checks/permissions.go *)

OwnerOnly == {"ur", "uw"}

\* The files whose permissions are checked, with where they should be.
Targets(paths) ==
  LET Target(id, name, dir, maxPerm, severity) ==
        [id |-> id, name |-> name, dir |-> dir, maxPerm |-> maxPerm, severity |-> severity]
  IN  <<Target("PERM-wallet.db", "wallet.db", ChainDir(paths), OwnerOnly, "Critical"),
        Target("PERM-tls.key", "tls.key", paths.LndDir, OwnerOnly, "Critical"),
        Target("PERM-admin.macaroon", "admin.macaroon", ChainDir(paths), OwnerOnly, "Critical"),
        Target("PERM-readonly.macaroon", "readonly.macaroon", ChainDir(paths), OwnerOnly, "High"),
        Target("PERM-invoice.macaroon", "invoice.macaroon", ChainDir(paths), OwnerOnly, "High"),
        Target("PERM-channel.backup", "channel.backup", ChainDir(paths), OwnerOnly, "Critical"),
        Target("PERM-lnd.conf", "lnd.conf", paths.LndDir, OwnerOnly \cup {"gr"}, "High")>>

\* A path below a directory that cannot be searched is no file, and no missing one.
StatFails(d) == d # Nowhere /\ Ancestry[d] \cap Unreadable # {}

isOverlyPermissive(actual, maxPerm) == ~(actual \subseteq maxPerm)

checkSingleFile(sf) ==
  IF StatFails(sf.dir) THEN {InFile(sf.id, "Low", NoFile, sf.dir)}
  ELSE {InFile(sf.id, "High", f, sf.dir) :
          f \in {g \in FileAt(sf.dir, sf.name) : file[g].link}}
         \cup {InFile(sf.id, sf.severity, f, sf.dir) :
                 f \in {g \in FileAt(sf.dir, sf.name) :
                          ~file[g].link /\ isOverlyPermissive(file[g].perm, sf.maxPerm)}}

-----------------------------------------------------------------------------
(* pkg/checks/access.go *)

isMacaroon(f) == file[f].name \in {"admin.macaroon", "readonly.macaroon", "invoice.macaroon"}

\* Mutant: a file is inside a directory only if it is right in it.
StrayMacaroonNotBelow(f, d, dataDir) ==
  IF isMacaroon(f) /\ ~file[f].link /\ d # dataDir
    THEN {InFile("A-3", IF file[f].name = "admin.macaroon" THEN "Critical" ELSE "High", f, d)}
    ELSE {}

StrayMacaroon(f, d, dataDir) ==
  IF isMacaroon(f) /\ ~file[f].link /\ ~isInsideDir(d, dataDir)
    THEN {InFile("A-3", IF file[f].name = "admin.macaroon" THEN "Critical" ELSE "High", f, d)}
    ELSE {}

-----------------------------------------------------------------------------
(* pkg/checks/macaroon_least_privilege.go *)

isIntegrationConfigFile(f) == file[f].name \in {".env", "app.yaml", "job.yaml", "seed.txt", "lnd.conf"}

integrationScanMaxFileSize == 262144

\* What is counted towards the limit, whether it can be read or not.
CountsAsIntegration(f, d, paths) ==
  /\ isIntegrationConfigFile(f)
  /\ ~isInsideDir(d, paths.LndDir) /\ ~isInsideDir(d, paths.DataDir)
  /\ ~file[f].link
  /\ file[f].size \in 1..integrationScanMaxFileSize

LeastPrivilege(f, d) ==
  LET reads    == "readOnlyOperation" \in file[f].says
      invoices == "invoiceOperation" \in file[f].says
  IN  IF ~file[f].readable \/ "admin.macaroon" \notin file[f].says \/ "adminOperation" \in file[f].says THEN {}
      ELSE IF reads /\ ~invoices THEN {InFile("A-4", "High", f, d)}
      ELSE IF invoices /\ ~reads THEN {InFile("A-5", "High", f, d)}
      ELSE {InFile("A-6", "Medium", f, d)}

-----------------------------------------------------------------------------
(* pkg/checks/secret_hygiene.go *)

maxEnvFileSize == 65536

checkSensitiveEnvFile(f, d) ==
  IF file[f].readable /\ file[f].size <= maxEnvFileSize /\ "credentials" \in file[f].says
    THEN {InFile("H-7c", "High", f, d)}
           \cup (IF file[f].perm \subseteq {"ur", "uw", "ux"} THEN {} ELSE {InFile("H-7d", "High", f, d)})
    ELSE {}

SecretHygiene(f, d, paths) ==
  IF file[f].link \/ isInsideDir(d, paths.LndDir) \/ isInsideDir(d, paths.DataDir) THEN {}
  ELSE CASE file[f].name = "tls.key"  -> {InFile("H-7a", "High", f, d)}
         [] file[f].name = "seed.txt" -> {InFile("H-7b", "Critical", f, d)}
         [] file[f].name = ".env"     -> checkSensitiveEnvFile(f, d)
         [] OTHER                     -> {}

-----------------------------------------------------------------------------
(* pkg/checks/incident_readiness.go *)

Topics == {"key rotation", "fund sweep", "channel close", "restore"}

TopicId == [t \in Topics |-> CASE t = "key rotation"  -> "H-8a"
                               [] t = "fund sweep"    -> "H-8b"
                               [] t = "channel close" -> "H-8c"
                               [] t = "restore"       -> "H-8d"]

TooBriefId == [t \in Topics |-> CASE t = "key rotation"  -> "H-8a-q"
                                  [] t = "fund sweep"    -> "H-8b-q"
                                  [] t = "channel close" -> "H-8c-q"
                                  [] t = "restore"       -> "H-8d-q"]

minRunbookChars == 200

maxRunbookSize == 524288

isRunbook(f, d, paths) ==
  /\ file[f].name \in {"runbook.md", "seed.txt"}
  /\ ~isInsideDir(d, paths.LndDir) /\ ~isInsideDir(d, paths.DataDir)
  /\ ~file[f].link
  /\ file[f].size <= maxRunbookSize
  /\ file[f].readable

\* Mutant: the last text on a topic counts.
CoveringByLast(coverage, f) ==
  [t \in Topics |-> IF t \in file[f].says THEN file[f].size ELSE coverage[t]]

\* The longest text on a topic counts, whatever else is in it.
Covering(coverage, f) ==
  [t \in Topics |-> IF t \in file[f].says /\ file[f].size > coverage[t] THEN file[f].size ELSE coverage[t]]

RunbookFindings(coverage) ==
  {InFile(TopicId[t], IF t \in {"key rotation", "fund sweep"} THEN "High" ELSE "Medium", NoFile, Nowhere) :
     t \in {u \in Topics : coverage[u] = 0}}
  \cup {InFile(TooBriefId[t], "Low", NoFile, Nowhere) :
          t \in {u \in Topics : coverage[u] \in 1..(minRunbookChars - 1)}}
=============================================================================
