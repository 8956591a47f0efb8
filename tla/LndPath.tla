------------------------------ MODULE LndPath ------------------------------
(***************************************************************************)
(* Where the node keeps its files: what lndpath.Detect                     *)
(* (pkg/lndpath/lndpath.go) makes of the flags and of lnd.conf, and what   *)
(* the parser of the config reads in the same file (pkg/config/config.go). *)
(*                                                                         *)
(* Directories are numbers.  Nowhere is a path at which there is nothing.  *)
(***************************************************************************)
EXTENDS Integers, Sequences, FiniteSetsExt

CONSTANTS
  Dirs,             \* The directories of the host that matter.
  candidateDirs,    \* Where an LND directory is looked for, in this order.
  data,             \* The directory "data" in a directory.
  graph,            \* The directory graph/<network> in a data directory.
  chain             \* The directory chain/<chain>/<network> in a data directory.

Nowhere == 0

NotSet == -1

ASSUME DirsAssumption ==
  /\ Dirs \subseteq Nat \ {Nowhere}
  /\ candidateDirs \in Seq(Dirs \cup {Nowhere}) /\ candidateDirs # <<>>
  /\ data \in [Dirs \cup {Nowhere} -> Dirs \cup {Nowhere}]
  /\ graph \in [Dirs \cup {Nowhere} -> Dirs \cup {Nowhere}]
  /\ chain \in [Dirs \cup {Nowhere} -> Dirs \cup {Nowhere}]

\* The lines of lnd.conf that set datadir: without spaces, with spaces around the
\* equals sign, or with a comment behind the value.
DataDirLine == [section : {"Application Options", "other"},
                form    : {"plain", "spaced", "commented"},
                dir     : Dirs]

defaultLndDir == candidateDirs[1]

findExistingDir == LET found == {i \in DOMAIN candidateDirs : candidateDirs[i] \in Dirs}
                   IN  IF found = {} THEN defaultLndDir ELSE candidateDirs[Min(found)]

\* What a line holds behind the equals sign: with a comment, no path of a directory.
Value(line) == IF line.form = "commented" THEN Nowhere ELSE line.dir

\* The lines that begin with "datadir=", in any section.
Keys(lines) == {i \in DOMAIN lines : lines[i].form # "spaced"}

\* Mutant: the last of several lines counts.
readLastKeyFromConfig(lines) ==
  IF Keys(lines) = {} THEN NotSet ELSE Value(lines[Max(Keys(lines))])

\* The first of them; all that follows is the value.
readKeyFromConfig(lines) ==
  IF Keys(lines) = {} THEN NotSet ELSE Value(lines[Min(Keys(lines))])

\* The ini parser: the first line of the section.
ParsedDataDir(lines) ==
  LET hits == {i \in DOMAIN lines : lines[i].section = "Application Options"}
  IN  IF hits = {} THEN NotSet ELSE lines[Min(hits)].dir

LndDir(lndDir) == IF lndDir = NotSet THEN findExistingDir ELSE lndDir

Detect(lndDir, lines) ==
  LET dir == LndDir(lndDir)
      key == readKeyFromConfig(lines)
  IN  [LndDir |-> dir, DataDir |-> IF key = NotSet THEN data[dir] ELSE key]

ChainDir(paths) == chain[paths.DataDir]

-----------------------------------------------------------------------------

\* Where the files of the node are, if the config is read as a config.
OwnPaths(lndDir, lines) ==
  LET dir == LndDir(lndDir)
      key == ParsedDataDir(lines)
  IN  [LndDir |-> dir, DataDir |-> IF key = NotSet THEN data[dir] ELSE key]
=============================================================================
