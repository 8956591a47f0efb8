------------------------------ MODULE FileTree ------------------------------
(***************************************************************************)
(* The files of the host, as far as the checks can tell them apart, and    *)
(* what may happen to them while a scan goes on.                           *)
(***************************************************************************)
EXTENDS LndPath, FiniteSets

CONSTANTS
  parent,           \* The nearest of Dirs above each of them, Nowhere for a root.
  depth,            \* How many names the path of each has.
  skipDirs,         \* The directories with a name of skipDirs (access.go:20-29).
  Unreadable,       \* The directories that cannot be read.
  LinkedDirs,       \* The directories whose path is a symbolic link.
  Files             \* The files: numbers, none of them a directory's.

FileNames == {"admin.macaroon", "readonly.macaroon", "invoice.macaroon", "tls.key", "seed.txt",
              ".env", "app.yaml", "job.yaml", "runbook.md", "wallet.db", "channel.backup", "channel.db", "lnd.conf"}

PermBits == {"ur", "uw", "ux", "gr", "gw", "gx", "or", "ow", "ox"}

\* What a file says: the words that the checks look for.
Words == {"credentials", "admin.macaroon", "readOnlyOperation", "invoiceOperation", "adminOperation",
          "key rotation", "fund sweep", "channel close", "restore"}

FileRecords == [name : FileNames, link : BOOLEAN, size : Nat, readable : BOOLEAN,
                perm : SUBSET PermBits, says : SUBSET Words]

ASSUME TreeAssumption ==
  /\ parent \in [Dirs -> Dirs \cup {Nowhere}] /\ depth \in [Dirs -> Nat]
  /\ \A d \in Dirs : parent[d] # Nowhere => depth[parent[d]] < depth[d]
  /\ skipDirs \subseteq Dirs /\ Unreadable \subseteq Dirs /\ LinkedDirs \subseteq Dirs
  /\ Files \subseteq Nat \ {Nowhere} /\ Files \cap Dirs = {}
  /\ IsFiniteSet(Dirs) /\ IsFiniteSet(Files)

VARIABLES
  file,             \* What each file is.
  at                \* The directory it is in, Nowhere if it does not exist.

treeVars == <<file, at>>

TreeTypeOK ==
  /\ file \in [Files -> FileRecords]
  /\ at \in [Files -> Dirs \cup {Nowhere}]

-----------------------------------------------------------------------------

\* With a directory, the set has all those above it.
Upward(S) == \A d \in S : parent[d] # Nowhere => parent[d] \in S

\* dir and the directories above it: what every such set with dir has.
Ancestry == [dir \in Dirs \cup {Nowhere} |->
               IF dir = Nowhere THEN {}
               ELSE {e \in Dirs : \A S \in SUBSET Dirs : dir \in S /\ Upward(S) => e \in S}]

isInsideDir(d, dir) == dir # Nowhere /\ dir \in Ancestry[d]

\* The file of that name and place, if there is one.
FileAt(d, name) == {f \in Files : d # Nowhere /\ at[f] = d /\ file[f].name = name}

\* A file is created, moved or removed; two of a name in a place there are not.
Move(f, d) ==
  /\ d # at[f]
  /\ FileAt(d, file[f].name) = {}
  /\ at' = [at EXCEPT ![f] = d]
  /\ UNCHANGED file
=============================================================================
