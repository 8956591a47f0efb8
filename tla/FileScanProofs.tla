--------------------------- MODULE FileScanProofs ---------------------------
(***************************************************************************)
(* Proofs about the walks of the file system, for every tree of finitely   *)
(* many directories and files, any depth and limit, and any number of      *)
(* moves while the walks go on.                                            *)
(***************************************************************************)
EXTENDS FileScan, FiniteSetTheorems, TLAPS

-----------------------------------------------------------------------------
(* Numbers *)

\* How many of S come before x.
RankIn(S, x) == Cardinality({e \in S : e < x})

\* Fewer elements of a set come before one of them than it has.
LEMMA RankType ==
  ASSUME NEW S \in SUBSET Nat, IsFiniteSet(S), NEW x \in S
  PROVE  RankIn(S, x) \in 0..(Cardinality(S) - 1)
<1> DEFINE below == {e \in S : e < x}
<1>1. below \in SUBSET S /\ x \notin below
  OBVIOUS
<1>2. IsFiniteSet(below) /\ Cardinality(below) <= Cardinality(S) /\ Cardinality(below) # Cardinality(S)
  BY <1>1, FS_Subset
<1>3. Cardinality(below) \in Nat /\ Cardinality(S) \in Nat
  BY <1>2, FS_CardinalityType
<1> QED BY <1>2, <1>3 DEF RankIn

\* The larger of two elements has the higher rank.
LEMMA RanksGrow ==
  ASSUME NEW S \in SUBSET Nat, IsFiniteSet(S), NEW x \in S, NEW y \in S, x < y
  PROVE  RankIn(S, x) < RankIn(S, y)
<1> DEFINE before(z) == {e \in S : e < z}
<1>1. IsFiniteSet(before(y)) /\ Cardinality(before(y)) \in Nat
  BY FS_Subset, FS_CardinalityType
<1>2. before(x) \in SUBSET before(y) /\ x \in before(y) /\ x \notin before(x)
  <2>1. x \in Int /\ y \in Int /\ \A e \in S : e \in Int
    OBVIOUS
  <2>2. \A e \in S : e < x => e < y
    BY <2>1
  <2>3. ~(x < x)
    BY <2>1
  <2> QED BY <2>2, <2>3
<1>3. Cardinality(before(x)) <= Cardinality(before(y)) /\ Cardinality(before(x)) # Cardinality(before(y))
  BY <1>1, <1>2, FS_Subset
<1>4. Cardinality(before(x)) \in Nat
  BY <1>1, <1>2, FS_Subset, FS_CardinalityType
<1> QED BY <1>1, <1>3, <1>4 DEF RankIn

\* No two elements have the same rank.
LEMMA RanksDiffer ==
  ASSUME NEW S \in SUBSET Nat, IsFiniteSet(S), NEW x \in S, NEW y \in S, RankIn(S, x) = RankIn(S, y)
  PROVE  x = y
<1>1. x < y \/ y < x \/ x = y
  OBVIOUS
<1>2. RankIn(S, x) \in Nat /\ RankIn(S, y) \in Nat
  BY RankType, FS_CardinalityType
<1> QED BY <1>1, <1>2, RanksGrow

\* Every rank is that of one element: there are as many ranks as elements.
LEMMA RanksAreTaken ==
  ASSUME NEW S \in SUBSET Nat, IsFiniteSet(S), NEW i \in 1..Cardinality(S)
  PROVE  \E x \in S : RankIn(S, x) = i - 1
<1> DEFINE n     == Cardinality(S)
           ranks == 0..(n - 1)
           rank  == [x \in S |-> RankIn(S, x)]
<1>1. n \in Nat
  BY FS_CardinalityType
<1>2. rank \in [S -> ranks]
  BY RankType
<1>3. \A x, y \in S : rank[x] = rank[y] => x = y
  BY RanksDiffer
<1>4. rank \in Injection(S, ranks)
  BY <1>2, <1>3 DEF Injection, IsInjective
<1>5. IsFiniteSet(ranks) /\ Cardinality(ranks) = n
  <2> HIDE DEF n
  <2>1. /\ IsFiniteSet(0..(n - 1))
        /\ Cardinality(0..(n - 1)) = IF 0 > n - 1 THEN 0 ELSE n - 1 - 0 + 1
    BY <1>1, FS_Interval
  <2> QED BY <1>1, <2>1
<1>6. rank \in Surjection(S, ranks)
  BY <1>4, <1>5, FS_Injection
<1>7. i - 1 \in ranks
  BY <1>1
<1>8. \E x \in S : rank[x] = i - 1
  BY <1>6, <1>7 DEF Surjection
<1> QED BY <1>8

\* Min of a set of numbers is the least of them.
LEMMA MinIsLeast ==
  ASSUME NEW S \in SUBSET Nat, IsFiniteSet(S), S # {}
  PROVE  Min(S) \in S /\ \A y \in S : Min(S) <= y
<1>1. 1 \in 1..Cardinality(S)
  BY FS_CardinalityType, FS_EmptySet
<1>2. PICK x \in S : RankIn(S, x) = 0
  BY <1>1, RanksAreTaken
<1>3. {e \in S : e < x} = {}
  BY <1>2, FS_Subset, FS_EmptySet DEF RankIn
<1>4. \A y \in S : x <= y
  BY <1>3
<1> QED BY <1>4 DEF Min

-----------------------------------------------------------------------------
(* Trees *)

\* Induction over a tree, from the roots on: what some directory lacks, one lacks
\* whose parent has it.
LEMMA TopOf ==
  ASSUME NEW B \in SUBSET Dirs, B # {}
  PROVE  \E d \in B : parent[d] \notin B
<1> DEFINE D == {depth[d] : d \in B}
           f == [d \in B |-> depth[d]]
<1>1. D \in SUBSET Nat /\ D # {}
  BY TreeAssumption
<1>2. f \in Surjection(B, D)
  BY DEF Surjection
<1>3. IsFiniteSet(D)
  BY <1>2, FS_Surjection, FS_Subset, TreeAssumption
<1>4. Min(D) \in D /\ \A n \in D : Min(D) <= n
  BY <1>1, <1>3, MinIsLeast
<1>5. PICK d \in B : depth[d] = Min(D)
  BY <1>4
<1>6. ASSUME parent[d] \in B PROVE FALSE
  <2>1. parent[d] # Nowhere
    BY <1>6, DirsAssumption
  <2>2. depth[parent[d]] < depth[d] /\ depth[parent[d]] \in D
    BY <1>6, <2>1, TreeAssumption
  <2>3. depth[d] \in Nat /\ depth[parent[d]] \in Nat
    BY <1>6, TreeAssumption
  <2>4. depth[d] <= depth[parent[d]]
    BY <2>2, <1>4, <1>5
  <2> QED BY <2>2, <2>3, <2>4
<1> QED BY <1>6

\* The way up from a directory has the directory, and every directory above one it has.
LEMMA AncestryIsUpward ==
  ASSUME NEW d \in Dirs
  PROVE  Ancestry[d] \in SUBSET Dirs /\ d \in Ancestry[d] /\ Upward(Ancestry[d])
<1>1. \A e : e \in Ancestry[d] <=> e \in Dirs /\ \A S \in SUBSET Dirs : d \in S /\ Upward(S) => e \in S
  BY DirsAssumption DEF Ancestry
<1>2. \A e \in Ancestry[d] : parent[e] # Nowhere => parent[e] \in Ancestry[d]
  BY <1>1, TreeAssumption DEF Upward
<1> QED BY <1>1, <1>2 DEF Upward

\* The way up from a directory is the one from its parent, with the directory.
LEMMA AncestryUnfolds ==
  ASSUME NEW d \in Dirs
  PROVE  /\ d # Nowhere
         /\ parent[d] \in Dirs \cup {Nowhere}
         /\ Ancestry[Nowhere] = {}
         /\ Ancestry[d] = {d} \cup Ancestry[parent[d]]
<1>1. d # Nowhere /\ parent[d] \in Dirs \cup {Nowhere} /\ Ancestry[Nowhere] = {}
  BY DirsAssumption, TreeAssumption DEF Ancestry
<1>2. Ancestry[d] = {e \in Dirs : \A S \in SUBSET Dirs : d \in S /\ Upward(S) => e \in S}
  BY <1>1 DEF Ancestry
<1>3. {d} \cup Ancestry[parent[d]] \in SUBSET Dirs /\ Upward({d} \cup Ancestry[parent[d]])
  <2>1. CASE parent[d] = Nowhere
    BY <1>1, <2>1 DEF Upward
  <2>2. CASE parent[d] # Nowhere
    <3>1. /\ Ancestry[parent[d]] \in SUBSET Dirs /\ parent[d] \in Ancestry[parent[d]]
          /\ Upward(Ancestry[parent[d]])
      BY <1>1, <2>2, AncestryIsUpward
    <3> QED BY <3>1 DEF Upward
  <2> QED BY <2>1, <2>2
<1>4. Ancestry[d] \subseteq {d} \cup Ancestry[parent[d]]
  BY <1>2, <1>3
<1>5. ASSUME NEW e \in Ancestry[parent[d]] PROVE e \in Ancestry[d]
  <2>1. parent[d] \in Dirs /\ parent[d] # Nowhere
    BY <1>1, <1>5
  <2>2. Ancestry[parent[d]] = {x \in Dirs : \A S \in SUBSET Dirs : parent[d] \in S /\ Upward(S) => x \in S}
    BY <2>1 DEF Ancestry
  <2>3. \A S \in SUBSET Dirs : d \in S /\ Upward(S) => parent[d] \in S
    BY <2>1 DEF Upward
  <2> QED BY <1>2, <1>5, <2>2, <2>3
<1>6. d \in Ancestry[d]
  BY AncestryIsUpward
<1> QED BY <1>1, <1>4, <1>5, <1>6

\* The way up from a directory consists of directories.
LEMMA AncestryType ==
  \A d \in Dirs : Ancestry[d] \subseteq Dirs
<1> DEFINE B == {d \in Dirs : ~(Ancestry[d] \subseteq Dirs)}
<1>1. SUFFICES ASSUME B # {} PROVE FALSE
  OBVIOUS
<1>2. PICK d \in B : parent[d] \notin B
  BY <1>1, TopOf
<1> QED BY <1>2, AncestryUnfolds

\* The way up from a directory leads through directories with shorter paths, and
\* goes on from each of them as it would have begun there.
LEMMA WayUp ==
  \A d \in Dirs : \A e \in Ancestry[d] :
    /\ Ancestry[e] \subseteq Ancestry[d]
    /\ e # d => depth[e] < depth[d] /\ \E c \in Ancestry[d] : parent[c] = e
<1> DEFINE P(d) == \A e \in Ancestry[d] :
                     /\ Ancestry[e] \subseteq Ancestry[d]
                     /\ e # d => depth[e] < depth[d] /\ \E c \in Ancestry[d] : parent[c] = e
           B == {d \in Dirs : ~P(d)}
<1>1. SUFFICES ASSUME B # {} PROVE FALSE
  OBVIOUS
<1>2. PICK d \in B : parent[d] \notin B
  BY <1>1, TopOf
<1>3. P(d)
  <2> SUFFICES ASSUME NEW e \in Ancestry[d]
               PROVE  /\ Ancestry[e] \subseteq Ancestry[d]
                      /\ e # d => depth[e] < depth[d] /\ \E c \in Ancestry[d] : parent[c] = e
    OBVIOUS
  <2>1. CASE e = d
    BY <2>1
  <2>2. CASE e # d
    <3>1. parent[d] \in Dirs /\ e \in Ancestry[parent[d]]
      BY <2>2, AncestryUnfolds
    <3>2. Ancestry[e] \subseteq Ancestry[d]
      BY <3>1, <1>2, AncestryUnfolds
    <3>3. depth[parent[d]] < depth[d] /\ depth[d] \in Nat /\ depth[parent[d]] \in Nat /\ depth[e] \in Nat
      BY <3>1, AncestryType, AncestryUnfolds, TreeAssumption
    <3>4. CASE e = parent[d]
      BY <3>2, <3>3, <3>4, AncestryUnfolds
    <3>5. CASE e # parent[d]
      BY <3>1, <3>2, <3>3, <3>5, <1>2, AncestryUnfolds
    <3> QED BY <3>4, <3>5
  <2> QED BY <2>1, <2>2
<1> QED BY <1>3

\* The way from a directory that a walk looks into up to the root of the walk is
\* one it looks into.
LEMMA WayToRoot ==
  ASSUME NEW root, NEW d \in Reached(root), NEW e \in Ancestry[d], isInsideDir(e, root)
  PROVE  /\ root \in Dirs \ LinkedDirs
         /\ e \in Reached(root)
         /\ e \notin LinkedDirs
         /\ ~Pruned(e, root)
<1>1. /\ root \in Dirs \ LinkedDirs /\ d \in Dirs
      /\ depth[d] <= depth[root] + macaroonScanDepth
      /\ \A x \in Ancestry[d] \ (Ancestry[root] \ {root}) : x \notin skipDirs \cup LinkedDirs
      /\ ~StatFails(d)
  BY DEF Reached
<1>2. e \in Dirs /\ e \in Ancestry[e] /\ Ancestry[e] \subseteq Ancestry[d] /\ e # Nowhere
  BY <1>1, AncestryType, AncestryUnfolds, WayUp
<1>3. root \in Ancestry[e]
  BY DEF isInsideDir
<1>4. depth[e] \in Nat /\ depth[d] \in Nat /\ depth[root] \in Nat /\ macaroonScanDepth \in Nat
  BY <1>1, <1>2, TreeAssumption, FileScanAssumption
<1>5. depth[e] <= depth[d]
  BY <1>1, <1>4, WayUp
<1>6. ~StatFails(e)
  BY <1>1, <1>2, DirsAssumption DEF StatFails
<1>7. e \in Reached(root)
  <2> depth[e] <= depth[root] + macaroonScanDepth
    BY <1>1, <1>4, <1>5
  <2> QED BY <1>1, <1>2, <1>6 DEF Reached
<1>8. e \notin Ancestry[root] \ {root}
  <2> SUFFICES ASSUME e \in Ancestry[root], e # root PROVE FALSE
    OBVIOUS
  <2>1. depth[e] < depth[root] /\ depth[root] < depth[e]
    BY <1>1, <1>2, <1>3, WayUp
  <2> QED BY <2>1, <1>4
<1>9. e \notin skipDirs /\ e \notin LinkedDirs
  BY <1>1, <1>8
<1>10. depth[e] - depth[root] <= macaroonScanDepth
  BY <1>1, <1>4, <1>5
<1> QED BY <1>1, <1>4, <1>6, <1>7, <1>9, <1>10 DEF Pruned

-----------------------------------------------------------------------------
(* Listing a directory *)

\* The directories a walk of root may come to.
Open(root) == {d \in Dirs \ LinkedDirs : /\ isInsideDir(d, root)
                                         /\ d = root \/ parent[d] \in Reached(root)}

\* What a walk of root may have to look at.
Entries(root) == {DirEntry(d) : d \in Open(root)}
                   \cup {[dir |-> d, file |-> f] : d \in Reached(root), f \in Files}

\* A directory that is not pruned is one that the walk looks into.
LEMMA EnteredIsReached ==
  ASSUME NEW root \in Dirs \ LinkedDirs, NEW d \in Open(root), ~Pruned(d, root)
  PROVE  d \in Reached(root)
<1>1. /\ d \in Dirs \ LinkedDirs /\ isInsideDir(d, root)
      /\ ~(depth[d] - depth[root] > macaroonScanDepth) /\ d \notin skipDirs /\ ~StatFails(d)
  BY DEF Open, Pruned
<1>2. depth[d] <= depth[root] + macaroonScanDepth
  <2> depth[d] \in Nat /\ depth[root] \in Nat /\ macaroonScanDepth \in Nat
    BY <1>1, TreeAssumption, FileScanAssumption
  <2> QED BY <1>1
<1>3. \A e \in Ancestry[d] \ (Ancestry[root] \ {root}) : e \notin skipDirs \cup LinkedDirs
  <2>1. CASE d = root
    BY <2>1, <1>1
  <2>2. CASE d # root
    <3>1. parent[d] \in Reached(root)
      BY <2>2 DEF Open
    <3>2. \A e \in Ancestry[parent[d]] \ (Ancestry[root] \ {root}) : e \notin skipDirs \cup LinkedDirs
      BY <3>1 DEF Reached
    <3> QED BY <3>2, <1>1, AncestryUnfolds
  <2> QED BY <2>1, <2>2
<1> QED BY <1>1, <1>2, <1>3 DEF Reached

\* What is in a directory has its place in the listing, and the listing holds
\* nothing else.
LEMMA Listing ==
  ASSUME NEW d,
         NEW names, names = {e \in Dirs \ LinkedDirs : parent[e] = d} \cup {f \in Files : at[f] = d}
  PROVE  /\ Children(d) \in Seq({DirEntry(e) : e \in names \ Files} \cup {FileEntry(f) : f \in names \cap Files})
         /\ \A f \in names \cap Files : \E i \in DOMAIN Children(d) : Children(d)[i] = FileEntry(f)
         /\ \A e \in names \ Files : \E i \in DOMAIN Children(d) : Children(d)[i] = DirEntry(e)
<1> DEFINE size     == Cardinality(names)
           entry(n) == IF n \in Files THEN FileEntry(n) ELSE DirEntry(n)
           ranked(i) == CHOOSE n \in names : Cardinality({e \in names : e < n}) = i - 1
           Listed   == {DirEntry(e) : e \in names \ Files} \cup {FileEntry(f) : f \in names \cap Files}
<1>1. names \in SUBSET Nat
  BY DirsAssumption, TreeAssumption
<1>2. IsFiniteSet(names)
  <2>1. IsFiniteSet(Dirs \cup Files)
    BY TreeAssumption, FS_Union
  <2>2. names \in SUBSET (Dirs \cup Files)
    OBVIOUS
  <2> QED BY <2>1, <2>2, FS_Subset
<1>3. Children(d) = [i \in 1..size |-> entry(ranked(i))]
  BY DEF Children
<1>4. size \in Nat
  BY <1>2, FS_CardinalityType
<1> HIDE DEF size
<1>5. \A i \in 1..size : ranked(i) \in names /\ RankIn(names, ranked(i)) = i - 1
  BY <1>1, <1>2, RanksAreTaken DEF RankIn, size
<1> HIDE DEF ranked
<1>6. Children(d) \in Seq(Listed)
  <2>1. \A i \in 1..size : entry(ranked(i)) \in Listed
    BY <1>5
  <2> HIDE DEF entry, Listed
  <2> QED BY <1>3, <1>4, <2>1
<1>7. \A n \in names : \E i \in 1..size : ranked(i) = n
  <2> TAKE n \in names
  <2>1. RankIn(names, n) \in 0..(size - 1)
    BY <1>1, <1>2, RankType DEF size
  <2>2. RankIn(names, n) + 1 \in 1..size /\ RankIn(names, n) = (RankIn(names, n) + 1) - 1
    BY <2>1, <1>4
  <2>3. ranked(RankIn(names, n) + 1) \in names /\ RankIn(names, ranked(RankIn(names, n) + 1)) = RankIn(names, n)
    BY <2>2, <1>5
  <2>4. ranked(RankIn(names, n) + 1) = n
    BY <2>3, <1>1, <1>2, RanksDiffer
  <2> QED BY <2>2, <2>4
<1>8. \A n \in names : \E i \in DOMAIN Children(d) : Children(d)[i] = entry(n)
  BY <1>3, <1>7
<1> QED BY <1>6, <1>8

\* A walk that looks into a directory comes to directories and files of its own.
LEMMA ChildrenAreEntries ==
  ASSUME NEW root \in Dirs \ LinkedDirs, NEW d \in Reached(root)
  PROVE  Children(d) \in Seq(Entries(root))
<1> DEFINE names == {e \in Dirs \ LinkedDirs : parent[e] = d} \cup {f \in Files : at[f] = d}
           Listed == {DirEntry(e) : e \in names \ Files} \cup {FileEntry(f) : f \in names \cap Files}
<1>1. Children(d) \in Seq(Listed)
  BY Listing
<1>2. \A e \in names \ Files : e \in Open(root)
  <2> TAKE e \in names \ Files
  <2>1. e \in Dirs \ LinkedDirs /\ parent[e] = d
    OBVIOUS
  <2>2. root \in Ancestry[d]
    BY DEF Reached, isInsideDir
  <2>3. isInsideDir(e, root)
    BY <2>1, <2>2, AncestryUnfolds, DirsAssumption DEF isInsideDir
  <2> QED BY <2>1, <2>3 DEF Open
<1>3. \A f \in names \cap Files : FileEntry(f) = [dir |-> d, file |-> f]
  BY TreeAssumption DEF FileEntry
<1>4. Listed \subseteq Entries(root)
  BY <1>2, <1>3 DEF Entries
<1> HIDE DEF Listed
<1> QED BY <1>1, <1>4

-----------------------------------------------------------------------------
(* The invariant of a scan *)

\* No two files of a name in a place.
NamesAreUnique ==
  \A f, g \in Files : f # g /\ at[f] = at[g] /\ at[f] # Nowhere => file[f].name # file[g].name

PermIds == {"PERM-wallet.db", "PERM-tls.key", "PERM-admin.macaroon", "PERM-readonly.macaroon",
            "PERM-invoice.macaroon", "PERM-channel.backup", "PERM-lnd.conf"}

Places == Dirs \cup {Nowhere}

\* What a check still has to look at is what it may come to.
OnTheWay ==
  /\ Checking("permissions") => todo \in Seq([id : PermIds, name : FileNames, dir : Places,
                                              maxPerm : SUBSET PermBits, severity : {"Critical", "High"}])
  /\ Checking("backup") => todo \in Seq([name : FileNames, dir : Places])
  /\ Checks[check] \in Walks => /\ todo \in Seq(Entries(RootOf(Checks[check])))
                                /\ todo # <<>> => RootOf(Checks[check]) \in Dirs \ LinkedDirs

CountIsInTime ==
  /\ check < 3 => scannedFiles = 0
  /\ Checking("least privilege") /\ todo # <<>> => scannedFiles <= integrationScanMaxFiles

WalkInv ==
  /\ TypeOK
  /\ been \in [Files -> SUBSET Places]
  /\ NamesAreUnique
  /\ OnTheWay
  /\ CountIsInTime

\* The walk with a count limit is the third check.
LEMMA CheckNumber ==
  ASSUME NEW c \in DOMAIN Checks
  PROVE  Checks[c] = "least privilege" <=> c = 3
<1>1. c \in 1..7
  BY DEF Checks
<1>2. /\ Checks[1] = "permissions" /\ Checks[2] = "macaroon leaks" /\ Checks[3] = "least privilege"
      /\ Checks[4] = "secret hygiene" /\ Checks[5] = "backup" /\ Checks[6] = "runbooks" /\ Checks[7] = "done"
  BY DEF Checks
<1>3. c = 1 \/ c = 2 \/ c = 3 \/ c = 4 \/ c = 5 \/ c = 6 \/ c = 7
  BY <1>1
<1> QED BY <1>2, <1>3

\* The checks by their number.
LEMMA CheckIndex ==
  ASSUME check \in DOMAIN Checks
  PROVE  /\ check \in 1..7
         /\ Checking("permissions") <=> check = 1
         /\ Checking("macaroon leaks") <=> check = 2
         /\ Checking("least privilege") <=> check = 3
         /\ Checking("secret hygiene") <=> check = 4
         /\ Checking("backup") <=> check = 5
         /\ Checking("runbooks") <=> check = 6
         /\ Checking("done") <=> check = 7
         /\ Checks[check] \in Walks <=> check \in {2, 3, 4, 6}
<1>1. check \in 1..7
  BY DEF Checks
<1>2. /\ Checks[1] = "permissions" /\ Checks[2] = "macaroon leaks" /\ Checks[3] = "least privilege"
      /\ Checks[4] = "secret hygiene" /\ Checks[5] = "backup" /\ Checks[6] = "runbooks" /\ Checks[7] = "done"
  BY DEF Checks
<1>3. check = 1 \/ check = 2 \/ check = 3 \/ check = 4 \/ check = 5 \/ check = 6 \/ check = 7
  BY <1>1
<1> QED BY <1>1, <1>2, <1>3 DEF Checking, Walks

\* A check is one of them.
LEMMA OneCheck ==
  /\ Checking("permissions") => ~Checking("backup") /\ Checks[check] \notin Walks
  /\ Checking("backup") => ~Checking("permissions") /\ Checks[check] \notin Walks
  /\ Checks[check] \in Walks => ~Checking("permissions") /\ ~Checking("backup")
BY DEF Checking, Walks

\* The number that stands for no file is not that of a file.
LEMMA NoFileIsNone == NoFile \notin Files
BY TreeAssumption DEF NoFile, Nowhere

\* lndpath.Detect finds directories, or nothing.
LEMMA PathsType ==
  ASSUME setup \in Setups
  PROVE  /\ Paths.LndDir \in Places /\ Paths.DataDir \in Places
         /\ ChainDir(Paths) \in Places /\ graph[Paths.DataDir] \in Places
<1> DEFINE lines == setup.lines
           keys  == Keys(lines)
           found == {i \in DOMAIN candidateDirs : candidateDirs[i] \in Dirs}
<1>1. lines \in Seq(DataDirLine) /\ setup.lndDir \in Dirs \cup {NotSet}
  BY DEF Setups
<1>2. \A n \in Nat : \A S \in SUBSET (1..n) : S # {} => Min(S) \in S
  <2> SUFFICES ASSUME NEW n \in Nat, NEW S \in SUBSET (1..n), S # {} PROVE Min(S) \in S
    OBVIOUS
  <2>1. IsFiniteSet(S) /\ S \in SUBSET Nat
    <3>1. IsFiniteSet(1..n)
      BY FS_Interval
    <3>2. IsFiniteSet(S)
      BY <3>1, FS_Subset
    <3> QED BY <3>2
  <2> QED BY <2>1, MinIsLeast
<1>3. keys # {} => Value(lines[Min(keys)]) \in Places
  <2> HAVE keys # {}
  <2>1. keys \in SUBSET (1..Len(lines)) /\ Len(lines) \in Nat
    BY <1>1 DEF Keys
  <2>2. Min(keys) \in 1..Len(lines)
    BY <2>1, <1>2
  <2>3. lines[Min(keys)] \in DataDirLine
    BY <2>2, <1>1
  <2> QED BY <2>3 DEF Value, DataDirLine, Places
<1>4. readKeyFromConfig(lines) \in Places \cup {NotSet}
  BY <1>3 DEF readKeyFromConfig
<1>5. findExistingDir \in Places
  <2>1. candidateDirs \in Seq(Places) /\ candidateDirs # <<>>
    BY DirsAssumption DEF Places
  <2>2. CASE found = {}
    <3>1. 1 \in DOMAIN candidateDirs
      BY <2>1
    <3> QED BY <2>1, <2>2, <3>1 DEF findExistingDir, defaultLndDir
  <2>3. CASE found # {}
    <3>1. found \in SUBSET (1..Len(candidateDirs)) /\ Len(candidateDirs) \in Nat
      BY <2>1
    <3>2. Min(found) \in found
      BY <2>3, <3>1, <1>2
    <3> QED BY <2>1, <2>3, <3>2 DEF findExistingDir
  <2> QED BY <2>2, <2>3
<1>6. LndDir(setup.lndDir) \in Places
  BY <1>1, <1>5 DEF LndDir, Places
<1>7. Paths.LndDir \in Places /\ Paths.DataDir \in Places
  BY <1>4, <1>6, DirsAssumption DEF Paths, Detect, Places
<1> QED BY <1>7, DirsAssumption DEF ChainDir, Places

\* What the permission check looks at are files by name and place.
LEMMA TargetsType ==
  ASSUME setup \in Setups
  PROVE  Targets(Paths) \in Seq([id : PermIds, name : FileNames, dir : Places, maxPerm : SUBSET PermBits,
                                 severity : {"Critical", "High"}])
<1>1. ChainDir(Paths) \in Places /\ Paths.LndDir \in Places
  BY PathsType
<1>2. OwnerOnly \in SUBSET PermBits /\ OwnerOnly \cup {"gr"} \in SUBSET PermBits
  BY DEF OwnerOnly, PermBits
<1> QED BY <1>1, <1>2 DEF Targets, PermIds, FileNames

-----------------------------------------------------------------------------
(* What a walk comes to *)

\* A listed file that is next lies in a directory the walk looks into.
LEMMA AtFile ==
  ASSUME WalkInv, Checks[check] \in Walks, todo # <<>>, Entry.file # NoFile
  PROVE  /\ Entry.file \in Files
         /\ Entry.dir \in Reached(RootOf(Checks[check]))
         /\ Entry.dir \in Dirs
         /\ Entry = [dir |-> Entry.dir, file |-> Entry.file]
         /\ Tail(todo) \in Seq(Entries(RootOf(Checks[check])))
         /\ \A f \in Seen : /\ f \in Files /\ at[f] = Entry.dir /\ Entry.dir \in been[f]
                            /\ file[f].name = file[Entry.file].name
<1> DEFINE root == RootOf(Checks[check])
<1>1. todo \in Seq(Entries(root))
  BY DEF WalkInv, OnTheWay
<1> HIDE DEF root
<1>2. Entry \in Entries(root) /\ Tail(todo) \in Seq(Entries(root))
  BY <1>1 DEF Entry
<1>3. PICK d \in Reached(root), f \in Files : Entry = [dir |-> d, file |-> f]
  BY <1>2 DEF Entries, DirEntry
<1>4. d \in Dirs
  BY DEF Reached
<1>5. \A f2 \in Seen : f2 \in Files /\ at[f2] = Entry.dir /\ file[f2].name = file[Entry.file].name
  BY DEF Seen, FileAt
<1>6. \A f2 \in Files : at[f2] \in been[f2]
  BY DEF WalkInv, TypeOK
<1> QED BY <1>2, <1>3, <1>4, <1>5, <1>6 DEF root

\* A directory that is next is one the walk may come to.
LEMMA AtDir ==
  ASSUME WalkInv, Checks[check] \in Walks, todo # <<>>, Entry.file = NoFile
  PROVE  /\ Entry.dir \in Open(RootOf(Checks[check]))
         /\ RootOf(Checks[check]) \in Dirs \ LinkedDirs
         /\ Entry = DirEntry(Entry.dir)
         /\ Tail(todo) \in Seq(Entries(RootOf(Checks[check])))
<1> DEFINE root == RootOf(Checks[check])
<1>1. todo \in Seq(Entries(root)) /\ root \in Dirs \ LinkedDirs
  BY DEF WalkInv, OnTheWay
<1> HIDE DEF root
<1>2. Entry \in Entries(root) /\ Tail(todo) \in Seq(Entries(root))
  BY <1>1 DEF Entry
<1>3. PICK d \in Open(root) : Entry = DirEntry(d)
  BY <1>2, NoFileIsNone DEF Entries
<1> QED BY <1>1, <1>2, <1>3 DEF root, DirEntry

\* What LeaksAreWhereTheyWereSeen says of a finding, and its type.
Justified(x) ==
  /\ x.file \in Files \cup {NoFile} /\ x.dir \in Places
  /\ x.id \in DOMAIN OfWalk =>
       /\ x.file \in Files
       /\ x.dir \in been[x.file]
       /\ x.dir \in Reached(RootOf(OfWalk[x.id]))
       /\ ~isInsideDir(x.dir, Paths.DataDir)
       /\ x.id # "A-3" => ~isInsideDir(x.dir, Paths.LndDir)

FoundInv == \A x \in findings : Justified(x)

\* The walk that each finding about a leak comes from.
LEMMA OfWalkIs ==
  /\ DOMAIN OfWalk = {"A-3", "A-4", "A-5", "A-6", "H-7a", "H-7b", "H-7c", "H-7d"}
  /\ OfWalk["A-3"] = "macaroon leaks"
  /\ \A id \in {"A-4", "A-5", "A-6"} : OfWalk[id] = "least privilege"
  /\ \A id \in {"H-7a", "H-7b", "H-7c", "H-7d"} : RootOf(OfWalk[id]) = setup.home
BY DEF OfWalk, RootOf

\* As long as the flags are the same, a finding that was justified is.
LEMMA StaysJustified ==
  ASSUME WalkInv, UNCHANGED setup, \A f \in Files : been[f] \subseteq been'[f],
         NEW x, Justified(x)
  PROVE  Justified(x)'
BY DEF Justified, Paths, RootOf, resolveScanRoot, OfWalk

\* What a check says of a file names the file, and is not said of the node's own.
LEMMA MacaroonFindings ==
  ASSUME NEW f, NEW d, NEW dataDir, NEW x \in StrayMacaroon(f, d, dataDir)
  PROVE  x.id = "A-3" /\ x.file = f /\ x.dir = d /\ ~isInsideDir(d, dataDir)
BY DEF StrayMacaroon, InFile

\* The IDs of what CheckMacaroonLeastPrivilege finds, about the file it looked at.
LEMMA IntegrationFindings ==
  ASSUME NEW f, NEW d, NEW x \in LeastPrivilege(f, d)
  PROVE  x.id \in {"A-4", "A-5", "A-6"} /\ x.file = f /\ x.dir = d
BY DEF LeastPrivilege, InFile

\* The IDs of what CheckSecretHygieneLeaks finds, outside of the node's directories.
LEMMA SecretFindings ==
  ASSUME NEW f, NEW d, NEW paths, NEW x \in SecretHygiene(f, d, paths)
  PROVE  /\ x.id \in {"H-7a", "H-7b", "H-7c", "H-7d"} /\ x.file = f /\ x.dir = d
         /\ ~isInsideDir(d, paths.DataDir) /\ ~isInsideDir(d, paths.LndDir)
<1>1. ~isInsideDir(d, paths.DataDir) /\ ~isInsideDir(d, paths.LndDir)
  BY DEF SecretHygiene
<1>2. x \in {InFile(id, severity, f, d) : id \in {"H-7a", "H-7b", "H-7c", "H-7d"}, severity \in {"High", "Critical"}}
  BY DEF SecretHygiene, checkSensitiveEnvFile
<1> QED BY <1>1, <1>2 DEF InFile

\* The IDs of what checkSingleFile finds are those of its targets.
LEMMA PermissionFindings ==
  ASSUME NEW sf, NEW x \in checkSingleFile(sf)
  PROVE  x.id = sf.id /\ x.dir = sf.dir /\ x.file \in Files \cup {NoFile}
<1>1. x \in {InFile(sf.id, severity, f, sf.dir) : severity \in {"Low", "High", sf.severity}, f \in Files \cup {NoFile}}
  BY DEF checkSingleFile, FileAt
<1> QED BY <1>1 DEF InFile

\* What each check adds to the findings is justified.
LEMMA MacaroonsJustified ==
  ASSUME WalkInv, Looking("macaroon leaks"), NEW f \in Seen,
         NEW x \in StrayMacaroon(f, Entry.dir, Paths.DataDir)
  PROVE  Justified(x)
<1>1. Checks[check] = "macaroon leaks" /\ Checks[check] \in Walks /\ todo # <<>> /\ Entry.file # NoFile
  BY DEF Looking, Checking, Walks
<1>2. /\ x.id = "A-3" /\ x.file = f /\ x.dir = Entry.dir
      /\ ~isInsideDir(Entry.dir, Paths.DataDir)
  BY MacaroonFindings
<1>3. f \in Files /\ Entry.dir \in been[f] /\ Entry.dir \in Dirs /\ Entry.dir \in Reached(RootOf(Checks[check]))
  BY <1>1, AtFile
<1> QED BY <1>1, <1>2, <1>3, OfWalkIs DEF Justified, Places

\* What is reported of an integration was in reach and outside of the node's directories.
LEMMA IntegrationsJustified ==
  ASSUME WalkInv, Looking("least privilege"), NEW f \in Seen, CountsAsIntegration(f, Entry.dir, Paths),
         NEW x \in LeastPrivilege(f, Entry.dir)
  PROVE  Justified(x)
<1>1. Checks[check] = "least privilege" /\ Checks[check] \in Walks /\ todo # <<>> /\ Entry.file # NoFile
  BY DEF Looking, Checking, Walks
<1>2. x.id \in {"A-4", "A-5", "A-6"} /\ x.file = f /\ x.dir = Entry.dir
  <2> DEFINE d == Entry.dir
  <2> HIDE DEF d
  <2>1. x \in LeastPrivilege(f, d)
    BY DEF d
  <2>2. x.id \in {"A-4", "A-5", "A-6"} /\ x.file = f /\ x.dir = d
    BY ONLY <2>1, IntegrationFindings
  <2> QED BY <2>2 DEF d
<1>4. ~isInsideDir(Entry.dir, Paths.DataDir) /\ ~isInsideDir(Entry.dir, Paths.LndDir)
  BY DEF CountsAsIntegration
<1>3. f \in Files /\ Entry.dir \in been[f] /\ Entry.dir \in Dirs /\ Entry.dir \in Reached(RootOf(Checks[check]))
  BY <1>1, AtFile
<1> QED BY <1>1, <1>2, <1>3, <1>4, OfWalkIs DEF Justified, Places

\* What is reported of a secret was in reach and outside of the node's directories.
LEMMA SecretsJustified ==
  ASSUME WalkInv, Looking("secret hygiene"), NEW f \in Seen,
         NEW x \in SecretHygiene(f, Entry.dir, Paths)
  PROVE  Justified(x)
<1>1. Checks[check] = "secret hygiene" /\ Checks[check] \in Walks /\ todo # <<>> /\ Entry.file # NoFile
  BY DEF Looking, Checking, Walks
<1>2. /\ x.id \in {"H-7a", "H-7b", "H-7c", "H-7d"} /\ x.file = f /\ x.dir = Entry.dir
      /\ ~isInsideDir(Entry.dir, Paths.DataDir) /\ ~isInsideDir(Entry.dir, Paths.LndDir)
  BY SecretFindings
<1>3. /\ f \in Files /\ Entry.dir \in been[f] /\ Entry.dir \in Dirs
      /\ Entry.dir \in Reached(RootOf(Checks[check])) /\ RootOf(Checks[check]) = setup.home
  BY <1>1, AtFile DEF RootOf
<1> QED BY <1>1, <1>2, <1>3, OfWalkIs DEF Justified, Places

\* What the permission check reports is no leak.
LEMMA PermissionsJustified ==
  ASSUME WalkInv, Checking("permissions"), todo # <<>>, NEW x \in checkSingleFile(Head(todo))
  PROVE  Justified(x)
<1>1. Head(todo).id \in PermIds /\ Head(todo).dir \in Places
  <2>1. todo \in Seq([id : PermIds, name : FileNames, dir : Places, maxPerm : SUBSET PermBits,
                      severity : {"Critical", "High"}])
    BY DEF WalkInv, OnTheWay
  <2> DEFINE S == [id : PermIds, name : FileNames, dir : Places, maxPerm : SUBSET PermBits,
                   severity : {"Critical", "High"}]
  <2>2. \A t \in S : t.id \in PermIds /\ t.dir \in Places
    OBVIOUS
  <2>3. Head(todo) \in S
    <3> HIDE DEF S
    <3>1. todo \in Seq(S)
      BY <2>1 DEF S
    <3> QED BY <3>1
  <2> QED BY <2>2, <2>3
<1>2. x.id = Head(todo).id /\ x.dir = Head(todo).dir /\ x.file \in Files \cup {NoFile}
  BY PermissionFindings
<1>3. x.id \notin DOMAIN OfWalk
  BY <1>1, <1>2, OfWalkIs DEF PermIds
<1> QED BY <1>1, <1>2, <1>3 DEF Justified

\* What the checks of backup and runbooks report is no leak.
LEMMA OthersJustified ==
  ASSUME WalkInv
  PROVE  /\ Justified(Backup)
         /\ \A x \in RunbookFindings(coverage) : Justified(x)
<1>1. setup \in Setups
  BY DEF WalkInv, TypeOK
<1>2. Backup.id = "C-10" /\ Backup.file = NoFile /\ Backup.dir \in Places
  BY <1>1, PathsType DEF Backup, InFile
<1>3. \A x \in RunbookFindings(coverage) :
        /\ x.id \in {"H-8a", "H-8b", "H-8c", "H-8d", "H-8a-q", "H-8b-q", "H-8c-q", "H-8d-q"}
        /\ x.file = NoFile /\ x.dir = Nowhere
  <2>1. \A t \in Topics : /\ TopicId[t] \in {"H-8a", "H-8b", "H-8c", "H-8d"}
                          /\ TooBriefId[t] \in {"H-8a-q", "H-8b-q", "H-8c-q", "H-8d-q"}
    BY DEF TopicId, TooBriefId, Topics
  <2> DEFINE missing == {InFile(TopicId[t], IF t \in {"key rotation", "fund sweep"} THEN "High" ELSE "Medium",
                                NoFile, Nowhere) : t \in {u \in Topics : coverage[u] = 0}}
             brief   == {InFile(TooBriefId[t], "Low", NoFile, Nowhere) :
                           t \in {u \in Topics : coverage[u] \in 1..(minRunbookChars - 1)}}
  <2>2. RunbookFindings(coverage) = missing \cup brief
    BY DEF RunbookFindings
  <2>3. \A x \in missing : x.id \in {"H-8a", "H-8b", "H-8c", "H-8d"} /\ x.file = NoFile /\ x.dir = Nowhere
    <3>1. \A x \in missing : \E t \in Topics, severity \in {"High", "Medium"} :
            x = InFile(TopicId[t], severity, NoFile, Nowhere)
      OBVIOUS
    <3> HIDE DEF missing
    <3>2. ASSUME NEW x \in missing
          PROVE  x.id \in {"H-8a", "H-8b", "H-8c", "H-8d"} /\ x.file = NoFile /\ x.dir = Nowhere
      <4>1. PICK t \in Topics, severity \in {"High", "Medium"} : x = InFile(TopicId[t], severity, NoFile, Nowhere)
        BY <3>1
      <4> QED BY <4>1, <2>1 DEF InFile
    <3> QED BY <3>2
  <2>4. \A x \in brief : x.id \in {"H-8a-q", "H-8b-q", "H-8c-q", "H-8d-q"} /\ x.file = NoFile /\ x.dir = Nowhere
    BY <2>1 DEF InFile
  <2> HIDE DEF missing, brief
  <2> QED BY <2>2, <2>3, <2>4
<1> QED BY <1>2, <1>3, OfWalkIs DEF Justified, Places

-----------------------------------------------------------------------------
(* The steps *)

\* What the steps of the checks have in common.
LEMMA LookKeeps ==
  ASSUME WalkInv, FoundInv, Unchecked, OnTheWay', CountIsInTime',
         coverage' \in [Topics -> Nat],
         scannedFiles' \in 0..(integrationScanMaxFiles + 1),
         \A x \in findings' : x \in findings \/ Justified(x)
  PROVE  WalkInv' /\ FoundInv'
<1>1. UNCHANGED setup /\ UNCHANGED been /\ UNCHANGED <<file, at, check, moves>>
  BY DEF Unchecked, treeVars
<1>2. \A x \in findings' : Justified(x)'
  <2>1. \A f \in Files : been[f] \subseteq been'[f]
    BY <1>1
  <2> QED BY <1>1, <2>1, StaysJustified DEF FoundInv
<1>3. FoundInv'
  BY <1>2 DEF FoundInv
<1>4. TypeOK'
  <2>1. \A x \in findings' : x.file \in Files \cup {NoFile} /\ x.dir \in Dirs \cup {Nowhere}
    BY <1>2 DEF Justified, Places
  <2> QED BY <1>1, <2>1 DEF WalkInv, TypeOK, TreeTypeOK
<1>5. NamesAreUnique'
  BY <1>1 DEF WalkInv, NamesAreUnique
<1> QED BY <1>1, <1>3, <1>4, <1>5 DEF WalkInv

\* A walk that goes on has what it may come to before it.
LEMMA WalkGoesOn ==
  ASSUME WalkInv, Unchecked, Checks[check] \in Walks, todo # <<>>,
         todo' \in Seq(Entries(RootOf(Checks[check])))
  PROVE  OnTheWay'
<1>1. UNCHANGED check /\ UNCHANGED setup
  BY DEF Unchecked
<1>2. RootOf(Checks[check])' = RootOf(Checks[check])
  BY <1>1 DEF RootOf, resolveScanRoot
<1>3. RootOf(Checks[check]) \in Dirs \ LinkedDirs
  BY DEF WalkInv, OnTheWay
<1>4. ~Checking("permissions") /\ ~Checking("backup")
  BY OneCheck
<1>5. ~Checking("permissions")' /\ ~Checking("backup")'
  BY <1>1, <1>4 DEF Checking
<1> QED BY <1>1, <1>2, <1>3, <1>5 DEF OnTheWay

\* The count is kept but where integrations are counted.
LEMMA CountKeeps ==
  ASSUME WalkInv, Unchecked, UNCHANGED scannedFiles, todo # <<>>
  PROVE  CountIsInTime' /\ scannedFiles' \in 0..(integrationScanMaxFiles + 1)
BY DEF WalkInv, TypeOK, CountIsInTime, Unchecked, Checking

\* A directory that is listed, or not entered, keeps the invariant.
LEMMA EnterDirKeeps ==
  ASSUME WalkInv, FoundInv, EnterDir
  PROVE  WalkInv' /\ FoundInv'
<1>1. /\ Checks[check] \in Walks /\ todo # <<>> /\ Entry.file = NoFile /\ Unchecked
      /\ UNCHANGED <<scannedFiles, coverage, findings>>
      /\ todo' = (IF Pruned(Entry.dir, RootOf(Checks[check])) THEN <<>> ELSE Children(Entry.dir)) \o Tail(todo)
  BY DEF EnterDir
<1> DEFINE root == RootOf(Checks[check])
<1>2. Entry.dir \in Open(root) /\ root \in Dirs \ LinkedDirs /\ Tail(todo) \in Seq(Entries(root))
  BY <1>1, AtDir
<1>3. ~Pruned(Entry.dir, root) => Children(Entry.dir) \in Seq(Entries(root))
  BY <1>2, EnteredIsReached, ChildrenAreEntries
<1>4. todo' \in Seq(Entries(root))
  <2> HIDE DEF root
  <2>1. <<>> \in Seq(Entries(root))
    OBVIOUS
  <2>2. CASE Pruned(Entry.dir, root)
    <3>1. todo' = <<>> \o Tail(todo)
      BY <1>1, <2>2 DEF root
    <3> QED BY <3>1, <2>1, <1>2
  <2>3. CASE ~Pruned(Entry.dir, root)
    <3>1. todo' = Children(Entry.dir) \o Tail(todo)
      BY <1>1, <2>3 DEF root
    <3> QED BY <3>1, <2>3, <1>3, <1>2
  <2> QED BY <2>2, <2>3
<1>5. OnTheWay'
  BY <1>1, <1>4, WalkGoesOn
<1>6. CountIsInTime' /\ scannedFiles' \in 0..(integrationScanMaxFiles + 1)
  BY <1>1, CountKeeps
<1> QED BY <1>1, <1>5, <1>6, LookKeeps DEF WalkInv, TypeOK

\* A listed path that is gone keeps the invariant.
LEMMA SkipVanishedKeeps ==
  ASSUME WalkInv, FoundInv, SkipVanished
  PROVE  WalkInv' /\ FoundInv'
<1>1. /\ Checks[check] \in Walks /\ todo # <<>> /\ Entry.file # NoFile /\ Unchecked
      /\ UNCHANGED <<scannedFiles, coverage, findings>> /\ todo' = Tail(todo)
  BY DEF SkipVanished
<1>2. OnTheWay'
  BY <1>1, AtFile, WalkGoesOn
<1>3. CountIsInTime' /\ scannedFiles' \in 0..(integrationScanMaxFiles + 1)
  BY <1>1, CountKeeps
<1> QED BY <1>1, <1>2, <1>3, LookKeeps DEF WalkInv, TypeOK

\* A step of CheckAdminMacaroonLeaks keeps the invariant.
LEMMA MacaroonsKeep ==
  ASSUME WalkInv, FoundInv, CheckAdminMacaroonLeaks
  PROVE  WalkInv' /\ FoundInv'
<1>1. /\ Looking("macaroon leaks") /\ Unchecked
      /\ UNCHANGED <<scannedFiles, coverage>> /\ todo' = Tail(todo)
      /\ \E f \in Seen : findings' = findings \cup StrayMacaroon(f, Entry.dir, Paths.DataDir)
  BY DEF CheckAdminMacaroonLeaks
<1>2. Checks[check] \in Walks /\ todo # <<>> /\ Entry.file # NoFile
  BY <1>1 DEF Looking, Checking, Walks
<1>3. OnTheWay'
  BY <1>1, <1>2, AtFile, WalkGoesOn
<1>4. CountIsInTime' /\ scannedFiles' \in 0..(integrationScanMaxFiles + 1)
  BY <1>1, <1>2, CountKeeps
<1>5. \A x \in findings' : x \in findings \/ Justified(x)
  BY <1>1, MacaroonsJustified
<1> QED BY <1>1, <1>3, <1>4, <1>5, LookKeeps DEF WalkInv, TypeOK

\* A step of CheckMacaroonLeastPrivilege keeps the invariant, and its count.
LEMMA IntegrationsKeep ==
  ASSUME WalkInv, FoundInv, CheckMacaroonLeastPrivilege
  PROVE  WalkInv' /\ FoundInv'
<1>1. Looking("least privilege") /\ Unchecked /\ UNCHANGED coverage
  BY DEF CheckMacaroonLeastPrivilege
<1>2. Checks[check] \in Walks /\ todo # <<>> /\ Entry.file # NoFile /\ Checking("least privilege")
  BY <1>1 DEF Looking, Checking, Walks
<1>3. PICK f \in Seen :
        IF ~CountsAsIntegration(f, Entry.dir, Paths)
          THEN todo' = Tail(todo) /\ UNCHANGED <<scannedFiles, findings>>
          ELSE /\ scannedFiles' = scannedFiles + 1
               /\ IF scannedFiles' > integrationScanMaxFiles
                    THEN todo' = <<>> /\ UNCHANGED findings
                    ELSE /\ findings' = findings \cup LeastPrivilege(f, Entry.dir)
                         /\ todo' = Tail(todo)
  BY DEF CheckMacaroonLeastPrivilege
<1>4. todo' \in Seq(Entries(RootOf(Checks[check])))
  <2>1. Tail(todo) \in Seq(Entries(RootOf(Checks[check])))
    BY <1>2, AtFile
  <2>2. <<>> \in Seq(Entries(RootOf(Checks[check])))
    OBVIOUS
  <2>3. todo' = Tail(todo) \/ todo' = <<>>
    BY <1>3
  <2> QED BY <2>1, <2>2, <2>3
<1>5. OnTheWay'
  BY <1>1, <1>2, <1>4, WalkGoesOn
<1>6. scannedFiles \in 0..integrationScanMaxFiles /\ check = 3 /\ integrationScanMaxFiles \in Nat
  <2>1. check \in DOMAIN Checks /\ scannedFiles \in 0..(integrationScanMaxFiles + 1)
    BY DEF WalkInv, TypeOK
  <2>2. scannedFiles <= integrationScanMaxFiles
    BY <1>2 DEF WalkInv, CountIsInTime
  <2>3. check = 3
    BY <1>2, <2>1, CheckIndex
  <2> QED BY <2>1, <2>2, <2>3, LimitAssumption
<1>7. check' = 3
  BY <1>1, <1>6 DEF Unchecked
<1>8. /\ scannedFiles' \in 0..(integrationScanMaxFiles + 1)
      /\ todo' # <<>> => scannedFiles' <= integrationScanMaxFiles
  BY <1>3, <1>6
<1>9. CountIsInTime'
  <2>1. ~(check' < 3)
    BY <1>7
  <2> QED BY <1>8, <2>1 DEF CountIsInTime
<1>10. \A x \in findings' : x \in findings \/ Justified(x)
  BY <1>1, <1>3, IntegrationsJustified
<1> QED BY <1>1, <1>5, <1>8, <1>9, <1>10, LookKeeps DEF WalkInv, TypeOK

\* A step of CheckSecretHygieneLeaks keeps the invariant.
LEMMA SecretsKeep ==
  ASSUME WalkInv, FoundInv, CheckSecretHygieneLeaks
  PROVE  WalkInv' /\ FoundInv'
<1>1. /\ Looking("secret hygiene") /\ Unchecked
      /\ UNCHANGED <<scannedFiles, coverage>> /\ todo' = Tail(todo)
      /\ \E f \in Seen : findings' = findings \cup SecretHygiene(f, Entry.dir, Paths)
  BY DEF CheckSecretHygieneLeaks
<1>2. Checks[check] \in Walks /\ todo # <<>> /\ Entry.file # NoFile
  BY <1>1 DEF Looking, Checking, Walks
<1>3. OnTheWay'
  BY <1>1, <1>2, AtFile, WalkGoesOn
<1>4. CountIsInTime' /\ scannedFiles' \in 0..(integrationScanMaxFiles + 1)
  BY <1>1, <1>2, CountKeeps
<1>5. \A x \in findings' : x \in findings \/ Justified(x)
  BY <1>1, SecretsJustified
<1> QED BY <1>1, <1>3, <1>4, <1>5, LookKeeps DEF WalkInv, TypeOK

\* A step of CheckIncidentReadiness keeps the invariant: it finds nothing yet.
LEMMA RunbooksKeep ==
  ASSUME WalkInv, FoundInv, CheckIncidentReadiness
  PROVE  WalkInv' /\ FoundInv'
<1>1. /\ Looking("runbooks") /\ Unchecked
      /\ UNCHANGED <<scannedFiles, findings>> /\ todo' = Tail(todo)
  BY DEF CheckIncidentReadiness
<1>2. Checks[check] \in Walks /\ todo # <<>> /\ Entry.file # NoFile
  BY <1>1 DEF Looking, Checking, Walks
<1>3. PICK f \in Seen :
        coverage' = IF isRunbook(f, Entry.dir, Paths) THEN Covering(coverage, f) ELSE coverage
  BY DEF CheckIncidentReadiness
<1>4. f \in Files /\ file[f].size \in Nat /\ coverage \in [Topics -> Nat]
  <2>1. f \in Files
    BY <1>2, AtFile
  <2>2. file[f] \in FileRecords /\ coverage \in [Topics -> Nat]
    BY <2>1 DEF WalkInv, TypeOK, TreeTypeOK
  <2> QED BY <2>1, <2>2 DEF FileRecords
<1>5. Covering(coverage, f) \in [Topics -> Nat]
  BY <1>4 DEF Covering
<1>6. coverage' \in [Topics -> Nat]
  BY <1>3, <1>4, <1>5
<1>7. OnTheWay'
  BY <1>1, <1>2, AtFile, WalkGoesOn
<1>8. CountIsInTime' /\ scannedFiles' \in 0..(integrationScanMaxFiles + 1)
  BY <1>1, <1>2, CountKeeps
<1> QED BY <1>1, <1>6, <1>7, <1>8, LookKeeps

\* A step of CheckFilePermissions keeps the invariant.
LEMMA PermissionsKeep ==
  ASSUME WalkInv, FoundInv, CheckFilePermissions
  PROVE  WalkInv' /\ FoundInv'
<1>1. /\ Checking("permissions") /\ todo # <<>> /\ Unchecked
      /\ UNCHANGED <<scannedFiles, coverage>> /\ todo' = Tail(todo)
      /\ findings' = findings \cup checkSingleFile(Head(todo))
  BY DEF CheckFilePermissions
<1> DEFINE S == [id : PermIds, name : FileNames, dir : Places, maxPerm : SUBSET PermBits,
                 severity : {"Critical", "High"}]
<1>2. todo' \in Seq(S)
  <2>1. todo \in Seq(S)
    BY <1>1 DEF WalkInv, OnTheWay
  <2> HIDE DEF S
  <2> QED BY <1>1, <2>1
<1>3. OnTheWay'
  <2>1. check \in DOMAIN Checks /\ check' = check
    BY <1>1 DEF WalkInv, TypeOK, Unchecked
  <2>2. ~Checking("backup") /\ Checks[check] \notin Walks
    BY <1>1, OneCheck
  <2>3. ~Checking("backup")' /\ (Checks[check] \notin Walks)'
    BY <2>1, <2>2 DEF Checking
  <2> QED BY <1>2, <2>3 DEF OnTheWay
<1>4. CountIsInTime' /\ scannedFiles' \in 0..(integrationScanMaxFiles + 1)
  BY <1>1, CountKeeps
<1>5. \A x \in findings' : x \in findings \/ Justified(x)
  BY <1>1, PermissionsJustified
<1> QED BY <1>1, <1>3, <1>4, <1>5, LookKeeps DEF WalkInv, TypeOK

\* A step of CheckChannelBackupReadiness keeps the invariant.
LEMMA BackupKeeps ==
  ASSUME WalkInv, FoundInv, CheckChannelBackupReadiness
  PROVE  WalkInv' /\ FoundInv'
<1>1. /\ Checking("backup") /\ todo # <<>> /\ Unchecked
      /\ UNCHANGED <<scannedFiles, coverage>>
      /\ todo' = Tail(todo) \/ todo' = <<>>
      /\ findings' = findings \/ findings' = findings \cup {Backup}
  BY DEF CheckChannelBackupReadiness
<1> DEFINE S == [name : FileNames, dir : Places]
<1>2. todo' \in Seq(S)
  <2>1. todo \in Seq(S)
    BY <1>1 DEF WalkInv, OnTheWay
  <2> HIDE DEF S
  <2>2. <<>> \in Seq(S) /\ Tail(todo) \in Seq(S)
    BY <1>1, <2>1
  <2> QED BY <1>1, <2>2
<1>3. OnTheWay'
  <2>1. check \in DOMAIN Checks /\ check' = check
    BY <1>1 DEF WalkInv, TypeOK, Unchecked
  <2>2. ~Checking("permissions") /\ Checks[check] \notin Walks
    BY <1>1, OneCheck
  <2>3. ~Checking("permissions")' /\ (Checks[check] \notin Walks)'
    BY <2>1, <2>2 DEF Checking
  <2> QED BY <1>2, <2>3 DEF OnTheWay
<1>4. CountIsInTime' /\ scannedFiles' \in 0..(integrationScanMaxFiles + 1)
  BY <1>1, CountKeeps
<1>5. \A x \in findings' : x \in findings \/ Justified(x)
  BY <1>1, OthersJustified
<1> QED BY <1>1, <1>3, <1>4, <1>5, LookKeeps DEF WalkInv, TypeOK

\* A check begins with what it has to look at.
LEMMA AgendaIsOnTheWay ==
  ASSUME WalkInv, NextCheck
  PROVE  OnTheWay'
<1>1. check' = check + 1 /\ todo' = Agenda(Checks[check + 1]) /\ setup' = setup
  BY DEF NextCheck
<1>2. setup \in Setups
  BY DEF WalkInv, TypeOK
<1>3. Checks[check]' = Checks[check + 1] /\ RootOf(Checks[check])' = RootOf(Checks[check + 1])
  BY <1>1 DEF RootOf, resolveScanRoot
<1>4. ASSUME Checking("permissions")'
      PROVE  todo' \in Seq([id : PermIds, name : FileNames, dir : Places, maxPerm : SUBSET PermBits,
                             severity : {"Critical", "High"}])
  <2>1. todo' = Targets(Paths)
    BY <1>1, <1>3, <1>4 DEF Checking, Agenda, Walks
  <2> QED BY <2>1, <1>2, TargetsType
<1>5. ASSUME Checking("backup")' PROVE todo' \in Seq([name : FileNames, dir : Places])
  <2>1. todo' = IF dirExists(Paths.DataDir) THEN BackupFiles(Paths) ELSE <<>>
    BY <1>1, <1>3, <1>5 DEF Checking, Agenda, Walks
  <2>2. BackupFiles(Paths) \in Seq([name : FileNames, dir : Places])
    BY <1>2, PathsType DEF BackupFiles, FileNames
  <2> QED BY <2>1, <2>2
<1>6. ASSUME (Checks[check] \in Walks)'
      PROVE  /\ todo' \in Seq(Entries(RootOf(Checks[check + 1])))
             /\ todo' # <<>> => RootOf(Checks[check + 1]) \in Dirs \ LinkedDirs
  <2> DEFINE root == RootOf(Checks[check + 1])
  <2>1. todo' = IF root \in Dirs \ LinkedDirs THEN <<DirEntry(root)>> ELSE <<>>
    BY <1>1, <1>3, <1>6 DEF Agenda, Walks
  <2> HIDE DEF root
  <2>2. ASSUME root \in Dirs \ LinkedDirs PROVE DirEntry(root) \in Entries(root)
    <3>1. root \in Open(root)
      BY <2>2, AncestryUnfolds DEF Open, isInsideDir
    <3> QED BY <3>1 DEF Entries
  <2>3. todo' \in Seq(Entries(root)) /\ (todo' # <<>> => root \in Dirs \ LinkedDirs)
    BY <2>1, <2>2
  <2> QED BY <2>3 DEF root
<1> QED BY <1>3, <1>4, <1>5, <1>6 DEF OnTheWay

\* The next check starts with what its walk may come to.
LEMMA NextCheckKeeps ==
  ASSUME WalkInv, FoundInv, NextCheck
  PROVE  WalkInv' /\ FoundInv'
<1>1. /\ ~Checking("done") /\ check' = check + 1
      /\ UNCHANGED <<setup, file, at, scannedFiles, coverage, been, moves>>
      /\ findings' = findings \/ findings' = findings \cup RunbookFindings(coverage)
  BY DEF NextCheck, treeVars
<1>2. check \in DOMAIN Checks /\ check \in 1..7 /\ check # 7
  <2>1. check \in DOMAIN Checks
    BY DEF WalkInv, TypeOK
  <2> QED BY <1>1, <2>1, CheckIndex
<1>3. check' \in DOMAIN Checks /\ check' \in 1..7
  BY <1>1, <1>2 DEF Checks
<1>4. \A x \in findings' : Justified(x)'
  <2>1. \A x \in findings' : Justified(x)
    BY <1>1, OthersJustified DEF FoundInv
  <2>2. \A f \in Files : been[f] \subseteq been'[f]
    BY <1>1
  <2> QED BY <1>1, <2>1, <2>2, StaysJustified
<1>5. TypeOK'
  <2>1. \A x \in findings' : x.file \in Files \cup {NoFile} /\ x.dir \in Dirs \cup {Nowhere}
    BY <1>4 DEF Justified, Places
  <2> QED BY <1>1, <1>3, <2>1 DEF WalkInv, TypeOK, TreeTypeOK
<1>6. NamesAreUnique' /\ been' \in [Files -> SUBSET Places]
  BY <1>1 DEF WalkInv, NamesAreUnique
<1>7. CountIsInTime'
  <2>1. check' < 3 => scannedFiles' = 0
    <3>1. check' < 3 => check < 3
      BY <1>1, <1>2
    <3> QED BY <3>1, <1>1 DEF WalkInv, CountIsInTime
  <2>2. ASSUME Checking("least privilege")' PROVE scannedFiles' <= integrationScanMaxFiles
    <3>1. Checks[check'] = "least privilege"
      BY <2>2 DEF Checking
    <3>2. check' = 3
      BY <1>3, <3>1, CheckNumber
    <3>3. check < 3
      BY <1>1, <1>2, <3>2
    <3>4. scannedFiles' = 0
      BY <1>1, <3>3 DEF WalkInv, CountIsInTime
    <3> QED BY <3>4, LimitAssumption
  <2> QED BY <2>1, <2>2 DEF CountIsInTime
<1> QED BY <1>4, <1>5, <1>6, <1>7, AgendaIsOnTheWay DEF WalkInv, FoundInv

\* A file that is moved has been where it is, and has no namesake there.
LEMMA FileMovesKeep ==
  ASSUME WalkInv, FoundInv, FileMoves
  PROVE  WalkInv' /\ FoundInv'
<1>1. /\ moves < MaxMoves /\ moves' = moves + 1
      /\ UNCHANGED <<setup, check, todo, scannedFiles, coverage, findings>>
  BY DEF FileMoves, scanVars
<1>2. PICK f \in Files, d \in Destinations :
        Move(f, d) /\ been' = [been EXCEPT ![f] = @ \cup {d}]
  BY DEF FileMoves
<1>3. /\ FileAt(d, file[f].name) = {} /\ file' = file /\ at' = [at EXCEPT ![f] = d]
  BY <1>2 DEF Move
<1>4. d \in Places /\ MaxMoves \in Nat
  BY FileScanAssumption DEF Places
<1>5. at \in [Files -> Places] /\ been \in [Files -> SUBSET Places] /\ file \in [Files -> FileRecords]
  BY DEF WalkInv, TypeOK, TreeTypeOK, Places
<1>6. at' \in [Files -> Places] /\ been' \in [Files -> SUBSET Places]
  BY <1>2, <1>3, <1>4, <1>5
<1>7. \A g \in Files : been[g] \subseteq been'[g] /\ at'[g] \in been'[g]
  BY <1>2, <1>3, <1>5 DEF WalkInv, TypeOK
<1>8. \A x \in findings' : Justified(x)'
  BY <1>1, <1>7, StaysJustified DEF FoundInv
<1>9. TypeOK'
  <2>1. \A x \in findings' : x.file \in Files \cup {NoFile} /\ x.dir \in Dirs \cup {Nowhere}
    BY <1>8 DEF Justified, Places
  <2>2. moves' \in 0..MaxMoves
    BY <1>1, <1>4 DEF WalkInv, TypeOK
  <2> QED BY <1>1, <1>3, <1>6, <1>7, <2>1, <2>2 DEF WalkInv, TypeOK, TreeTypeOK, Places
<1>10. NamesAreUnique'
  <2> SUFFICES ASSUME NEW g \in Files, NEW h \in Files, g # h, at'[g] = at'[h], at'[g] # Nowhere
               PROVE  file[g].name # file[h].name
    BY <1>3 DEF NamesAreUnique
  <2>1. \A k \in Files : at[k] = d /\ d # Nowhere => file[k].name # file[f].name
    BY <1>3 DEF FileAt
  <2> QED BY <1>3, <1>5, <2>1 DEF WalkInv, NamesAreUnique
<1>11. OnTheWay'
  <2>1. RootOf(Checks[check])' = RootOf(Checks[check])
    BY <1>1 DEF RootOf, resolveScanRoot
  <2> QED BY <1>1, <2>1 DEF WalkInv, OnTheWay, Checking
<1>12. CountIsInTime'
  BY <1>1 DEF WalkInv, CountIsInTime, Checking
<1> QED BY <1>6, <1>8, <1>9, <1>10, <1>11, <1>12 DEF WalkInv, FoundInv

\* A scan starts with the targets of the permission check and nothing found.
LEMMA InitHolds ==
  ASSUME Init
  PROVE  WalkInv /\ FoundInv
<1>1. PICK input \in ScanInputs : setup = input.setup /\ file = input.file /\ at = input.at
  BY DEF Init
<1>2. /\ check = 1 /\ todo = Targets(Paths) /\ scannedFiles = 0 /\ coverage = [t \in Topics |-> 0]
      /\ findings = {} /\ been = [f \in Files |-> {at[f]}] /\ moves = 0
  BY DEF Init
<1>3. /\ setup \in Setups /\ file \in [Files -> FileRecords] /\ at \in [Files -> Places]
      /\ NamesAreUnique
  BY <1>1, FileScanAssumption DEF NamesAreUnique, Places
<1>4. check \in DOMAIN Checks /\ Checking("permissions")
  BY <1>2 DEF Checks, Checking
<1>5. OnTheWay
  BY <1>2, <1>3, <1>4, OneCheck, TargetsType DEF OnTheWay
<1>6. CountIsInTime
  <2>1. 0 <= integrationScanMaxFiles
    BY LimitAssumption
  <2> QED BY <1>2, <2>1 DEF CountIsInTime
<1>7. TypeOK
  <2>1. moves \in 0..MaxMoves /\ scannedFiles \in 0..(integrationScanMaxFiles + 1)
    BY <1>2, FileScanAssumption, LimitAssumption
  <2>2. coverage \in [Topics -> Nat] /\ \A f \in Files : at[f] \in been[f]
    BY <1>2
  <2> QED BY <1>2, <1>3, <1>4, <2>1, <2>2 DEF TypeOK, TreeTypeOK, Places
<1>8. been \in [Files -> SUBSET Places]
  BY <1>2, <1>3
<1> QED BY <1>2, <1>3, <1>5, <1>6, <1>7, <1>8 DEF WalkInv, FoundInv

\* Every step of a scan, and every move of a file, keeps the invariant.
LEMMA StepKeeps ==
  ASSUME WalkInv, FoundInv, [Next]_vars
  PROVE  WalkInv' /\ FoundInv'
<1>1. CASE CheckFilePermissions
  BY <1>1, PermissionsKeep
<1>2. CASE EnterDir
  BY <1>2, EnterDirKeeps
<1>3. CASE SkipVanished
  BY <1>3, SkipVanishedKeeps
<1>4. CASE CheckAdminMacaroonLeaks
  BY <1>4, MacaroonsKeep
<1>5. CASE CheckMacaroonLeastPrivilege
  BY <1>5, IntegrationsKeep
<1>6. CASE CheckSecretHygieneLeaks
  BY <1>6, SecretsKeep
<1>7. CASE CheckIncidentReadiness
  BY <1>7, RunbooksKeep
<1>8. CASE CheckChannelBackupReadiness
  BY <1>8, BackupKeeps
<1>9. CASE NextCheck
  BY <1>9, NextCheckKeeps
<1>10. CASE FileMoves
  BY <1>10, FileMovesKeep
<1>11. CASE UNCHANGED vars
  <2>1. Unchecked /\ UNCHANGED <<todo, scannedFiles, coverage, findings>>
    BY <1>11 DEF vars, scanVars, treeVars, Unchecked
  <2>2. OnTheWay' /\ CountIsInTime'
    <3>1. UNCHANGED <<setup, check, todo, scannedFiles>>
      BY <2>1 DEF Unchecked
    <3>2. RootOf(Checks[check])' = RootOf(Checks[check])
      BY <3>1 DEF RootOf, resolveScanRoot
    <3> QED BY <3>1, <3>2 DEF WalkInv, OnTheWay, CountIsInTime, Checking
  <2> QED BY <2>1, <2>2, LookKeeps DEF WalkInv, TypeOK
<1> QED BY <1>1, <1>2, <1>3, <1>4, <1>5, <1>6, <1>7, <1>8, <1>9, <1>10, <1>11 DEF Next, ScanStep

-----------------------------------------------------------------------------
(* What stays is found *)

\* What the check of that number finds in a file, where the file is.
Leak(n, f) ==
  CASE n = 2 -> StrayMacaroon(f, at[f], Paths.DataDir)
    [] n = 3 -> IF scannedFiles <= integrationScanMaxFiles /\ CountsAsIntegration(f, at[f], Paths)
                  THEN LeastPrivilege(f, at[f]) ELSE {}
    [] n = 4 -> SecretHygiene(f, at[f], Paths)

Found(n, f) == Leak(n, f) \subseteq findings

\* A file that stays in a directory which the walk looks into.
Due(n, f) == f \in Still /\ at[f] \in Reached(RootOf(Checks[n]))

\* What leads a walk of root to a file: the file, or a directory above it.
Ways(root, f) == {FileEntry(f)} \cup {DirEntry(d) : d \in {e \in Ancestry[at[f]] : isInsideDir(e, root)}}

Pending(n, f) == \E i \in DOMAIN todo : todo[i] \in Ways(RootOf(Checks[n]), f)

\* Of a check that is over, all is found; of the one that goes on, all that the
\* walk will not come to any more.
LastingInv ==
  \A n \in 2..4, f \in Files :
    Due(n, f) => /\ check > n => Found(n, f)
                 /\ check = n => Found(n, f) \/ Pending(n, f)

\* A file that has not been moved has been where it is, and nowhere else.
LEMMA StillIs ==
  ASSUME WalkInv, NEW f \in Files
  PROVE  f \in Still <=> been[f] = {at[f]}
<1>1. been[f] \in SUBSET Places /\ at[f] \in been[f]
  BY DEF WalkInv, TypeOK
<1>2. IsFiniteSet(been[f])
  <2>1. IsFiniteSet(Places)
    BY TreeAssumption, FS_Singleton, FS_Union DEF Places
  <2> QED BY <1>1, <2>1, FS_Subset
<1>3. Cardinality(been[f]) = 1 <=> \E x : been[f] = {x}
  BY <1>2, FS_Singleton
<1> QED BY <1>1, <1>3 DEF Still

\* The same after a step.
LEMMA StillIsNext ==
  ASSUME WalkInv', NEW f \in Files
  PROVE  f \in Still' <=> been'[f] = {at'[f]}
<1>1. been'[f] \in SUBSET Places /\ at'[f] \in been'[f]
  BY DEF WalkInv, TypeOK
<1>2. IsFiniteSet(been'[f])
  <2>1. IsFiniteSet(Places)
    BY TreeAssumption, FS_Singleton, FS_Union DEF Places
  <2> QED BY <1>1, <2>1, FS_Subset
<1>3. Cardinality(been'[f]) = 1 <=> \E x : been'[f] = {x}
  BY <1>2, FS_Singleton
<1> QED BY <1>1, <1>3 DEF Still

\* What is found of a file that is not moved is found after the step, and later.
LEMMA FoundStays ==
  ASSUME WalkInv, WalkInv', NEW n \in 2..4, NEW f \in Files, Leak(n, f) \subseteq findings',
         UNCHANGED <<setup, file>>, at'[f] = at[f], scannedFiles <= scannedFiles'
  PROVE  Found(n, f)'
<1>1. Paths' = Paths
  BY DEF Paths
<1>2. scannedFiles \in Nat /\ scannedFiles' \in Nat /\ integrationScanMaxFiles \in Nat
  BY LimitAssumption DEF WalkInv, TypeOK
<1>3. CASE n = 2
  <2>1. StrayMacaroon(f, at[f], Paths.DataDir)' = StrayMacaroon(f, at[f], Paths.DataDir)
    BY <1>1 DEF StrayMacaroon, isMacaroon
  <2> QED BY <1>3, <2>1 DEF Found, Leak
<1>4. CASE n = 3
  <2>1. CountsAsIntegration(f, at[f], Paths)' = CountsAsIntegration(f, at[f], Paths)
    BY <1>1 DEF CountsAsIntegration, isIntegrationConfigFile
  <2>2. LeastPrivilege(f, at[f])' = LeastPrivilege(f, at[f])
    BY DEF LeastPrivilege
  <2>3. scannedFiles' <= integrationScanMaxFiles => scannedFiles <= integrationScanMaxFiles
    BY <1>2
  <2> QED BY <1>4, <2>1, <2>2, <2>3 DEF Found, Leak
<1>5. CASE n = 4
  <2>1. SecretHygiene(f, at[f], Paths)' = SecretHygiene(f, at[f], Paths)
    BY <1>1 DEF SecretHygiene, checkSensitiveEnvFile
  <2> QED BY <1>5, <2>1 DEF Found, Leak
<1> QED BY <1>3, <1>4, <1>5

\* What the steps of a walk have in common.
LEMMA WalkLasts ==
  ASSUME WalkInv, WalkInv', LastingInv, Unchecked,
         findings \subseteq findings', scannedFiles <= scannedFiles',
         \A n \in 2..4, f \in Files :
           check = n /\ Due(n, f) /\ Pending(n, f) => Found(n, f)' \/ Pending(n, f)'
  PROVE  LastingInv'
<1>1. UNCHANGED <<setup, file, at, check, been>>
  BY DEF Unchecked, treeVars
<1> SUFFICES ASSUME NEW n \in 2..4, NEW f \in Files, Due(n, f)'
             PROVE  /\ check > n => Found(n, f)'
                    /\ check = n => Found(n, f)' \/ Pending(n, f)'
  BY <1>1 DEF LastingInv
<1>2. Due(n, f)
  <2>1. RootOf(Checks[n])' = RootOf(Checks[n])
    BY <1>1 DEF RootOf, resolveScanRoot
  <2> QED BY <1>1, <2>1 DEF Due, Still
<1>3. Found(n, f) => Found(n, f)'
  BY <1>1, FoundStays DEF Found
<1> QED BY <1>2, <1>3 DEF LastingInv

\* A step that looks at what the next entry names leads on to all the others, and
\* sees the file itself, if it stays.
LEMMA LookLasts ==
  ASSUME WalkInv, Unchecked, Checks[check] \in Walks, todo # <<>>, Entry.file # NoFile,
         todo' = Tail(todo),
         NEW n, NEW f \in Files, check = n, Due(n, f), Pending(n, f)
  PROVE  Pending(n, f)' \/ (Entry.dir = at[f] /\ Seen = {f})
<1> DEFINE root == RootOf(Checks[n])
           S    == Entries(root)
<1>1. PICK i \in DOMAIN todo : todo[i] \in Ways(root, f)
  BY DEF Pending
<1>2. todo \in Seq(S)
  BY DEF WalkInv, OnTheWay
<1>3. UNCHANGED <<setup, at>>
  BY DEF Unchecked, treeVars
<1>4. Ways(root, f)' = Ways(root, f)
  BY <1>3 DEF Ways, RootOf, resolveScanRoot, FileEntry
<1>5. CASE i = 1
  <2>1. Entry \in Ways(root, f)
    BY <1>1, <1>5 DEF Entry
  <2>2. Entry = FileEntry(f)
    BY <2>1 DEF Ways, DirEntry
  <2>3. Entry.dir = at[f] /\ Entry.file = f
    BY <2>2 DEF FileEntry
  <2>4. at[f] # Nowhere
    BY AncestryUnfolds DEF Due, Reached
  <2>5. Seen = {g \in Files : at[g] = at[f] /\ file[g].name = file[f].name}
    BY <2>3, <2>4 DEF Seen, FileAt
  <2>6. Seen = {f}
    BY <2>4, <2>5 DEF WalkInv, NamesAreUnique
  <2> QED BY <2>3, <2>6
<1>6. CASE i # 1
  <2> HIDE DEF S, root
  <2>1. i - 1 \in DOMAIN Tail(todo) /\ Tail(todo)[i - 1] = todo[i]
    BY <1>1, <1>2, <1>6
  <2>2. i - 1 \in DOMAIN todo' /\ todo'[i - 1] \in Ways(root, f)
    BY <1>1, <2>1
  <2>3. i - 1 \in DOMAIN todo' /\ todo'[i - 1] \in Ways(root, f)'
    BY <1>4, <2>2
  <2> QED BY <2>3 DEF Pending, root
<1> QED BY <1>5, <1>6

\* A walk that enters a directory above a file comes to the next one below, or to
\* the file.
LEMMA EnterLasts ==
  ASSUME WalkInv, EnterDir,
         NEW n, NEW f \in Files, check = n, Due(n, f), Pending(n, f)
  PROVE  Pending(n, f)'
<1> DEFINE root == RootOf(Checks[n])
           S    == Entries(root)
           here == IF Pruned(Entry.dir, root) THEN <<>> ELSE Children(Entry.dir)
<1>1. /\ Checks[check] \in Walks /\ todo # <<>> /\ Entry.file = NoFile /\ Unchecked
      /\ todo' = here \o Tail(todo)
  BY DEF EnterDir
<1>2. PICK i \in DOMAIN todo : todo[i] \in Ways(root, f)
  BY DEF Pending
<1>3. todo \in Seq(S) /\ Entry.dir \in Open(root) /\ root \in Dirs \ LinkedDirs
  BY <1>1, AtDir DEF WalkInv, OnTheWay
<1>4. Ways(root, f)' = Ways(root, f)
  BY <1>1 DEF Ways, RootOf, resolveScanRoot, FileEntry, Unchecked, treeVars
<1>5. here \in Seq(S)
  <2>1. ~Pruned(Entry.dir, root) => Children(Entry.dir) \in Seq(S)
    BY <1>3, EnteredIsReached, ChildrenAreEntries
  <2> HIDE DEF S
  <2> QED BY <2>1
<1>6. \E j \in DOMAIN todo' : todo'[j] \in Ways(root, f)
  <2>1. CASE i # 1
    <3> HIDE DEF S, root, here
    <3>1. Len(here) + i - 1 \in DOMAIN (here \o Tail(todo)) /\ (here \o Tail(todo))[Len(here) + i - 1] = todo[i]
      BY <1>2, <1>3, <1>5, <2>1
    <3> QED BY <1>1, <1>2, <3>1
  <2>2. CASE i = 1
    <3>1. Entry \in Ways(root, f)
      BY <1>2, <2>2 DEF Entry
    <3>2. Entry # FileEntry(f)
      BY <1>1, NoFileIsNone DEF FileEntry
    <3>3. PICK d \in Ancestry[at[f]] : isInsideDir(d, root) /\ Entry = DirEntry(d)
      BY <3>1, <3>2 DEF Ways
    <3>4. Entry.dir = d
      BY <3>3 DEF DirEntry
    <3>5. at[f] \in Reached(root) /\ at[f] \in Dirs /\ d \in Dirs
      BY AncestryType DEF Due, Reached
    <3>6. here = Children(d)
      BY <3>3, <3>4, <3>5, WayToRoot
    <3>7. \E j \in DOMAIN Children(d) : Children(d)[j] \in Ways(root, f)
      <4> DEFINE names == {e \in Dirs \ LinkedDirs : parent[e] = d} \cup {g \in Files : at[g] = d}
      <4>1. CASE d = at[f]
        <5>1. f \in names \cap Files
          BY <4>1
        <5>2. \E j \in DOMAIN Children(d) : Children(d)[j] = FileEntry(f)
          BY <5>1, Listing
        <5> QED BY <5>2 DEF Ways
      <4>2. CASE d # at[f]
        <5>1. PICK c \in Ancestry[at[f]] : parent[c] = d
          BY <3>3, <3>5, <4>2, WayUp
        <5>2. c \in Dirs /\ root \in Ancestry[d] /\ root # Nowhere
          BY <3>3, <3>5, <5>1, AncestryType DEF isInsideDir
        <5>3. isInsideDir(c, root)
          BY <5>1, <5>2, AncestryUnfolds DEF isInsideDir
        <5>4. c \notin LinkedDirs
          BY <3>5, <5>1, <5>3, WayToRoot
        <5>5. c \in names \ Files
          BY <5>1, <5>2, <5>4, TreeAssumption
        <5>6. \E j \in DOMAIN Children(d) : Children(d)[j] = DirEntry(c)
          BY <5>5, Listing
        <5>7. DirEntry(c) \in Ways(root, f)
          BY <5>1, <5>3 DEF Ways
        <5> QED BY <5>6, <5>7
      <4> QED BY <4>1, <4>2
    <3> HIDE DEF S, root, here
    <3>8. PICK j \in DOMAIN here : here[j] \in Ways(root, f)
      BY <3>6, <3>7
    <3>9. j \in DOMAIN (here \o Tail(todo)) /\ (here \o Tail(todo))[j] = here[j]
      BY <1>1, <1>3, <1>5
    <3> QED BY <1>1, <3>8, <3>9
  <2> QED BY <2>1, <2>2
<1>7. \E j \in DOMAIN todo' : todo'[j] \in Ways(root, f)'
  BY <1>4, <1>6
<1> QED BY <1>7 DEF Pending

\* The checks that walk the tree for leaks, by their number.
LEMMA LeakChecks ==
  ASSUME check \in DOMAIN Checks, check \in 2..4
  PROVE  Checks[check] \in Walks /\ ~Checking("permissions") /\ ~Checking("backup") /\ ~Checking("runbooks")
<1>1. Checks[2] = "macaroon leaks" /\ Checks[3] = "least privilege" /\ Checks[4] = "secret hygiene"
  BY DEF Checks
<1>2. check = 2 \/ check = 3 \/ check = 4
  OBVIOUS
<1> QED BY <1>1, <1>2 DEF Checking, Walks

\* The checks that are no walks for leaks have nothing to lose.
LEMMA OtherLasts ==
  ASSUME WalkInv, WalkInv', LastingInv, Unchecked, findings \subseteq findings', UNCHANGED scannedFiles,
         Checking("permissions") \/ Checking("backup") \/ Checking("runbooks")
  PROVE  LastingInv'
<1>1. check \in DOMAIN Checks /\ scannedFiles \in Nat
  BY LimitAssumption DEF WalkInv, TypeOK
<1>2. check \notin 2..4
  BY <1>1, LeakChecks
<1>3. scannedFiles <= scannedFiles'
  BY <1>1
<1> QED BY <1>2, <1>3, WalkLasts

\* A directory that is entered leaves on the list what leads to a leak.
LEMMA EnterDirLasts ==
  ASSUME WalkInv, WalkInv', LastingInv, EnterDir
  PROVE  LastingInv'
<1>1. Unchecked /\ UNCHANGED <<findings, scannedFiles>>
  BY DEF EnterDir
<1>2. scannedFiles <= scannedFiles'
  BY <1>1, LimitAssumption DEF WalkInv, TypeOK
<1>3. \A n \in 2..4, f \in Files : check = n /\ Due(n, f) /\ Pending(n, f) => Pending(n, f)'
  BY EnterLasts
<1> QED BY <1>1, <1>2, <1>3, WalkLasts

\* A path that is gone was not that of a file that stays.
LEMMA SkipVanishedLasts ==
  ASSUME WalkInv, WalkInv', LastingInv, SkipVanished
  PROVE  LastingInv'
<1>1. /\ Unchecked /\ UNCHANGED <<findings, scannedFiles>> /\ Seen = {}
      /\ Checks[check] \in Walks /\ todo # <<>> /\ Entry.file # NoFile /\ todo' = Tail(todo)
  BY DEF SkipVanished
<1>2. scannedFiles <= scannedFiles'
  BY <1>1, LimitAssumption DEF WalkInv, TypeOK
<1>3. \A n \in 2..4, f \in Files : check = n /\ Due(n, f) /\ Pending(n, f) => Pending(n, f)'
  <2> SUFFICES ASSUME NEW n \in 2..4, NEW f \in Files, check = n, Due(n, f), Pending(n, f)
               PROVE  Pending(n, f)'
    OBVIOUS
  <2>1. Pending(n, f)' \/ Seen = {f}
    BY <1>1, LookLasts
  <2> QED BY <1>1, <2>1
<1> QED BY <1>1, <1>2, <1>3, WalkLasts

\* A look of which all that is seen is reported.
LEMMA SeenLasts ==
  ASSUME WalkInv, WalkInv', LastingInv, Unchecked, UNCHANGED scannedFiles,
         todo # <<>>, Entry.file # NoFile, todo' = Tail(todo), findings \subseteq findings',
         \A f \in Files : Seen = {f} /\ Entry.dir = at[f] => Leak(check, f) \subseteq findings'
  PROVE  LastingInv'
<1>1. check \in DOMAIN Checks /\ scannedFiles \in Nat /\ UNCHANGED <<setup, file, at>>
  BY LimitAssumption DEF WalkInv, TypeOK, Unchecked, treeVars
<1>2. scannedFiles <= scannedFiles'
  BY <1>1
<1>3. \A n \in 2..4, f \in Files :
        check = n /\ Due(n, f) /\ Pending(n, f) => Found(n, f)' \/ Pending(n, f)'
  <2> SUFFICES ASSUME NEW n \in 2..4, NEW f \in Files, check = n, Due(n, f), Pending(n, f)
               PROVE  Found(n, f)' \/ Pending(n, f)'
    OBVIOUS
  <2>1. Checks[check] \in Walks
    BY <1>1, LeakChecks
  <2>2. Pending(n, f)' \/ (Entry.dir = at[f] /\ Seen = {f})
    BY <2>1, LookLasts
  <2>3. CASE Entry.dir = at[f] /\ Seen = {f}
    <3>1. Leak(n, f) \subseteq findings'
      BY <2>3
    <3> QED BY <1>1, <1>2, <3>1, FoundStays
  <2> QED BY <2>2, <2>3
<1> QED BY <1>2, <1>3, WalkLasts

\* A stray macaroon that stays is found when the walk looks at it.
LEMMA MacaroonsLast ==
  ASSUME WalkInv, WalkInv', LastingInv, CheckAdminMacaroonLeaks
  PROVE  LastingInv'
<1>1. /\ Looking("macaroon leaks") /\ Unchecked /\ UNCHANGED scannedFiles /\ todo' = Tail(todo)
  BY DEF CheckAdminMacaroonLeaks
<1>2. PICK f \in Seen : findings' = findings \cup StrayMacaroon(f, Entry.dir, Paths.DataDir)
  BY DEF CheckAdminMacaroonLeaks
<1>3. check = 2
  BY <1>1, CheckIndex DEF Looking, WalkInv, TypeOK
<1>4. todo # <<>> /\ Entry.file # NoFile
  BY <1>1 DEF Looking
<1>5. \A g \in Files : Seen = {g} /\ Entry.dir = at[g] => Leak(check, g) \subseteq findings'
  <2> SUFFICES ASSUME NEW g \in Files, Seen = {g}, Entry.dir = at[g]
               PROVE  Leak(check, g) \subseteq findings'
    OBVIOUS
  <2>1. f = g /\ Leak(check, g) = StrayMacaroon(g, at[g], Paths.DataDir)
    BY <1>3 DEF Leak
  <2> QED BY <1>2, <2>1
<1> QED BY <1>1, <1>2, <1>4, <1>5, SeenLasts

\* A secret that stays is found when the walk looks at it.
LEMMA SecretsLast ==
  ASSUME WalkInv, WalkInv', LastingInv, CheckSecretHygieneLeaks
  PROVE  LastingInv'
<1>1. /\ Looking("secret hygiene") /\ Unchecked /\ UNCHANGED scannedFiles /\ todo' = Tail(todo)
  BY DEF CheckSecretHygieneLeaks
<1>2. PICK f \in Seen : findings' = findings \cup SecretHygiene(f, Entry.dir, Paths)
  BY DEF CheckSecretHygieneLeaks
<1>3. check = 4
  BY <1>1, CheckIndex DEF Looking, WalkInv, TypeOK
<1>4. todo # <<>> /\ Entry.file # NoFile
  BY <1>1 DEF Looking
<1>5. \A g \in Files : Seen = {g} /\ Entry.dir = at[g] => Leak(check, g) \subseteq findings'
  <2> SUFFICES ASSUME NEW g \in Files, Seen = {g}, Entry.dir = at[g]
               PROVE  Leak(check, g) \subseteq findings'
    OBVIOUS
  <2>1. f = g /\ Leak(check, g) = SecretHygiene(g, at[g], Paths)
    BY <1>3 DEF Leak
  <2> QED BY <1>2, <2>1
<1> QED BY <1>1, <1>2, <1>4, <1>5, SeenLasts

\* Integrations are found until the count is above the limit.
LEMMA IntegrationsLast ==
  ASSUME WalkInv, WalkInv', LastingInv, CheckMacaroonLeastPrivilege
  PROVE  LastingInv'
<1>1. Looking("least privilege") /\ Unchecked
  BY DEF CheckMacaroonLeastPrivilege
<1>2. PICK g \in Seen :
        IF ~CountsAsIntegration(g, Entry.dir, Paths)
          THEN todo' = Tail(todo) /\ UNCHANGED <<scannedFiles, findings>>
          ELSE /\ scannedFiles' = scannedFiles + 1
               /\ IF scannedFiles' > integrationScanMaxFiles
                    THEN todo' = <<>> /\ UNCHANGED findings
                    ELSE /\ findings' = findings \cup LeastPrivilege(g, Entry.dir)
                         /\ todo' = Tail(todo)
  BY DEF CheckMacaroonLeastPrivilege
<1>3. check = 3 /\ Checks[check] \in Walks /\ todo # <<>> /\ Entry.file # NoFile
  <2>1. check = 3 /\ check \in DOMAIN Checks
    BY <1>1, CheckIndex DEF Looking, WalkInv, TypeOK
  <2>2. check \in 2..4
    BY <2>1
  <2> QED BY <1>1, <2>1, <2>2, LeakChecks DEF Looking
<1>4. scannedFiles \in Nat /\ scannedFiles' \in Nat /\ UNCHANGED <<setup, file, at>>
  <2>1. scannedFiles \in Nat /\ integrationScanMaxFiles \in Nat
    BY LimitAssumption DEF WalkInv, TypeOK
  <2>2. scannedFiles' = scannedFiles \/ scannedFiles' = scannedFiles + 1
    BY <1>2
  <2>3. UNCHANGED <<setup, file, at>>
    BY <1>1 DEF Unchecked, treeVars
  <2> QED BY <2>1, <2>2, <2>3
<1>5. scannedFiles <= scannedFiles' /\ findings \subseteq findings'
  <2>1. scannedFiles' = scannedFiles \/ scannedFiles' = scannedFiles + 1
    BY <1>2
  <2>2. scannedFiles <= scannedFiles'
    BY <1>4, <2>1
  <2> QED BY <1>2, <2>2
<1>6. \A n \in 2..4, f \in Files :
        check = n /\ Due(n, f) /\ Pending(n, f) => Found(n, f)' \/ Pending(n, f)'
  <2> SUFFICES ASSUME NEW n \in 2..4, NEW f \in Files, check = n, Due(n, f), Pending(n, f)
               PROVE  Found(n, f)' \/ Pending(n, f)'
    OBVIOUS
  <2>1. n = 3
    BY <1>3
  <2>2. CASE scannedFiles' > integrationScanMaxFiles
    <3>1. ~(scannedFiles' <= integrationScanMaxFiles)
      BY <1>4, <2>2, LimitAssumption
    <3>2. Leak(n, f)' = {}
      BY <2>1, <3>1 DEF Leak
    <3> QED BY <3>2 DEF Found
  <2>3. CASE ~(scannedFiles' > integrationScanMaxFiles)
    <3>1. todo' = Tail(todo)
      BY <1>2, <2>3
    <3>2. Pending(n, f)' \/ (Entry.dir = at[f] /\ Seen = {f})
      BY <1>1, <1>3, <3>1, LookLasts
    <3>3. CASE Entry.dir = at[f] /\ Seen = {f}
      <4>1. g = f
        BY <3>3
      <4>2. CASE CountsAsIntegration(f, at[f], Paths)
        <5>1. findings' = findings \cup LeastPrivilege(f, at[f])
          BY <1>2, <2>3, <3>3, <4>1, <4>2
        <5>2. Leak(n, f) \subseteq LeastPrivilege(f, at[f])
          BY <2>1 DEF Leak
        <5> QED BY <1>4, <1>5, <5>1, <5>2, FoundStays
      <4>3. CASE ~CountsAsIntegration(f, at[f], Paths)
        <5>1. Leak(n, f) = {}
          BY <2>1, <4>3 DEF Leak
        <5> QED BY <1>4, <1>5, <5>1, FoundStays
      <4> QED BY <4>2, <4>3
    <3> QED BY <3>2, <3>3
  <2> QED BY <2>2, <2>3
<1> QED BY <1>1, <1>5, <1>6, WalkLasts

\* A walk begins at its root, above everything it looks into.
LEMMA WalkBegins ==
  ASSUME WalkInv, NextCheck, NEW n \in {2, 3, 4, 6}, check' = n, NEW f \in Files, Due(n, f)
  PROVE  Pending(n, f)'
<1> DEFINE root == RootOf(Checks[n])
<1>1. todo' = Agenda(Checks[check + 1]) /\ check + 1 = n /\ UNCHANGED <<setup, file, at>>
  BY DEF NextCheck, treeVars
<1>2. RootOf(Checks[n])' = RootOf(Checks[n])
  BY <1>1 DEF RootOf, resolveScanRoot
<1>3. root \in Dirs \ LinkedDirs /\ isInsideDir(at[f], root)
  BY DEF Due, Reached
<1>4. Checks[n] \in Walks
  <2>1. /\ Checks[2] = "macaroon leaks" /\ Checks[3] = "least privilege"
        /\ Checks[4] = "secret hygiene" /\ Checks[6] = "runbooks"
    BY DEF Checks
  <2>2. n = 2 \/ n = 3 \/ n = 4 \/ n = 6
    OBVIOUS
  <2> QED BY <2>1, <2>2 DEF Walks
<1>5. todo' = <<DirEntry(root)>>
  BY <1>1, <1>3, <1>4 DEF Agenda, Walks
<1>6. root \in Ancestry[at[f]] /\ isInsideDir(root, root)
  BY <1>3, AncestryUnfolds DEF isInsideDir
<1>7. DirEntry(root) \in Ways(root, f)'
  <2>1. Ways(root, f)' = Ways(root, f)
    BY <1>1, <1>2 DEF Ways, FileEntry
  <2>2. DirEntry(root) \in Ways(root, f)
    <3> HIDE DEF root
    <3> QED BY <1>6 DEF Ways
  <2> QED BY <2>1, <2>2
<1>8. 1 \in DOMAIN todo' /\ todo'[1] = DirEntry(root)
  BY <1>5
<1> QED BY <1>2, <1>7, <1>8 DEF Pending

\* A walk that has nothing left to look at has found all it should; the next one is
\* still to come.
LEMMA NextCheckLasts ==
  ASSUME WalkInv, WalkInv', LastingInv, NextCheck
  PROVE  LastingInv'
<1>1. /\ todo = <<>> /\ check' = check + 1 /\ todo' = Agenda(Checks[check + 1])
      /\ UNCHANGED <<setup, file, at, scannedFiles, been>>
      /\ findings \subseteq findings'
  BY DEF NextCheck, treeVars
<1>2. check \in Nat /\ scannedFiles \in Nat /\ scannedFiles <= scannedFiles'
  <2>1. check \in DOMAIN Checks /\ scannedFiles \in Nat /\ scannedFiles' = scannedFiles
    BY <1>1, LimitAssumption DEF WalkInv, TypeOK
  <2>2. check \in 1..7
    BY <2>1, CheckIndex
  <2>3. check \in Nat
    BY <2>2
  <2> QED BY <2>1, <2>3
<1> SUFFICES ASSUME NEW n \in 2..4, NEW f \in Files, Due(n, f)'
             PROVE  /\ check' > n => Found(n, f)'
                    /\ check' = n => Found(n, f)' \/ Pending(n, f)'
  BY DEF LastingInv
<1>3. RootOf(Checks[n])' = RootOf(Checks[n])
  BY <1>1 DEF RootOf, resolveScanRoot
<1>4. Due(n, f)
  BY <1>1, <1>3 DEF Due, Still
<1>5. ASSUME check' > n PROVE Found(n, f)'
  <2>1. check > n \/ check = n
    BY <1>1, <1>2, <1>5
  <2>2. ~Pending(n, f)
    BY <1>1 DEF Pending
  <2>3. Found(n, f)
    BY <1>4, <2>1, <2>2 DEF LastingInv
  <2> QED BY <1>1, <1>2, <2>3, FoundStays DEF Found
<1>6. ASSUME check' = n PROVE Pending(n, f)'
  BY <1>4, <1>6, WalkBegins
<1> QED BY <1>5, <1>6

\* A file that is in one place all along is not moved.
LEMMA StillStays ==
  ASSUME WalkInv, WalkInv', FileMoves, NEW f \in Files, f \in Still'
  PROVE  f \in Still /\ at'[f] = at[f]
<1>1. PICK g \in Files, d \in Destinations : been' = [been EXCEPT ![g] = @ \cup {d}]
  BY DEF FileMoves
<1>2. been'[f] = {at'[f]}
  BY StillIsNext
<1>3. been \in [Files -> SUBSET Places] /\ at[f] \in been[f]
  BY DEF WalkInv, TypeOK
<1>4. been[f] \subseteq been'[f]
  BY <1>1, <1>3
<1>5. been[f] = {at[f]} /\ at'[f] = at[f]
  BY <1>2, <1>3, <1>4
<1> QED BY <1>5, StillIs

\* What is due of a file that stays was due before another was moved.
LEMMA FileMovesLast ==
  ASSUME WalkInv, WalkInv', LastingInv, FileMoves
  PROVE  LastingInv'
<1>1. UNCHANGED <<setup, check, todo, scannedFiles, findings, file>>
  BY DEF FileMoves, scanVars, Move
<1> SUFFICES ASSUME NEW n \in 2..4, NEW f \in Files, Due(n, f)'
             PROVE  /\ check > n => Found(n, f)'
                    /\ check = n => Found(n, f)' \/ Pending(n, f)'
  BY <1>1 DEF LastingInv
<1>3. at'[f] = at[f] /\ f \in Still
  BY StillStays DEF Due
<1>4. RootOf(Checks[n])' = RootOf(Checks[n])
  BY <1>1 DEF RootOf, resolveScanRoot
<1>5. Due(n, f)
  BY <1>3, <1>4 DEF Due
<1>6. Found(n, f) => Found(n, f)'
  <2>1. scannedFiles <= scannedFiles'
    BY <1>1, LimitAssumption DEF WalkInv, TypeOK
  <2> QED BY <1>1, <1>3, <2>1, FoundStays DEF Found
<1>7. Pending(n, f) => Pending(n, f)'
  <2>1. Ways(RootOf(Checks[n]), f)' = Ways(RootOf(Checks[n]), f)
    BY <1>3, <1>4 DEF Ways, FileEntry
  <2> QED BY <1>1, <2>1 DEF Pending
<1> QED BY <1>5, <1>6, <1>7 DEF LastingInv

\* Every step keeps what is due.
LEMMA StepLasts ==
  ASSUME WalkInv, WalkInv', LastingInv, [Next]_vars
  PROVE  LastingInv'
<1>1. CASE CheckFilePermissions
  <2>1. Checking("permissions") /\ Unchecked /\ UNCHANGED scannedFiles /\ findings \subseteq findings'
    BY <1>1 DEF CheckFilePermissions
  <2> QED BY <2>1, OtherLasts
<1>2. CASE EnterDir
  BY <1>2, EnterDirLasts
<1>3. CASE SkipVanished
  BY <1>3, SkipVanishedLasts
<1>4. CASE CheckAdminMacaroonLeaks
  BY <1>4, MacaroonsLast
<1>5. CASE CheckMacaroonLeastPrivilege
  BY <1>5, IntegrationsLast
<1>6. CASE CheckSecretHygieneLeaks
  BY <1>6, SecretsLast
<1>7. CASE CheckIncidentReadiness
  <2>1. Checking("runbooks") /\ Unchecked /\ UNCHANGED <<scannedFiles, findings>>
    BY <1>7 DEF CheckIncidentReadiness, Looking
  <2> QED BY <2>1, OtherLasts
<1>8. CASE CheckChannelBackupReadiness
  <2>1. Checking("backup") /\ Unchecked /\ UNCHANGED scannedFiles /\ findings \subseteq findings'
    BY <1>8 DEF CheckChannelBackupReadiness
  <2> QED BY <2>1, OtherLasts
<1>9. CASE NextCheck
  BY <1>9, NextCheckLasts
<1>10. CASE FileMoves
  BY <1>10, FileMovesLast
<1>11. CASE UNCHANGED vars
  <2>1. Unchecked /\ UNCHANGED <<todo, scannedFiles, findings>>
    BY <1>11 DEF vars, scanVars, treeVars, Unchecked
  <2>2. scannedFiles <= scannedFiles'
    BY <2>1, LimitAssumption DEF WalkInv, TypeOK
  <2>3. ASSUME NEW n \in 2..4, NEW f \in Files, Pending(n, f) PROVE Pending(n, f)'
    <3>1. Ways(RootOf(Checks[n]), f)' = Ways(RootOf(Checks[n]), f)
      BY <2>1 DEF Ways, FileEntry, RootOf, resolveScanRoot, Unchecked, treeVars
    <3> QED BY <2>1, <2>3, <3>1 DEF Pending
  <2> QED BY <2>1, <2>2, <2>3, WalkLasts
<1> QED BY <1>1, <1>2, <1>3, <1>4, <1>5, <1>6, <1>7, <1>8, <1>9, <1>10, <1>11 DEF Next, ScanStep

-----------------------------------------------------------------------------
(* What runbooks cover *)

\* The IDs of findings about runbooks.
RunbookIds == {TopicId[t] : t \in Topics} \cup {TooBriefId[t] : t \in Topics}

\* A text has been counted for what it says.
Read(f) == \A t \in Topics : t \in file[f].says => file[f].size <= coverage[t]

\* What CheckIncidentReadiness knows of a topic is the length of a text that was
\* in reach, and no less than that of one which has stayed there and is not
\* before it any more; and what it reports is what it knows.
CoverageInv ==
  /\ \A f \in Files : Due(6, f) /\ isRunbook(f, at[f], Paths) =>
       /\ check > 6 => Read(f)
       /\ check = 6 => Read(f) \/ Pending(6, f)
  /\ \A t \in Topics : coverage[t] > 0 =>
       \E f \in Files, d \in Reached(setup.runbookDir) :
         d \in been[f] /\ t \in file[f].says /\ file[f].size = coverage[t]
  /\ \A x \in findings : x.id \in RunbookIds => Checking("done") /\ x \in RunbookFindings(coverage)
  /\ Checking("done") /\ setup.runbookDir # NotSet => RunbookFindings(coverage) \subseteq findings

\* The walk for runbooks is the sixth check, from the root the flag names.
LEMMA RunbookWalk ==
  /\ Checks[6] = "runbooks" /\ 6 \in DOMAIN Checks
  /\ RootOf(Checks[6]) = setup.runbookDir
<1>1. Checks[6] = "runbooks" /\ 6 \in DOMAIN Checks
  BY DEF Checks
<1> QED BY <1>1 DEF RootOf

\* What the other checks find has IDs of its own.
LEMMA OtherIds ==
  RunbookIds \cap ({"A-3", "A-4", "A-5", "A-6", "H-7a", "H-7b", "H-7c", "H-7d", "C-10"} \cup PermIds) = {}
<1>1. RunbookIds \subseteq {"H-8a", "H-8b", "H-8c", "H-8d", "H-8a-q", "H-8b-q", "H-8c-q", "H-8d-q"}
  BY DEF RunbookIds, Topics, TopicId, TooBriefId
<1> QED BY <1>1 DEF PermIds

\* As long as the flags are the same and a file is where it was, what is due of it
\* is the same.
LEMMA DueWas ==
  ASSUME UNCHANGED <<setup, file>>, NEW f \in Files, f \in Still, at'[f] = at[f]
  PROVE  /\ Due(6, f)' => Due(6, f)
         /\ isRunbook(f, at[f], Paths)' => isRunbook(f, at[f], Paths)
<1>1. Paths' = Paths
  BY DEF Paths
<1>2. RootOf(Checks[6])' = RootOf(Checks[6])
  BY DEF RootOf, resolveScanRoot
<1> QED BY <1>1, <1>2 DEF Due, isRunbook

\* What is known of a topic comes from a text that was in reach, whatever is moved.
LEMMA SourceWas ==
  ASSUME WalkInv, WalkInv', CoverageInv, UNCHANGED <<setup, file, coverage>>,
         \A f \in Files : been[f] \subseteq been'[f]
  PROVE  \A t \in Topics : coverage'[t] > 0 =>
           \E f \in Files, d \in Reached(setup'.runbookDir) :
             d \in been'[f] /\ t \in file'[f].says /\ file'[f].size = coverage'[t]
BY DEF CoverageInv

\* What the steps have in common that look at no runbook.
LEMMA OtherCovers ==
  ASSUME WalkInv, WalkInv', CoverageInv, Unchecked, UNCHANGED coverage, ~Checking("done"),
         \A x \in findings' : x \in findings \/ x.id \notin RunbookIds,
         \A f \in Files : check = 6 /\ Due(6, f) /\ Pending(6, f) => Pending(6, f)'
  PROVE  CoverageInv'
<1>1. UNCHANGED <<setup, file, at, check, been>>
  BY DEF Unchecked, treeVars
<1>2. ASSUME NEW f \in Files, Due(6, f)', isRunbook(f, at[f], Paths)'
      PROVE  /\ check > 6 => Read(f)'
             /\ check = 6 => Read(f)' \/ Pending(6, f)'
  <2>1. f \in Still
    BY <1>1, <1>2 DEF Due, Still
  <2>2. Due(6, f) /\ isRunbook(f, at[f], Paths)
    BY <1>1, <1>2, <2>1, DueWas
  <2>3. Read(f) => Read(f)'
    BY <1>1 DEF Read
  <2> QED BY <2>2, <2>3 DEF CoverageInv
<1>3. ~Checking("done")'
  BY <1>1 DEF Checking
<1>4. \A x \in findings' : x.id \notin RunbookIds
  BY DEF CoverageInv
<1> QED BY <1>1, <1>2, <1>3, <1>4, SourceWas DEF CoverageInv

\* A runbook that stays is counted when the walk looks at it, and no other text takes
\* away what it covers.
LEMMA RunbooksCover ==
  ASSUME WalkInv, WalkInv', CoverageInv, CheckIncidentReadiness
  PROVE  CoverageInv'
<1>1. /\ Looking("runbooks") /\ Unchecked /\ UNCHANGED findings /\ todo' = Tail(todo)
      /\ UNCHANGED <<setup, file, at, check, been>>
  BY DEF CheckIncidentReadiness, Unchecked, treeVars
<1>2. PICK g \in Seen :
        coverage' = IF isRunbook(g, Entry.dir, Paths) THEN Covering(coverage, g) ELSE coverage
  BY DEF CheckIncidentReadiness
<1>3. check = 6 /\ Checks[check] \in Walks /\ todo # <<>> /\ Entry.file # NoFile
  BY <1>1, CheckIndex DEF Looking, WalkInv, TypeOK, Checking, Walks
<1>4. /\ g \in Files /\ Entry.dir \in been[g] /\ Entry.dir \in Reached(setup.runbookDir)
  BY <1>3, AtFile, RunbookWalk
<1>5. /\ coverage \in [Topics -> Nat] /\ coverage' \in [Topics -> Nat]
      /\ \A f \in Files : file[f].size \in Nat
  <2>1. file \in [Files -> FileRecords]
    BY DEF WalkInv, TypeOK, TreeTypeOK
  <2>2. \A r \in FileRecords : r.size \in Nat
    BY DEF FileRecords
  <2> QED BY <2>1, <2>2 DEF WalkInv, TypeOK
<1>6. \A t \in Topics : /\ coverage[t] <= coverage'[t]
                        /\ \/ coverage'[t] = coverage[t]
                           \/ t \in file[g].says /\ file[g].size = coverage'[t]
  <2> SUFFICES ASSUME NEW t \in Topics
               PROVE  /\ coverage[t] <= coverage'[t]
                      /\ \/ coverage'[t] = coverage[t]
                         \/ t \in file[g].says /\ file[g].size = coverage'[t]
    OBVIOUS
  <2>1. coverage[t] \in Nat /\ file[g].size \in Nat
    BY <1>4, <1>5
  <2>2. CASE isRunbook(g, Entry.dir, Paths)
    <3>1. coverage'[t] = IF t \in file[g].says /\ file[g].size > coverage[t]
                           THEN file[g].size ELSE coverage[t]
      BY <1>2, <2>2 DEF Covering
    <3> QED BY <2>1, <3>1
  <2>3. CASE ~isRunbook(g, Entry.dir, Paths)
    BY <1>2, <2>1, <2>3
  <2> QED BY <2>2, <2>3
<1>7. isRunbook(g, Entry.dir, Paths) => Read(g)'
  BY <1>1, <1>2, <1>4, <1>5 DEF Covering, Read
<1>8. ASSUME NEW f \in Files, Due(6, f)', isRunbook(f, at[f], Paths)'
      PROVE  Read(f)' \/ Pending(6, f)'
  <2>1. f \in Still
    BY <1>1, <1>8 DEF Due, Still
  <2>2. Due(6, f) /\ isRunbook(f, at[f], Paths)
    BY <1>1, <1>8, <2>1, DueWas
  <2>3. CASE Read(f)
    BY <1>1, <1>5, <1>6, <2>3 DEF Read
  <2>4. CASE Pending(6, f)
    <3>1. Pending(6, f)' \/ (Entry.dir = at[f] /\ Seen = {f})
      BY <1>1, <1>3, <2>2, <2>4, LookLasts
    <3> QED BY <1>7, <2>2, <3>1
  <2> QED BY <1>3, <2>2, <2>3, <2>4 DEF CoverageInv
<1>9. \A t \in Topics : coverage'[t] > 0 =>
        \E f \in Files, d \in Reached(setup'.runbookDir) :
          d \in been'[f] /\ t \in file'[f].says /\ file'[f].size = coverage'[t]
  <2> SUFFICES ASSUME NEW t \in Topics, coverage'[t] > 0
               PROVE  \E f \in Files, d \in Reached(setup.runbookDir) :
                        d \in been[f] /\ t \in file[f].says /\ file[f].size = coverage'[t]
    BY <1>1
  <2>1. CASE coverage'[t] = coverage[t]
    BY <2>1 DEF CoverageInv
  <2>2. CASE t \in file[g].says /\ file[g].size = coverage'[t]
    BY <1>4, <2>2
  <2> QED BY <1>6, <2>1, <2>2
<1>10. ~Checking("done") /\ ~Checking("done")'
  BY <1>1 DEF Looking, Checking
<1>11. \A x \in findings' : x.id \notin RunbookIds
  BY <1>1, <1>10 DEF CoverageInv
<1>12. ~(check' > 6)
  BY <1>1, <1>3
<1> QED BY <1>8, <1>9, <1>10, <1>11, <1>12 DEF CoverageInv

\* With the walk over, what is known of the topics is reported.
LEMMA NextCheckCovers ==
  ASSUME WalkInv, WalkInv', CoverageInv, NextCheck
  PROVE  CoverageInv'
<1>1. /\ todo = <<>> /\ check' = check + 1 /\ ~Checking("done")
      /\ UNCHANGED <<setup, file, at, coverage, been>>
      /\ findings' = IF Checking("runbooks") /\ setup.runbookDir # NotSet
                       THEN findings \cup RunbookFindings(coverage) ELSE findings
  BY DEF NextCheck, treeVars
<1>2. check \in 1..6 /\ (Checking("runbooks") <=> check = 6) /\ (Checking("done")' <=> check = 6)
  <2>1. check \in DOMAIN Checks /\ check' \in DOMAIN Checks
    BY DEF WalkInv, TypeOK
  <2>2. check \in 1..7 /\ check # 7 /\ (Checking("runbooks") <=> check = 6)
    BY <1>1, <2>1, CheckIndex
  <2>3. Checking("done")' <=> check' = 7
    <3>1. Checks[check'] = "done" <=> check' = 7
      <4>1. check' \in 1..7
        BY <2>1 DEF Checks
      <4>2. /\ Checks[1] # "done" /\ Checks[2] # "done" /\ Checks[3] # "done" /\ Checks[4] # "done"
            /\ Checks[5] # "done" /\ Checks[6] # "done" /\ Checks[7] = "done"
        BY DEF Checks
      <4>3. \/ check' = 1 \/ check' = 2 \/ check' = 3 \/ check' = 4 \/ check' = 5 \/ check' = 6
            \/ check' = 7
        BY <4>1
      <4> QED BY <4>2, <4>3
    <3> QED BY <3>1 DEF Checking
  <2> QED BY <1>1, <2>2, <2>3
<1>3. ASSUME NEW f \in Files, Due(6, f)', isRunbook(f, at[f], Paths)'
      PROVE  /\ check' > 6 => Read(f)'
             /\ check' = 6 => Read(f)' \/ Pending(6, f)'
  <2>1. f \in Still
    BY <1>1, <1>3 DEF Due, Still
  <2>2. Due(6, f) /\ isRunbook(f, at[f], Paths)
    BY <1>1, <1>3, <2>1, DueWas
  <2>3. ASSUME check' > 6 PROVE Read(f)'
    <3>1. check = 6
      BY <1>1, <1>2, <2>3
    <3>2. ~Pending(6, f)
      BY <1>1 DEF Pending
    <3>3. Read(f)
      BY <2>2, <3>1, <3>2 DEF CoverageInv
    <3> QED BY <1>1, <3>3 DEF Read
  <2>4. ASSUME check' = 6 PROVE Pending(6, f)'
    BY <2>2, <2>4, WalkBegins
  <2> QED BY <2>3, <2>4
<1>4. \A x \in findings' :
        x.id \in RunbookIds => Checking("runbooks") /\ x \in RunbookFindings(coverage)
  BY <1>1 DEF CoverageInv
<1>5. \A x \in findings' : x.id \in RunbookIds => Checking("done")' /\ x \in RunbookFindings(coverage)'
  BY <1>1, <1>2, <1>4 DEF RunbookFindings
<1>6. Checking("done")' /\ setup.runbookDir # NotSet => RunbookFindings(coverage) \subseteq findings'
  BY <1>1, <1>2
<1>7. RunbookFindings(coverage)' = RunbookFindings(coverage)
  BY <1>1 DEF RunbookFindings
<1>8. \A f \in Files : been[f] \subseteq been'[f]
  BY <1>1
<1> QED BY <1>1, <1>3, <1>5, <1>6, <1>7, <1>8, SourceWas DEF CoverageInv

\* A runbook that stays is not moved, and a text that covers a topic has been where
\* it was.
LEMMA FileMovesCover ==
  ASSUME WalkInv, WalkInv', CoverageInv, FileMoves
  PROVE  CoverageInv'
<1>1. UNCHANGED <<setup, check, todo, scannedFiles, coverage, findings, file>> /\ ~Checking("done")
  BY DEF FileMoves, scanVars, Move
<1>2. \A f \in Files : been[f] \subseteq been'[f]
  BY DEF FileMoves, WalkInv
<1>3. ASSUME NEW f \in Files, Due(6, f)', isRunbook(f, at[f], Paths)'
      PROVE  /\ check > 6 => Read(f)'
             /\ check = 6 => Read(f)' \/ Pending(6, f)'
  <2>1. f \in Still /\ at'[f] = at[f]
    BY <1>3, StillStays DEF Due
  <2>2. Due(6, f) /\ isRunbook(f, at[f], Paths)
    BY <1>1, <1>3, <2>1, DueWas
  <2>3. Read(f) => Read(f)'
    BY <1>1 DEF Read
  <2>4. Pending(6, f) => Pending(6, f)'
    <3>1. Ways(RootOf(Checks[6]), f)' = Ways(RootOf(Checks[6]), f)
      BY <1>1, <2>1 DEF Ways, FileEntry, RootOf, resolveScanRoot
    <3> QED BY <1>1, <3>1 DEF Pending
  <2> QED BY <2>2, <2>3, <2>4 DEF CoverageInv
<1>4. ~Checking("done")'
  BY <1>1 DEF Checking
<1>5. \A x \in findings' : x.id \notin RunbookIds
  BY <1>1 DEF CoverageInv
<1> QED BY <1>1, <1>2, <1>3, <1>4, <1>5, SourceWas DEF CoverageInv

\* Every step keeps what is known of runbooks.
LEMMA StepCovers ==
  ASSUME WalkInv, WalkInv', CoverageInv, [Next]_vars
  PROVE  CoverageInv'
<1>1. CASE CheckFilePermissions
  <2>1. /\ Checking("permissions") /\ todo # <<>> /\ Unchecked /\ UNCHANGED coverage
        /\ findings' = findings \cup checkSingleFile(Head(todo))
    BY <1>1 DEF CheckFilePermissions
  <2>2. \A x \in checkSingleFile(Head(todo)) : x.id \notin RunbookIds
    <3> DEFINE S == [id : PermIds, name : FileNames, dir : Places, maxPerm : SUBSET PermBits,
                     severity : {"Critical", "High"}]
    <3>1. \A t \in S : t.id \in PermIds
      OBVIOUS
    <3>2. todo \in Seq(S)
      BY <2>1 DEF WalkInv, OnTheWay
    <3> HIDE DEF S
    <3>3. Head(todo).id \in PermIds
      BY <2>1, <3>1, <3>2
    <3> QED BY <3>3, PermissionFindings, OtherIds
  <2>3. ~Checking("done") /\ check # 6
    BY <2>1, RunbookWalk DEF Checking
  <2> QED BY <2>1, <2>2, <2>3, OtherCovers
<1>2. CASE EnterDir
  <2>1. Unchecked /\ UNCHANGED <<coverage, findings>> /\ Checks[check] \in Walks
    BY <1>2 DEF EnterDir
  <2>2. ~Checking("done")
    BY <2>1 DEF Checking, Walks
  <2>3. \A f \in Files : check = 6 /\ Due(6, f) /\ Pending(6, f) => Pending(6, f)'
    BY <1>2, EnterLasts
  <2> QED BY <2>1, <2>2, <2>3, OtherCovers
<1>3. CASE SkipVanished
  <2>1. /\ Unchecked /\ UNCHANGED <<coverage, findings>> /\ Seen = {}
        /\ Checks[check] \in Walks /\ todo # <<>> /\ Entry.file # NoFile /\ todo' = Tail(todo)
    BY <1>3 DEF SkipVanished
  <2>2. ~Checking("done")
    BY <2>1 DEF Checking, Walks
  <2>3. \A f \in Files : check = 6 /\ Due(6, f) /\ Pending(6, f) => Pending(6, f)'
    <3> SUFFICES ASSUME NEW f \in Files, check = 6, Due(6, f), Pending(6, f)
                 PROVE  Pending(6, f)'
      OBVIOUS
    <3>1. Pending(6, f)' \/ Seen = {f}
      BY <2>1, LookLasts
    <3> QED BY <2>1, <3>1
  <2> QED BY <2>1, <2>2, <2>3, OtherCovers
<1>4. CASE CheckAdminMacaroonLeaks
  <2>1. /\ Looking("macaroon leaks") /\ Unchecked /\ UNCHANGED coverage
        /\ \E f \in Seen : findings' = findings \cup StrayMacaroon(f, Entry.dir, Paths.DataDir)
    BY <1>4 DEF CheckAdminMacaroonLeaks
  <2>2. \A f, d, dataDir : \A x \in StrayMacaroon(f, d, dataDir) : x.id \notin RunbookIds
    BY MacaroonFindings, OtherIds
  <2>3. \A x \in findings' : x \in findings \/ x.id \notin RunbookIds
    BY <2>1, <2>2
  <2>4. ~Checking("done") /\ check # 6
    BY <2>1, RunbookWalk DEF Looking, Checking
  <2> QED BY <2>1, <2>3, <2>4, OtherCovers
<1>5. CASE CheckMacaroonLeastPrivilege
  <2>1. Looking("least privilege") /\ Unchecked /\ UNCHANGED coverage
    BY <1>5 DEF CheckMacaroonLeastPrivilege
  <2>2. \E f \in Seen : findings' = findings \/ findings' = findings \cup LeastPrivilege(f, Entry.dir)
    BY <1>5 DEF CheckMacaroonLeastPrivilege
  <2>3. \A f, d : \A x \in LeastPrivilege(f, d) : x.id \notin RunbookIds
    BY IntegrationFindings, OtherIds
  <2>4. \A x \in findings' : x \in findings \/ x.id \notin RunbookIds
    BY <2>2, <2>3
  <2>5. ~Checking("done") /\ check # 6
    BY <2>1, RunbookWalk DEF Looking, Checking
  <2> QED BY <2>1, <2>4, <2>5, OtherCovers
<1>6. CASE CheckSecretHygieneLeaks
  <2>1. /\ Looking("secret hygiene") /\ Unchecked /\ UNCHANGED coverage
        /\ \E f \in Seen : findings' = findings \cup SecretHygiene(f, Entry.dir, Paths)
    BY <1>6 DEF CheckSecretHygieneLeaks
  <2>2. \A f, d, paths : \A x \in SecretHygiene(f, d, paths) : x.id \notin RunbookIds
    BY SecretFindings, OtherIds
  <2>3. \A x \in findings' : x \in findings \/ x.id \notin RunbookIds
    BY <2>1, <2>2
  <2>4. ~Checking("done") /\ check # 6
    BY <2>1, RunbookWalk DEF Looking, Checking
  <2> QED BY <2>1, <2>3, <2>4, OtherCovers
<1>7. CASE CheckIncidentReadiness
  BY <1>7, RunbooksCover
<1>8. CASE CheckChannelBackupReadiness
  <2>1. /\ Checking("backup") /\ Unchecked /\ UNCHANGED coverage
        /\ findings' = findings \/ findings' = findings \cup {Backup}
    BY <1>8 DEF CheckChannelBackupReadiness
  <2>2. Backup.id \notin RunbookIds
    BY OtherIds DEF Backup, InFile
  <2>3. ~Checking("done") /\ check # 6
    BY <2>1, RunbookWalk DEF Checking
  <2> QED BY <2>1, <2>2, <2>3, OtherCovers
<1>9. CASE NextCheck
  BY <1>9, NextCheckCovers
<1>10. CASE FileMoves
  BY <1>10, FileMovesCover
<1>11. CASE UNCHANGED vars
  <2>1. UNCHANGED <<file, at, setup, check, todo, scannedFiles, coverage, findings, been, moves>>
    BY <1>11 DEF vars, scanVars, treeVars
  <2>2. ASSUME NEW f \in Files, Due(6, f)', isRunbook(f, at[f], Paths)'
        PROVE  /\ check > 6 => Read(f)'
               /\ check = 6 => Read(f)' \/ Pending(6, f)'
    <3>1. f \in Still
      BY <2>1, <2>2 DEF Due, Still
    <3>2. Due(6, f) /\ isRunbook(f, at[f], Paths)
      BY <2>1, <2>2, <3>1, DueWas
    <3>3. Read(f) => Read(f)'
      BY <2>1 DEF Read
    <3>4. Pending(6, f) => Pending(6, f)'
      BY <2>1 DEF Pending, Ways, FileEntry, RootOf, resolveScanRoot
    <3> QED BY <3>2, <3>3, <3>4 DEF CoverageInv
  <2>3. RunbookFindings(coverage)' = RunbookFindings(coverage) /\ Checking("done")' = Checking("done")
    BY <2>1 DEF RunbookFindings, Checking
  <2>4. \A f \in Files : been[f] \subseteq been'[f]
    BY <2>1
  <2> QED BY <2>1, <2>2, <2>3, <2>4, SourceWas DEF CoverageInv
<1> QED BY <1>1, <1>2, <1>3, <1>4, <1>5, <1>6, <1>7, <1>8, <1>9, <1>10, <1>11 DEF Next, ScanStep

\* The findings on a topic are what is known of it.
LEMMA TopicFindings ==
  ASSUME coverage \in [Topics -> Nat], NEW t \in Topics
  PROVE  /\ \A x \in RunbookFindings(coverage) :
              /\ x.id = TopicId[t] => coverage[t] = 0
              /\ x.id = TooBriefId[t] => coverage[t] \in 1..(minRunbookChars - 1)
         /\ coverage[t] = 0 => \E x \in RunbookFindings(coverage) : x.id = TopicId[t]
         /\ coverage[t] \in 1..(minRunbookChars - 1) =>
              \E x \in RunbookFindings(coverage) : x.id = TooBriefId[t]
<1>1. \A u \in Topics : /\ TopicId[u] # TooBriefId[t] /\ TooBriefId[u] # TopicId[t]
                        /\ TopicId[u] = TopicId[t] => u = t
                        /\ TooBriefId[u] = TooBriefId[t] => u = t
  BY DEF Topics, TopicId, TooBriefId
<1> DEFINE severity(u) == IF u \in {"key rotation", "fund sweep"} THEN "High" ELSE "Medium"
<1>2. \A x \in RunbookFindings(coverage) :
        \/ \E u \in Topics : coverage[u] = 0 /\ x = InFile(TopicId[u], severity(u), NoFile, Nowhere)
        \/ \E u \in Topics : /\ coverage[u] \in 1..(minRunbookChars - 1)
                             /\ x = InFile(TooBriefId[u], "Low", NoFile, Nowhere)
  BY DEF RunbookFindings
<1>3. /\ coverage[t] = 0 =>
           InFile(TopicId[t], severity(t), NoFile, Nowhere) \in RunbookFindings(coverage)
      /\ coverage[t] \in 1..(minRunbookChars - 1) =>
           InFile(TooBriefId[t], "Low", NoFile, Nowhere) \in RunbookFindings(coverage)
  BY DEF RunbookFindings
<1>4. \A id, s : InFile(id, s, NoFile, Nowhere).id = id
  BY DEF InFile
<1> HIDE DEF severity
<1> QED BY <1>1, <1>2, <1>3, <1>4

-----------------------------------------------------------------------------
(* The node's own files *)

Told(f, target) == Warning(f, target) \in findings

\* A node that has had a wallet all along, and never a backup.
Unsaved ==
  LET dir == ChainDir(Paths)
  IN  /\ \E f \in Still : at[f] = dir /\ file[f].name = "wallet.db"
      /\ dir # Nowhere /\ ~StatFails(dir)
      /\ \A f \in Files : file[f].name = "channel.backup" => dir \notin been[f]

\* Of the targets, all are told of that are not still to be looked at; and a
\* missing backup is, once the check of backups has come to the wallet.
OwnInv ==
  /\ \A f \in Files : \A i \in DOMAIN Targets(Paths) :
       Lax(f, Targets(Paths)[i]) =>
         \/ Told(f, Targets(Paths)[i])
         \/ check = 1 /\ Targets(Paths)[i] \in ToSet(todo)
  /\ Unsaved /\ dirExists(Paths.DataDir) =>
       /\ check > 5 => Backup \in findings
       /\ check = 5 => \/ Backup \in findings
                       \/ todo \in {BackupFiles(Paths), Tail(BackupFiles(Paths))}

\* What OwnInv speaks of has held before the step, if it holds after it.
LEMMA OwnWas ==
  ASSUME WalkInv, WalkInv', UNCHANGED <<setup, file>>, findings \subseteq findings',
         \A f \in Files : been[f] \subseteq been'[f] /\ (f \in Still' => f \in Still /\ at'[f] = at[f])
  PROVE  /\ Targets(Paths)' = Targets(Paths) /\ BackupFiles(Paths)' = BackupFiles(Paths)
         /\ dirExists(Paths.DataDir)' = dirExists(Paths.DataDir) /\ Backup' = Backup
         /\ \A f \in Files : \A target : /\ Lax(f, target)' => Lax(f, target)
                                         /\ Told(f, target) => Told(f, target)'
         /\ Unsaved' => Unsaved
<1>1. Paths' = Paths
  BY DEF Paths
<1>2. /\ Targets(Paths)' = Targets(Paths) /\ BackupFiles(Paths)' = BackupFiles(Paths)
      /\ dirExists(Paths.DataDir)' = dirExists(Paths.DataDir) /\ Backup' = Backup
      /\ ChainDir(Paths)' = ChainDir(Paths)
  BY <1>1 DEF Targets, BackupFiles, dirExists, Backup, ChainDir
<1>3. ASSUME NEW f \in Files, NEW target
      PROVE  /\ Lax(f, target)' => Lax(f, target)
             /\ Told(f, target) => Told(f, target)'
  BY DEF Lax, Told, Warning, StatFails
<1>4. Unsaved' => Unsaved
  <2>1. Still' \subseteq Files
    BY DEF Still
  <2> QED BY <1>2, <2>1 DEF Unsaved
<1> QED BY <1>2, <1>3, <1>4

\* What the steps have in common that are not of the two checks of single files.
LEMMA OtherOwns ==
  ASSUME WalkInv, WalkInv', OwnInv, UNCHANGED <<setup, file, check>>, findings \subseteq findings',
         \A f \in Files : been[f] \subseteq been'[f] /\ (f \in Still' => f \in Still /\ at'[f] = at[f]),
         check \in {1, 5} => UNCHANGED todo
  PROVE  OwnInv'
<1>1. \A f \in Files : \A i \in DOMAIN Targets(Paths)' :
        Lax(f, Targets(Paths)[i])' =>
          \/ Told(f, Targets(Paths)[i])'
          \/ check' = 1 /\ Targets(Paths)[i]' \in ToSet(todo)'
  BY OwnWas DEF OwnInv
<1>2. (Unsaved /\ dirExists(Paths.DataDir))' =>
        /\ check' > 5 => Backup' \in findings'
        /\ check' = 5 => \/ Backup' \in findings'
                         \/ todo' \in {BackupFiles(Paths), Tail(BackupFiles(Paths))}'
  BY OwnWas DEF OwnInv
<1> QED BY <1>1, <1>2 DEF OwnInv

\* In a step of a check nothing is moved.
LEMMA NothingMoves ==
  ASSUME Unchecked
  PROVE  /\ UNCHANGED <<setup, file, at, check, been>>
         /\ \A f \in Files : been[f] \subseteq been'[f] /\ (f \in Still' => f \in Still /\ at'[f] = at[f])
BY DEF Unchecked, treeVars, Still

\* A target that is too open, or a link, is told of when it is looked at.
LEMMA PermissionsOwn ==
  ASSUME WalkInv, WalkInv', OwnInv, CheckFilePermissions
  PROVE  OwnInv'
<1>1. /\ Checking("permissions") /\ todo # <<>> /\ Unchecked /\ todo' = Tail(todo)
      /\ findings' = findings \cup checkSingleFile(Head(todo))
  BY DEF CheckFilePermissions
<1>2. check = 1 /\ check' = 1
  BY <1>1, CheckIndex DEF WalkInv, TypeOK, Unchecked
<1>3. ASSUME NEW f \in Files, Lax(f, Head(todo))
      PROVE  Warning(f, Head(todo)) \in findings'
  <2> DEFINE sf == Head(todo)
  <2> HIDE DEF sf
  <2>1. f \in FileAt(sf.dir, sf.name) /\ ~StatFails(sf.dir)
    BY <1>3 DEF Lax, FileAt, sf
  <2>2. Warning(f, sf) \in checkSingleFile(sf)
    BY <1>3, <2>1 DEF checkSingleFile, Warning, Lax, sf
  <2> QED BY <1>1, <2>2 DEF sf
<1>4. \A t \in ToSet(todo) : t = Head(todo) \/ t \in ToSet(Tail(todo))
  <2> DEFINE S == [id : PermIds, name : FileNames, dir : Places, maxPerm : SUBSET PermBits,
                   severity : {"Critical", "High"}]
  <2>1. todo \in Seq(S)
    BY <1>1 DEF WalkInv, OnTheWay
  <2> HIDE DEF S
  <2> SUFFICES ASSUME NEW i \in DOMAIN todo
               PROVE  todo[i] = Head(todo) \/ todo[i] \in ToSet(Tail(todo))
    BY DEF ToSet
  <2>2. CASE i = 1
    BY <2>1, <2>2
  <2>3. CASE i # 1
    <3>1. i - 1 \in DOMAIN Tail(todo) /\ Tail(todo)[i - 1] = todo[i]
      BY <1>1, <2>1, <2>3
    <3> QED BY <3>1 DEF ToSet
  <2> QED BY <2>2, <2>3
<1>5. \A f \in Files : \A i \in DOMAIN Targets(Paths)' :
        Lax(f, Targets(Paths)[i])' =>
          \/ Told(f, Targets(Paths)[i])'
          \/ check' = 1 /\ Targets(Paths)[i]' \in ToSet(todo)'
  <2> SUFFICES ASSUME NEW f \in Files, NEW i \in DOMAIN Targets(Paths)', Lax(f, Targets(Paths)[i])'
               PROVE  \/ Told(f, Targets(Paths)[i])'
                      \/ Targets(Paths)[i]' \in ToSet(todo)'
    BY <1>2
  <2>1. Targets(Paths)' = Targets(Paths)
    BY <1>1, NothingMoves, OwnWas
  <2> DEFINE target == Targets(Paths)[i]
  <2>2. Lax(f, target) /\ (Told(f, target) => Told(f, target)')
    BY <1>1, <2>1, NothingMoves, OwnWas
  <2>3. Told(f, target) \/ target \in ToSet(todo)
    BY <2>1, <2>2 DEF OwnInv
  <2>4. CASE target = Head(todo)
    <3>1. Warning(f, target) \in findings' /\ Warning(f, target)' = Warning(f, target)
      BY <1>1, <1>3, <2>1, <2>2, <2>4, NothingMoves DEF Warning
    <3> QED BY <2>1, <3>1 DEF Told
  <2>5. CASE target \in ToSet(Tail(todo))
    BY <1>1, <2>1, <2>5
  <2> QED BY <1>4, <2>1, <2>2, <2>3, <2>4, <2>5
<1>6. ~(check' > 5) /\ check' # 5
  BY <1>2
<1> QED BY <1>5, <1>6 DEF OwnInv

\* A backup that is missing, with a wallet beside it, is found missing.
LEMMA BackupOwns ==
  ASSUME WalkInv, WalkInv', OwnInv, CheckChannelBackupReadiness
  PROVE  OwnInv'
<1>1. /\ Checking("backup") /\ todo # <<>> /\ Unchecked /\ findings \subseteq findings'
      /\ UNCHANGED <<setup, file, at, check, been>>
  BY NothingMoves DEF CheckChannelBackupReadiness
<1>2. check = 5 /\ check' = 5
  BY <1>1, CheckIndex DEF WalkInv, TypeOK
<1>3. \A f \in Files : \A i \in DOMAIN Targets(Paths)' :
        Lax(f, Targets(Paths)[i])' => Told(f, Targets(Paths)[i])'
  <2> SUFFICES ASSUME NEW f \in Files, NEW i \in DOMAIN Targets(Paths)', Lax(f, Targets(Paths)[i])'
               PROVE  Told(f, Targets(Paths)[i])'
    OBVIOUS
  <2>1. Targets(Paths)' = Targets(Paths)
    BY <1>1, NothingMoves, OwnWas
  <2>2. Lax(f, Targets(Paths)[i]) /\ (Told(f, Targets(Paths)[i]) => Told(f, Targets(Paths)[i])')
    BY <1>1, <2>1, NothingMoves, OwnWas
  <2> QED BY <1>2, <2>1, <2>2 DEF OwnInv
<1>4. ASSUME Unsaved, dirExists(Paths.DataDir)
      PROVE  Backup \in findings' \/ todo' = Tail(BackupFiles(Paths))
  <2> DEFINE dir == ChainDir(Paths)
             all == BackupFiles(Paths)
  <2>1. /\ dir # Nowhere /\ ~StatFails(dir)
        /\ FileAt(dir, "channel.backup") = {} /\ FileAt(dir, "wallet.db") # {}
    <3>1. \A f \in Files : at[f] \in been[f]
      BY DEF WalkInv, TypeOK
    <3> QED BY <1>4, <3>1 DEF Unsaved, FileAt, Still
  <2>2. /\ all[1] = [name |-> "channel.backup", dir |-> dir] /\ Head(all) = all[1]
        /\ all[2] = [name |-> "wallet.db", dir |-> dir] /\ Head(Tail(all)) = all[2]
    BY DEF BackupFiles
  <2>3. Backup \in findings \/ todo = all \/ todo = Tail(all)
    BY <1>2, <1>4 DEF OwnInv
  <2>4. CASE todo = all
    <3>1. Entry.name = "channel.backup" /\ Entry.dir = dir
      BY <2>2, <2>4 DEF Entry
    <3>2. todo' = Tail(todo)
      BY <2>1, <3>1 DEF CheckChannelBackupReadiness
    <3> QED BY <2>4, <3>2
  <2>5. CASE todo = Tail(all)
    <3>1. Entry.name = "wallet.db" /\ Entry.dir = dir
      <4>1. Entry = [name |-> "wallet.db", dir |-> dir]
        <5> HIDE DEF all, dir
        <5> QED BY <2>2, <2>5 DEF Entry
      <4> QED BY <4>1
    <3>2. findings' = findings \cup {Backup}
      BY <2>1, <3>1 DEF CheckChannelBackupReadiness
    <3> QED BY <3>2
  <2> QED BY <1>1, <2>3, <2>4, <2>5
<1>5. /\ (Unsaved' => Unsaved) /\ dirExists(Paths.DataDir)' = dirExists(Paths.DataDir)
      /\ Backup' = Backup /\ BackupFiles(Paths)' = BackupFiles(Paths)
  BY <1>1, NothingMoves, OwnWas
<1> QED BY <1>2, <1>3, <1>4, <1>5 DEF OwnInv

\* A check that is over has told of all it should; that of backups begins with the
\* backup.
LEMMA NextCheckOwns ==
  ASSUME WalkInv, WalkInv', OwnInv, NextCheck
  PROVE  OwnInv'
<1>1. /\ todo = <<>> /\ check' = check + 1 /\ todo' = Agenda(Checks[check + 1])
      /\ UNCHANGED <<setup, file, at, been>> /\ findings \subseteq findings'
  BY DEF NextCheck, treeVars
<1>2. \A f \in Files : been[f] \subseteq been'[f] /\ (f \in Still' => f \in Still /\ at'[f] = at[f])
  BY <1>1 DEF Still
<1>3. check \in 1..7
  BY CheckIndex DEF WalkInv, TypeOK
<1>4. \A f \in Files : \A i \in DOMAIN Targets(Paths)' :
        Lax(f, Targets(Paths)[i])' => Told(f, Targets(Paths)[i])'
  <2> SUFFICES ASSUME NEW f \in Files, NEW i \in DOMAIN Targets(Paths)', Lax(f, Targets(Paths)[i])'
               PROVE  Told(f, Targets(Paths)[i])'
    OBVIOUS
  <2>1. Targets(Paths)' = Targets(Paths)
    BY <1>1, <1>2, OwnWas
  <2>2. Lax(f, Targets(Paths)[i]) /\ (Told(f, Targets(Paths)[i]) => Told(f, Targets(Paths)[i])')
    BY <1>1, <1>2, <2>1, OwnWas
  <2>3. ToSet(todo) = {}
    BY <1>1 DEF ToSet
  <2> QED BY <2>1, <2>2, <2>3 DEF OwnInv
<1>5. ASSUME Unsaved, dirExists(Paths.DataDir)
      PROVE  /\ check' > 5 => Backup \in findings'
             /\ check' = 5 => todo' = BackupFiles(Paths)
  <2>1. ASSUME check' > 5 PROVE Backup \in findings
    <3>1. check = 5 \/ check > 5
      BY <1>1, <1>3, <2>1
    <3>2. todo # BackupFiles(Paths) /\ todo # Tail(BackupFiles(Paths))
      BY <1>1 DEF BackupFiles
    <3> QED BY <1>5, <3>1, <3>2 DEF OwnInv
  <2>2. ASSUME check' = 5 PROVE todo' = BackupFiles(Paths)
    <3>1. Checks[5] = "backup"
      BY DEF Checks
    <3> QED BY <1>1, <1>5, <2>2, <3>1 DEF Agenda, Walks
  <2> QED BY <1>1, <2>1, <2>2
<1>6. /\ (Unsaved' => Unsaved) /\ dirExists(Paths.DataDir)' = dirExists(Paths.DataDir)
      /\ Backup' = Backup /\ BackupFiles(Paths)' = BackupFiles(Paths)
  BY <1>1, <1>2, OwnWas
<1> QED BY <1>4, <1>5, <1>6 DEF OwnInv

\* Every step keeps what is known of the node's own files.
LEMMA StepOwns ==
  ASSUME WalkInv, WalkInv', OwnInv, [Next]_vars
  PROVE  OwnInv'
<1>1. CASE CheckFilePermissions
  BY <1>1, PermissionsOwn
<1>2. CASE EnterDir \/ SkipVanished \/ CheckAdminMacaroonLeaks \/ CheckMacaroonLeastPrivilege
             \/ CheckSecretHygieneLeaks \/ CheckIncidentReadiness
  <2>1. Unchecked /\ Checks[check] \in Walks
    BY <1>2 DEF EnterDir, SkipVanished, CheckAdminMacaroonLeaks, CheckMacaroonLeastPrivilege,
      CheckSecretHygieneLeaks, CheckIncidentReadiness, Looking, Checking, Walks
  <2>2. findings \subseteq findings'
    BY <1>2 DEF EnterDir, SkipVanished, CheckAdminMacaroonLeaks, CheckMacaroonLeastPrivilege,
      CheckSecretHygieneLeaks, CheckIncidentReadiness
  <2>3. check \notin {1, 5}
    <3>1. check \in DOMAIN Checks
      BY DEF WalkInv, TypeOK
    <3>2. check \in {2, 3, 4, 6}
      BY <2>1, <3>1, CheckIndex
    <3> QED BY <3>2
  <2> QED BY <2>1, <2>2, <2>3, NothingMoves, OtherOwns
<1>3. CASE CheckChannelBackupReadiness
  BY <1>3, BackupOwns
<1>4. CASE NextCheck
  BY <1>4, NextCheckOwns
<1>5. CASE FileMoves
  <2>1. UNCHANGED <<setup, check, todo, findings, file>>
    BY <1>5 DEF FileMoves, scanVars, Move
  <2>2. \A f \in Files : been[f] \subseteq been'[f]
    BY <1>5 DEF FileMoves, WalkInv
  <2>3. \A f \in Files : f \in Still' => f \in Still /\ at'[f] = at[f]
    BY <1>5, StillStays
  <2> QED BY <2>1, <2>2, <2>3, OtherOwns
<1>6. CASE UNCHANGED vars
  <2>1. Unchecked /\ UNCHANGED <<todo, findings>>
    BY <1>6 DEF vars, scanVars, treeVars, Unchecked
  <2> QED BY <2>1, NothingMoves, OtherOwns
<1> QED BY <1>1, <1>2, <1>3, <1>4, <1>5, <1>6 DEF Next, ScanStep

\* If datadir is written plainly, the line scan and the parser agree on the
\* directories.
LEMMA PlainPaths ==
  ASSUME setup \in Setups, Plainly
  PROVE  Own = Paths
<1> DEFINE lines == setup.lines
<1>1. lines \in Seq(DataDirLine)
  BY DEF Setups
<1>2. \A i \in DOMAIN lines : lines[i].form = "plain" /\ lines[i].section = "Application Options"
  BY DEF Plainly
<1>3. /\ Keys(lines) = DOMAIN lines
      /\ {i \in DOMAIN lines : lines[i].section = "Application Options"} = DOMAIN lines
  BY <1>2 DEF Keys
<1>4. DOMAIN lines # {} => Value(lines[Min(DOMAIN lines)]) = lines[Min(DOMAIN lines)].dir
  <2> HAVE DOMAIN lines # {}
  <2>1. DOMAIN lines = 1..Len(lines) /\ Len(lines) \in Nat
    BY <1>1
  <2>2. IsFiniteSet(DOMAIN lines) /\ DOMAIN lines \in SUBSET Nat
    BY <2>1, FS_Interval
  <2>3. Min(DOMAIN lines) \in DOMAIN lines
    BY <2>2, MinIsLeast
  <2> QED BY <1>2, <2>3 DEF Value
<1>5. ParsedDataDir(lines) = readKeyFromConfig(lines)
  BY <1>3, <1>4 DEF ParsedDataDir, readKeyFromConfig
<1> QED BY <1>5 DEF Own, OwnPaths, Paths, Detect

-----------------------------------------------------------------------------

\* The types of a scan of the file system are right: what is left to look at is
\* what the checks expect, and the count of integrations is at most one above the
\* limit. (macaroon_least_privilege.go:115-121)
THEOREM TypeCorrect == Spec => []TypeOK
<1>1. Init => WalkInv /\ FoundInv
  BY InitHolds
<1>2. WalkInv /\ FoundInv /\ [Next]_vars => WalkInv' /\ FoundInv'
  BY StepKeeps
<1>3. WalkInv => TypeOK
  BY DEF WalkInv
<1> QED BY <1>1, <1>2, <1>3, PTL DEF Spec

\* In every tree, and whatever is moved between the listing of a directory and
\* the look at a file, a leak that is reported was in a directory the walk looks
\* into, and outside of what belongs to the node.
\* (access.go:72-151, macaroon_least_privilege.go:74-190, secret_hygiene.go:29-119)
THEOREM LeaksSound == Spec => []LeaksAreWhereTheyWereSeen
<1>1. Init => WalkInv /\ FoundInv
  BY InitHolds
<1>2. WalkInv /\ FoundInv /\ [Next]_vars => WalkInv' /\ FoundInv'
  BY StepKeeps
<1>3. FoundInv => LeaksAreWhereTheyWereSeen
  BY DEF FoundInv, Justified, LeaksAreWhereTheyWereSeen
<1> QED BY <1>1, <1>2, <1>3, PTL DEF Spec

\* In every tree, and whatever is moved around it, a leak that stays where it is, in
\* a directory the walk looks into, is reported at the end of the scan; of the
\* integrations, as long as there are no more than the limit.
\* (access.go:72-151, macaroon_least_privilege.go:74-190, secret_hygiene.go:29-119)
THEOREM LeaksComplete == Spec => []LastingLeaksAreReported
<1>1. Init => WalkInv /\ FoundInv /\ LastingInv
  <2> SUFFICES ASSUME Init PROVE WalkInv /\ FoundInv /\ LastingInv
    OBVIOUS
  <2>1. check = 1
    BY DEF Init
  <2>2. \A n \in 2..4 : ~(check > n) /\ check # n
    BY <2>1
  <2> QED BY <2>2, InitHolds DEF LastingInv
<1>2. WalkInv /\ FoundInv /\ LastingInv /\ [Next]_vars => WalkInv' /\ FoundInv' /\ LastingInv'
  BY StepKeeps, StepLasts
<1>3. WalkInv /\ LastingInv => LastingLeaksAreReported
  <2> SUFFICES ASSUME WalkInv, LastingInv, Checking("done"), NEW f \in Still
               PROVE  /\ at[f] \in Reached(setup.home) =>
                           /\ StrayMacaroon(f, at[f], Paths.DataDir) \subseteq findings
                           /\ SecretHygiene(f, at[f], Paths) \subseteq findings
                      /\ /\ at[f] \in Reached(resolveScanRoot) /\ scannedFiles <= integrationScanMaxFiles
                         /\ CountsAsIntegration(f, at[f], Paths)
                         => LeastPrivilege(f, at[f]) \subseteq findings
    BY DEF LastingLeaksAreReported
  <2>1. check = 7
    BY CheckIndex DEF WalkInv, TypeOK
  <2>2. f \in Files
    BY DEF Still
  <2>3. \A n \in 2..4 : Due(n, f) => Found(n, f)
    <3>1. \A n \in 2..4 : check > n
      BY <2>1
    <3> QED BY <2>2, <3>1 DEF LastingInv
  <2>4. /\ RootOf(Checks[2]) = setup.home /\ RootOf(Checks[4]) = setup.home
        /\ RootOf(Checks[3]) = resolveScanRoot
    BY DEF Checks, RootOf
  <2>5. ASSUME at[f] \in Reached(setup.home)
        PROVE  /\ StrayMacaroon(f, at[f], Paths.DataDir) \subseteq findings
               /\ SecretHygiene(f, at[f], Paths) \subseteq findings
    <3>1. Found(2, f) /\ Found(4, f)
      BY <2>3, <2>4, <2>5 DEF Due
    <3> QED BY <3>1 DEF Found, Leak
  <2>6. ASSUME at[f] \in Reached(resolveScanRoot), scannedFiles <= integrationScanMaxFiles,
               CountsAsIntegration(f, at[f], Paths)
        PROVE  LeastPrivilege(f, at[f]) \subseteq findings
    <3>1. Found(3, f)
      BY <2>3, <2>4, <2>6 DEF Due
    <3> QED BY <2>6, <3>1 DEF Found, Leak
  <2> QED BY <2>5, <2>6
<1> QED BY <1>1, <1>2, <1>3, PTL DEF Spec

\* A topic of the runbooks is covered if one text on it was there all along, however
\* short the others are, found too brief only if all of them were, and neither only
\* if a long text has been in reach. (incident_readiness.go:71-153)
THEOREM RunbooksSound == Spec => []RunbooksAreJudgedByTheLongest
<1>1. Init => WalkInv /\ FoundInv /\ CoverageInv
  <2> SUFFICES ASSUME Init PROVE WalkInv /\ FoundInv /\ CoverageInv
    OBVIOUS
  <2>1. /\ check = 1 /\ findings = {} /\ coverage = [t \in Topics |-> 0]
    BY DEF Init
  <2>2. ~(check > 6) /\ check # 6 /\ ~Checking("done")
    BY <2>1 DEF Checking, Checks
  <2>3. \A t \in Topics : ~(coverage[t] > 0)
    BY <2>1
  <2> QED BY <2>1, <2>2, <2>3, InitHolds DEF CoverageInv
<1>2. WalkInv /\ FoundInv /\ CoverageInv /\ [Next]_vars => WalkInv' /\ FoundInv' /\ CoverageInv'
  BY StepKeeps, StepCovers
<1>3. WalkInv /\ CoverageInv => RunbooksAreJudgedByTheLongest
  <2> SUFFICES ASSUME WalkInv, CoverageInv, Checking("done"), setup.runbookDir # NotSet, NEW t \in Topics
               PROVE  LET Ids == {found.id : found \in findings}
                          lasting == {f \in Still : /\ at[f] \in Reached(setup.runbookDir)
                                                    /\ isRunbook(f, at[f], Paths) /\ t \in file[f].says}
                      IN  /\ (\E f \in lasting : file[f].size > 0) => TopicId[t] \notin Ids
                          /\ (\E f \in lasting : file[f].size >= minRunbookChars) => TooBriefId[t] \notin Ids
                          /\ TopicId[t] \notin Ids /\ TooBriefId[t] \notin Ids =>
                               \E f \in Files, d \in Reached(setup.runbookDir) :
                                 d \in been[f] /\ t \in file[f].says /\ file[f].size >= minRunbookChars
    BY DEF RunbooksAreJudgedByTheLongest
  <2> DEFINE Ids == {found.id : found \in findings}
             Lasting(f) == /\ f \in Still /\ at[f] \in Reached(setup.runbookDir)
                           /\ isRunbook(f, at[f], Paths) /\ t \in file[f].says
  <2>1. check > 6 /\ coverage \in [Topics -> Nat] /\ file \in [Files -> FileRecords]
    <3>1. check = 7
      BY CheckIndex DEF WalkInv, TypeOK
    <3> QED BY <3>1 DEF WalkInv, TypeOK, TreeTypeOK
  <2>2. coverage[t] \in Nat /\ minRunbookChars = 200
    BY <2>1 DEF minRunbookChars
  <2>3. ASSUME NEW f, Lasting(f) PROVE file[f].size \in Nat /\ file[f].size <= coverage[t]
    <3>1. f \in Files /\ Due(6, f)
      BY <2>3, RunbookWalk DEF Due, Still
    <3>2. Read(f)
      BY <2>1, <2>3, <3>1 DEF CoverageInv
    <3>3. file[f] \in FileRecords
      BY <2>1, <3>1
    <3> QED BY <2>3, <3>2, <3>3 DEF Read, FileRecords
  <2>4. /\ TopicId[t] \in Ids <=> coverage[t] = 0
        /\ TooBriefId[t] \in Ids <=> coverage[t] \in 1..(minRunbookChars - 1)
    <3>1. TopicId[t] \in RunbookIds /\ TooBriefId[t] \in RunbookIds
      BY DEF RunbookIds
    <3>2. \A x \in findings : x.id \in RunbookIds => x \in RunbookFindings(coverage)
      BY DEF CoverageInv
    <3>3. RunbookFindings(coverage) \subseteq findings
      BY DEF CoverageInv
    <3> QED BY <2>1, <3>1, <3>2, <3>3, TopicFindings
  <2>5. ASSUME TopicId[t] \notin Ids, TooBriefId[t] \notin Ids
        PROVE  \E f \in Files, d \in Reached(setup.runbookDir) :
                 d \in been[f] /\ t \in file[f].says /\ file[f].size >= minRunbookChars
    <3>1. coverage[t] > 0 /\ coverage[t] >= minRunbookChars
      BY <2>2, <2>4, <2>5
    <3>2. PICK f \in Files, d \in Reached(setup.runbookDir) :
            d \in been[f] /\ t \in file[f].says /\ file[f].size = coverage[t]
      BY <3>1 DEF CoverageInv
    <3> QED BY <3>1, <3>2
  <2>6. \A f : Lasting(f) => /\ file[f].size > 0 => TopicId[t] \notin Ids
                             /\ file[f].size >= minRunbookChars => TooBriefId[t] \notin Ids
    <3> SUFFICES ASSUME NEW f, Lasting(f)
                 PROVE  /\ file[f].size > 0 => TopicId[t] \notin Ids
                        /\ file[f].size >= minRunbookChars => TooBriefId[t] \notin Ids
      OBVIOUS
    <3>1. file[f].size \in Nat /\ file[f].size <= coverage[t]
      BY <2>3
    <3> HIDE DEF Ids
    <3> QED BY <2>2, <2>4, <3>1
  <2> QED BY <2>5, <2>6
<1> QED BY <1>1, <1>2, <1>3, PTL DEF Spec

\* In every tree, and whatever is moved, lnd.conf read twice has the scan look for the
\* node's own files in one place, if datadir is written plainly: it takes none of them
\* for a leak, tells of each that is too open, and of a backup that is missing.
\* (lndpath.go:101-166, permissions.go:19-116, backup_readiness.go:14-69)
THEOREM OwnFilesSound == Spec => []OwnFilesAreTakenForOwn
<1>1. Init => WalkInv /\ FoundInv /\ OwnInv
  <2> SUFFICES ASSUME Init PROVE WalkInv /\ FoundInv /\ OwnInv
    OBVIOUS
  <2>1. check = 1 /\ todo = Targets(Paths)
    BY DEF Init
  <2>2. \A i \in DOMAIN Targets(Paths) : Targets(Paths)[i] \in ToSet(todo)
    BY <2>1 DEF ToSet
  <2>3. ~(check > 5) /\ check # 5
    BY <2>1
  <2> QED BY <2>1, <2>2, <2>3, InitHolds DEF OwnInv
<1>2. WalkInv /\ FoundInv /\ OwnInv /\ [Next]_vars => WalkInv' /\ FoundInv' /\ OwnInv'
  BY StepKeeps, StepOwns
<1>3. WalkInv /\ FoundInv /\ OwnInv => OwnFilesAreTakenForOwn
  <2> SUFFICES ASSUME WalkInv, FoundInv, OwnInv, Plainly PROVE OwnFilesAreTakenForOwn
    BY DEF OwnFilesAreTakenForOwn
  <2> DEFINE dir == ChainDir(Own)
  <2>1. setup \in Setups
    BY DEF WalkInv, TypeOK
  <2>2. Own = Paths
    BY <2>1, PlainPaths
  <2>3. \A leak \in findings :
          leak.id \in DOMAIN OfWalk =>
            /\ ~isInsideDir(leak.dir, Own.DataDir)
            /\ leak.id # "A-3" => ~isInsideDir(leak.dir, Own.LndDir)
    BY <2>2 DEF FoundInv, Justified
  <2>4. Checking("done") => check > 5 /\ check # 1
    <3>1. Checking("done") => check = 7
      BY CheckIndex DEF WalkInv, TypeOK
    <3> QED BY <3>1
  <2>5. ASSUME Checking("done"), NEW f \in Files, NEW target \in ToSet(Targets(Own)), Lax(f, target)
        PROVE  Warning(f, target) \in findings
    <3>1. PICK i \in DOMAIN Targets(Paths) : target = Targets(Paths)[i]
      BY <2>2 DEF ToSet
    <3>2. Told(f, target)
      BY <2>4, <2>5, <3>1 DEF OwnInv
    <3> QED BY <3>2 DEF Told
  <2>6. ASSUME Checking("done"), dir # Nowhere, ~StatFails(dir), dirExists(Own.DataDir),
               \E f \in Still : at[f] = dir /\ file[f].name = "wallet.db",
               \A f \in Files : file[f].name = "channel.backup" => dir \notin been[f]
        PROVE  Backup \in findings
    <3>1. Unsaved
      BY <2>2, <2>6 DEF Unsaved
    <3> QED BY <2>2, <2>4, <2>6, <3>1 DEF OwnInv
  <2> QED BY <2>3, <2>5, <2>6 DEF OwnFilesAreTakenForOwn
<1> QED BY <1>1, <1>2, <1>3, PTL DEF Spec
=============================================================================
