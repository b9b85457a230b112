------------------------- MODULE SnapshotViewProofs --------------------------
(***************************************************************************)
(* Proofs about SnapshotView for any names, any manifests with a path of   *)
(* any length, and any requests: a node id stands for the entry at the     *)
(* path it was got for, every back end tells the same of an entry,         *)
(* listings are complete, and walks reach every entry.                     *)
(***************************************************************************)
EXTENDS SnapshotView, SequenceTheorems, WellFoundedInduction, TLAPS

FilePath == Seq(Names) \ {<< >>}

\* The entries of a manifest.
LEMMA Entries ==
    ASSUME files \in Manifests
    PROVE  /\ files \in Seq([path : FilePath, kind : Kinds])
           /\ Len(files) \in Nat /\ DOMAIN files = 1..Len(files)
           /\ \A i \in 1..Len(files) : files[i].path \in FilePath /\ files[i].kind \in Kinds
           /\ \A i, j \in 1..Len(files) : files[i].path = files[j].path => i = j
  <1>1. files \in Seq([path : FilePath, kind : Kinds])
    BY ManifestAssumption DEF FilePath
  <1>2. Len(files) \in Nat /\ DOMAIN files = 1..Len(files)
    BY <1>1, LenProperties
  <1>3. \A i \in 1..Len(files) : files[i] \in [path : FilePath, kind : Kinds]
    BY <1>1, ElementOfSeq
  <1>4. \A i, j \in DOMAIN files : files[i].path = files[j].path => i = j
    BY ManifestAssumption
  <1> QED
    BY <1>1, <1>2, <1>3, <1>4

\* by_path finds the one entry there is at a path.
LEMMA IndexFinds ==
    ASSUME files \in Manifests, NEW path
    PROVE  /\ IndexOf(path) \in 0..Len(files)
           /\ IndexOf(path) # 0 => files[IndexOf(path)].path = path
           /\ \A i \in 1..Len(files) : files[i].path = path => IndexOf(path) = i
  <1> DEFINE S == {i \in DOMAIN files : files[i].path = path} \cup {0}
  <1>1. Len(files) \in Nat /\ DOMAIN files = 1..Len(files)
    BY Entries
  <1>2. ASSUME NEW i \in 1..Len(files), files[i].path = path
        PROVE  IndexOf(path) = i
    <2>1. \A y \in S : y \in {0, i}
      BY <1>1, <1>2, Entries
    <2>2. i \in S /\ \A y \in S : i >= y
      BY <1>1, <1>2, <2>1
    <2>3. \A x \in S : (\A y \in S : x >= y) => x = i
      BY <1>1, <2>1, <2>2
    <2> QED
      BY <2>2, <2>3 DEF IndexOf, Max
  <1>3. CASE \A i \in 1..Len(files) : files[i].path # path
    <2>1. S = {0}
      BY <1>1, <1>3
    <2>2. IndexOf(path) = 0
      BY <2>1 DEF IndexOf, Max
    <2> QED
      BY <1>1, <1>3, <2>2
  <1> QED
    BY <1>1, <1>2, <1>3

\* What the manifest has at a path is what its index says.
LEMMA EntryIsIndexed ==
    ASSUME files \in Manifests, NEW path
    PROVE  /\ EntryAt(path) = Metadata(path)
           /\ Metadata(path) \in Kinds \cup {None}
           /\ path # << >> => (Metadata(path) = None <=> IndexOf(path) = 0)
           /\ path # << >> /\ IndexOf(path) # 0 => Metadata(path) = files[IndexOf(path)].kind
  <1>1. CASE path = << >>
    BY <1>1 DEF EntryAt, Metadata, Kinds
  <1>2. CASE path # << >> /\ IndexOf(path) = 0
    <2>1. ~ \E i \in DOMAIN files : files[i].path = path
      BY <1>2, IndexFinds, Entries
    <2> QED
      BY <1>2, <2>1 DEF EntryAt, Metadata
  <1>3. CASE path # << >> /\ IndexOf(path) # 0
    <2> DEFINE k == IndexOf(path)
    <2>1. k \in 1..Len(files) /\ files[k].path = path
      BY <1>3, IndexFinds, Entries
    <2> HIDE DEF k
    <2>2. \A f \in ToSet(files) : f.path = path => f = files[k]
      BY <2>1, Entries DEF ToSet
    <2>3. files[k] \in ToSet(files)
      BY <2>1, Entries DEF ToSet
    <2>4. (CHOOSE f \in ToSet(files) : f.path = path) = files[k]
      BY <2>1, <2>2, <2>3
    <2>5. EntryAt(path) = files[k].kind
      BY <1>3, <2>1, <2>4, Entries DEF EntryAt
    <2>6. files[k].kind \in Kinds
      BY <2>1, Entries
    <2> QED
      BY <1>3, <2>5, <2>6, AnswersAssumption DEF Metadata, k
  <1> QED
    BY <1>1, <1>2, <1>3

\* A path is its parent's with a name more.
LEMMA SplitPath ==
    ASSUME NEW path \in FilePath
    PROVE  /\ Parent(path) \in Seq(Names) /\ Last(path) \in Names
           /\ path = Append(Parent(path), Last(path))
  <1>1. Len(path) \in Nat \ {0} /\ path \in Seq(Names)
    BY EmptySeq DEF FilePath
  <1>2. \A i \in 1..Len(path) : path[i] \in Names
    BY <1>1, ElementOfSeq
  <1>3. Last(path) \in Names
    BY <1>1, <1>2 DEF Last
  <1> DEFINE up == SubSeq(path, 1, Len(path) - 1)
  <1>4. /\ up \in Seq(Names) /\ Len(up) = Len(path) - 1
        /\ \A i \in 1..(Len(path) - 1) : up[i] = path[i]
    <2>1. \A i \in 1..(Len(path) - 1) : path[i] \in Names
      BY <1>1, <1>2
    <2> DEFINE n == Len(path) - 1
    <2>2. n \in Nat /\ \A i \in 1..n : path[i] \in Names
      BY <1>1, <2>1
    <2> HIDE DEF n
    <2>3. /\ SubSeq(path, 1, n) \in Seq(Names) /\ Len(SubSeq(path, 1, n)) = n
          /\ \A i \in 1..n : SubSeq(path, 1, n)[i] = path[i]
      BY <2>2, SubSeqProperties
    <2> QED
      BY <2>3 DEF n
  <1>5. Parent(path) = up
    BY DEF Parent, Front
  <1> HIDE DEF up
  <1>6. /\ Append(up, Last(path)) \in Seq(Names) /\ Len(Append(up, Last(path))) = Len(path)
        /\ \A i \in 1..Len(path) : Append(up, Last(path))[i] = path[i]
    BY <1>1, <1>3, <1>4, AppendProperties DEF Last
  <1>7. path = Append(up, Last(path))
    BY <1>1, <1>6, SeqEqual
  <1> QED
    BY <1>3, <1>4, <1>5, <1>7

LEMMA JoinedPath ==
    ASSUME NEW dir \in Seq(Names), NEW name \in Names
    PROVE  /\ Append(dir, name) \in FilePath
           /\ Parent(Append(dir, name)) = dir /\ Last(Append(dir, name)) = name
  <1> DEFINE path == Append(dir, name)
  <1>1. /\ path \in Seq(Names) /\ Len(path) = Len(dir) + 1 /\ Len(dir) \in Nat
        /\ path[Len(dir) + 1] = name /\ \A i \in 1..Len(dir) : path[i] = dir[i]
    BY AppendProperties, LenProperties
  <1>2. \A i \in 1..Len(dir) : path[i] \in Names
    BY <1>1, ElementOfSeq
  <1> HIDE DEF path
  <1>3. path \in FilePath
    BY <1>1, EmptySeq DEF FilePath
  <1> DEFINE up == SubSeq(path, 1, Len(dir))
  <1>4. /\ up \in Seq(Names) /\ Len(up) = Len(dir)
        /\ \A i \in 1..Len(dir) : up[i] = path[i]
    BY <1>1, <1>2, SubSeqProperties
  <1> HIDE DEF up
  <1>5. up = dir
    BY <1>1, <1>4, SeqEqual
  <1>6. Parent(path) = up
    BY <1>1 DEF Parent, Front, up
  <1>7. Last(path) = name
    BY <1>1 DEF Last
  <1> QED
    BY <1>3, <1>5, <1>6, <1>7 DEF path

\* What a directory's key holds is what there is at the paths of its names.
LEMMA ListedAre ==
    ASSUME files \in Manifests, NEW dir \in Seq(Names)
    PROVE  /\ \A i \in Children(dir) :
                 /\ i \in 1..Len(files) /\ Last(files[i].path) \in Names
                 /\ files[i].path = Join(dir, Last(files[i].path))
                 /\ IndexOf(Join(dir, Last(files[i].path))) = i
           /\ \A n \in Names : IndexOf(Join(dir, n)) # 0 =>
                 /\ IndexOf(Join(dir, n)) \in Children(dir)
                 /\ Last(files[IndexOf(Join(dir, n))].path) = n
  <1>1. ASSUME NEW i \in Children(dir)
        PROVE  /\ i \in 1..Len(files) /\ Last(files[i].path) \in Names
               /\ files[i].path = Join(dir, Last(files[i].path))
               /\ IndexOf(Join(dir, Last(files[i].path))) = i
    <2>1. i \in 1..Len(files) /\ Parent(files[i].path) = dir
      BY Entries DEF Children
    <2>2. files[i].path \in FilePath
      BY <2>1, Entries
    <2>3. Last(files[i].path) \in Names /\ files[i].path = Join(dir, Last(files[i].path))
      BY <2>1, <2>2, SplitPath DEF Join
    <2> QED
      BY <2>1, <2>3, IndexFinds
  <1>2. ASSUME NEW n \in Names, IndexOf(Join(dir, n)) # 0
        PROVE  /\ IndexOf(Join(dir, n)) \in Children(dir)
               /\ Last(files[IndexOf(Join(dir, n))].path) = n
    <2> DEFINE k == IndexOf(Join(dir, n))
    <2>1. k \in 1..Len(files) /\ files[k].path = Join(dir, n)
      BY <1>2, IndexFinds, Entries
    <2>2. Parent(files[k].path) = dir /\ Last(files[k].path) = n
      BY <2>1, JoinedPath DEF Join
    <2> QED
      BY <2>1, <2>2, Entries DEF Children
  <1> QED
    BY <1>1, <1>2

-----------------------------------------------------------------------------

\* Every node id a client has is of this manifest, and stands for its path.
ViewInv ==
    /\ files \in Manifests
    /\ DOMAIN known \subseteq 0..Len(files)
    /\ IdsAreTheirPaths

LEMMA ViewInit == Init => ViewInv
  <1> SUFFICES ASSUME Init PROVE ViewInv
    OBVIOUS
  <1>1. files \in Manifests /\ known = [x \in {0} |-> << >>]
    BY DEF Init
  <1>2. DOMAIN known = {0} /\ known[0] = << >>
    BY <1>1
  <1> QED
    BY <1>1, <1>2, Entries DEF ViewInv, IdsAreTheirPaths, PathWithinSnapshot

\* A path that a node id stands for, and what there is.
LEMMA NodeIsEntry ==
    ASSUME ViewInv, NEW ino \in DOMAIN known
    PROVE  /\ known[ino] \in Seq(Names) /\ PathWithinSnapshot(ino) = known[ino]
           /\ SnapshotNode(ino) # None /\ Metadata(known[ino]) # None
           /\ SnapshotNode(ino).kind = KindOf(Metadata(known[ino]))
           /\ SnapshotNode(ino).ino = ino
  <1>1. ino \in 0..Len(files) /\ PathWithinSnapshot(ino) = known[ino] /\ files \in Manifests
    BY DEF ViewInv, IdsAreTheirPaths
  <1>2. CASE ino = 0
    <2>1. known[ino] = << >> /\ SnapshotNode(ino) = [ino |-> 0, kind |-> "dir"]
      BY <1>1, <1>2 DEF PathWithinSnapshot, SnapshotNode
    <2>2. [ino |-> 0, kind |-> "dir"] \in [ino : Nat, kind : Kinds]
      BY DEF Kinds
    <2> QED
      BY <1>1, <1>2, <2>1, <2>2, EmptySeq, AnswersAssumption DEF Metadata, KindOf, Kinds
  <1>3. CASE ino # 0
    <2>1. ino \in 1..Len(files) /\ ino \in DOMAIN files
      BY <1>1, <1>3, Entries
    <2>2. /\ known[ino] = files[ino].path
          /\ SnapshotNode(ino) = [ino |-> ino, kind |-> KindOf(files[ino].kind)]
      BY <1>1, <1>3, <2>1 DEF PathWithinSnapshot, SnapshotNode
    <2>3. files[ino].path \in FilePath /\ files[ino].kind \in Kinds
      BY <1>1, <2>1, Entries
    <2>4. IndexOf(known[ino]) = ino
      BY <1>1, <2>1, <2>2, IndexFinds
    <2>5. Metadata(known[ino]) = files[ino].kind
      BY <1>1, <1>3, <2>2, <2>3, <2>4, EntryIsIndexed DEF FilePath
    <2>6. SnapshotNode(ino) \in [ino : Nat, kind : Kinds]
      BY <1>1, <2>2, <2>3 DEF KindOf, Kinds
    <2> QED
      BY <1>1, <2>2, <2>3, <2>5, <2>6, AnswersAssumption DEF FilePath
  <1> QED
    BY <1>2, <1>3

\* The child of a node is the entry at its path with the name, if there is one.
LEMMA ChildIsEntry ==
    ASSUME ViewInv, NEW ino \in DOMAIN known, NEW name \in Names
    PROVE  LET path == Append(known[ino], name)
               node == SnapshotChild(ino, name)
           IN  /\ path # << >>
               /\ Metadata(path) = None => node = None
               /\ Metadata(path) # None =>
                     /\ node # None /\ node.ino = IndexOf(path)
                     /\ node.kind = KindOf(Metadata(path))
                     /\ node.ino \in 1..Len(files) /\ files[node.ino].path = path
  <1> DEFINE path == Append(known[ino], name)
             node == SnapshotChild(ino, name)
             k == IndexOf(path)
  <1>1. known[ino] \in Seq(Names) /\ PathWithinSnapshot(ino) = known[ino] /\ files \in Manifests
    BY NodeIsEntry DEF ViewInv
  <1>2. path # << >>
    BY <1>1, JoinedPath DEF FilePath
  <1>3. node = IF k = 0 THEN None ELSE SnapshotNode(k)
    BY <1>1 DEF SnapshotChild, Join
  <1> HIDE DEF path, node
  <1>4. /\ Metadata(path) = None <=> k = 0
        /\ k # 0 => Metadata(path) = files[k].kind
    BY <1>1, <1>2, EntryIsIndexed
  <1>5. k # 0 => k \in 1..Len(files) /\ k \in DOMAIN files /\ files[k].path = path
    BY <1>1, IndexFinds, Entries
  <1> HIDE DEF k
  <1>6. ASSUME k # 0 PROVE node = [ino |-> k, kind |-> KindOf(files[k].kind)]
    BY <1>3, <1>5, <1>6 DEF SnapshotNode
  <1>7. ASSUME k # 0 PROVE node # None
    <2>1. files[k].kind \in Kinds
      BY <1>1, <1>5, <1>7, Entries
    <2>2. k \in Nat
      BY <1>5, <1>7
    <2>3. node \in [ino : Nat, kind : Kinds]
      BY <1>6, <1>7, <2>1, <2>2 DEF KindOf, Kinds
    <2> QED
      BY <2>3, AnswersAssumption
  <1> QED
    BY <1>2, <1>3, <1>4, <1>5, <1>6, <1>7 DEF path, node, k

\* What NFS lists may be used as it is: the ids are those of the names.
LEMMA ListedIds ==
    ASSUME ViewInv, NEW ino \in DOMAIN known, SnapshotDir(ino) # None,
           NEW e \in SnapshotDir(ino)
    PROVE  /\ e.name \in Names /\ e.ino \in 1..Len(files)
           /\ files[e.ino].path = Append(known[ino], e.name)
  <1> DEFINE dir == known[ino]
  <1>1. dir \in Seq(Names) /\ PathWithinSnapshot(ino) = dir /\ files \in Manifests
    BY NodeIsEntry DEF ViewInv
  <1> HIDE DEF dir
  <1>2. ListDir(dir) # None
    BY <1>1 DEF SnapshotDir
  <1>3. PICK l \in ListDir(dir) :
            e = [name |-> l.name, ino |-> IndexOf(Join(dir, l.name)), kind |-> KindOf(l.kind)]
    BY <1>1, <1>2 DEF SnapshotDir
  <1>4. PICK i \in Children(dir) : l = [name |-> Last(files[i].path), kind |-> files[i].kind]
    BY <1>2, <1>3 DEF ListDir
  <1>5. /\ i \in 1..Len(files) /\ Last(files[i].path) \in Names
        /\ files[i].path = Join(dir, Last(files[i].path))
        /\ IndexOf(Join(dir, Last(files[i].path))) = i
    BY <1>1, <1>4, ListedAre
  <1>6. e.name = Last(files[i].path) /\ e.ino = i
    BY <1>3, <1>4, <1>5
  <1> QED
    BY <1>5, <1>6 DEF Join, dir

LEMMA ViewStep == ViewInv /\ [Next]_vars => ViewInv'
  <1> SUFFICES ASSUME ViewInv, [Next]_vars PROVE ViewInv'
    OBVIOUS
  <1>1. CASE UNCHANGED <<files, known>>
    BY <1>1 DEF ViewInv, IdsAreTheirPaths, PathWithinSnapshot
  <1>2. ASSUME UNCHANGED files, NEW f, Learn(f), DOMAIN f \subseteq 1..Len(files),
               \A i \in DOMAIN f : files[i].path = f[i]
        PROVE  ViewInv'
    <2>1. known' = [i \in DOMAIN f \cup DOMAIN known |-> IF i \in DOMAIN f THEN f[i] ELSE known[i]]
      BY <1>2 DEF Learn
    <2>2. /\ DOMAIN known' = DOMAIN f \cup DOMAIN known
          /\ \A i \in DOMAIN f : known'[i] = f[i]
          /\ \A i \in DOMAIN known \ DOMAIN f : known'[i] = known[i]
      BY <2>1
    <2>3. Len(files) \in Nat /\ DOMAIN files = 1..Len(files) /\ files \in Manifests
      BY Entries DEF ViewInv
    <2>4. ASSUME NEW i \in DOMAIN known' PROVE PathWithinSnapshot(i) = known'[i]
      <3>1. CASE i \in DOMAIN f
        BY <1>2, <2>2, <2>3, <3>1 DEF PathWithinSnapshot
      <3>2. CASE i \in DOMAIN known \ DOMAIN f
        BY <2>2, <3>2 DEF ViewInv, IdsAreTheirPaths
      <3> QED
        BY <2>2, <3>1, <3>2
    <2>5. \A i : PathWithinSnapshot(i)' = PathWithinSnapshot(i')
      BY <1>2 DEF PathWithinSnapshot
    <2> QED
      BY <1>2, <2>2, <2>3, <2>4 DEF ViewInv, IdsAreTheirPaths, PathWithinSnapshot
  <1>3. ASSUME NEW by \in {"fuse", "nfs"}, NEW ino \in DOMAIN known, NEW name \in Names,
               Lookup(by, ino, name)
        PROVE  ViewInv'
    <2> DEFINE node == SnapshotChild(ino, name)
               path == Append(known[ino], name)
               f == [x \in {node.ino} |-> path]
    <2>1. CASE node = None
      BY <1>1, <1>3, <2>1 DEF Lookup
    <2>2. CASE node # None
      <3>1. Learn(f) /\ UNCHANGED files
        BY <1>3, <2>2 DEF Lookup
      <3>2. node.ino \in 1..Len(files) /\ files[node.ino].path = path
        BY <2>2, ChildIsEntry
      <3> HIDE DEF node, path
      <3>3. DOMAIN f = {node.ino} /\ f[node.ino] = path
        OBVIOUS
      <3> HIDE DEF f
      <3> QED
        BY <1>2, <3>1, <3>2, <3>3
    <2> QED
      BY <2>1, <2>2
  <1>4. ASSUME NEW by \in {"fuse", "nfs"}, NEW ino \in DOMAIN known, Readdir(by, ino)
        PROVE  ViewInv'
    <2> DEFINE entries == SnapshotDir(ino)
               E(i) == CHOOSE e \in entries : e.ino = i
               f == [i \in {e.ino : e \in entries} |-> Append(known[ino], E(i).name)]
    <2>1. CASE entries = None \/ by = "fuse"
      BY <1>1, <1>4, <2>1 DEF Readdir
    <2>2. CASE ~ (entries = None \/ by = "fuse")
      <3>1. Learn(f) /\ UNCHANGED files
        BY <1>4, <2>2 DEF Readdir
      <3>2. \A e \in entries : /\ e.ino \in 1..Len(files)
                               /\ files[e.ino].path = Append(known[ino], e.name)
        BY <2>2, ListedIds
      <3> HIDE DEF entries
      <3>3. ASSUME NEW i \in {e.ino : e \in entries}
            PROVE  i \in 1..Len(files) /\ files[i].path = Append(known[ino], E(i).name)
        <4>1. E(i) \in entries /\ E(i).ino = i
          BY <3>3
        <4> QED
          BY <3>2, <4>1
      <3> HIDE DEF E
      <3>4. /\ DOMAIN f = {e.ino : e \in entries}
            /\ \A i \in DOMAIN f : f[i] = Append(known[ino], E(i).name)
        OBVIOUS
      <3> HIDE DEF f
      <3>5. DOMAIN f \subseteq 1..Len(files) /\ \A i \in DOMAIN f : files[i].path = f[i]
        BY <3>3, <3>4
      <3> QED
        BY <1>2, <3>1, <3>5
    <2> QED
      BY <2>1, <2>2
  <1> QED
    BY <1>1, <1>3, <1>4
    DEF Next, Getattr, Read, Readlink, GetPlaceholderInfo, ListDirectory, GetFileData, vars

-----------------------------------------------------------------------------

\* The two properties of an answer.
KindsRight(a) ==
    (a # None /\ a.op \in {"lookup", "getattr"}) =>
        IF EntryAt(a.path) = None THEN a.status = "ENOENT"
        ELSE a.status = "ok" /\ a.res = KindAt(a.by, a.path)

ListingRight(a) ==
    (a # None /\ a.op = "readdir" /\ EntryAt(a.path) = "dir") =>
        LET names == {n \in Names : EntryAt(Append(a.path, n)) # None}
        IN  /\ a.status # "ok" => a.by = "nfs" /\ names = {}
            /\ a.res = {[name |-> n, kind |-> KindAt(a.by, Append(a.path, n))] : n \in names}

\* The manifest stays, and so what it has at a path.
LEMMA SameEntries ==
    ASSUME UNCHANGED files
    PROVE  /\ KindsRight(ans') => KindsAgree'
           /\ ListingRight(ans') => ListingsAreComplete'
  <1>1. \A path : EntryAt(path)' = EntryAt(path)
    BY DEF EntryAt, ToSet
  <1>2. \A by, path : KindAt(by, path)' = KindAt(by, path)
    BY <1>1 DEF KindAt
  <1>3. KindsRight(ans') => KindsAgree'
    BY <1>1, <1>2 DEF KindsRight, KindsAgree
  <1>4. ListingRight(ans') => ListingsAreComplete'
    BY <1>1, <1>2 DEF ListingRight, ListingsAreComplete
  <1> QED
    BY <1>3, <1>4

\* An entry is shown by the node ids' back ends and by ProjFS as it should be.
LEMMA ShownRightly ==
    ASSUME files \in Manifests, NEW path, Metadata(path) # None
    PROVE  /\ EntryAt(path) = Metadata(path)
           /\ \A by \in {"fuse", "nfs"} : Shown(by, KindOf(Metadata(path))) = KindAt(by, path)
           /\ ProjKind(Metadata(path)) = KindAt("projfs", path)
           /\ KindOf(Metadata(path)) = "dir" <=> Metadata(path) = "dir"
  <1>1. EntryAt(path) = Metadata(path) /\ Metadata(path) \in Kinds
    BY EntryIsIndexed
  <1> QED
    BY <1>1 DEF Shown, KindOf, KindAt, ProjKind, Kinds

LEMMA KindsStep ==
    ASSUME ViewInv, KindsAgree, [Next]_vars
    PROVE  KindsAgree'
  <1>1. UNCHANGED files /\ files \in Manifests
    BY DEF Next, Lookup, Getattr, Readdir, Read, Readlink, GetPlaceholderInfo, ListDirectory,
       GetFileData, vars, ViewInv
  <1>2. CASE UNCHANGED ans
    <2>1. KindsRight(ans')
      BY <1>2 DEF KindsAgree, KindsRight
    <2> QED
      BY <1>1, <2>1, SameEntries
  <1>3. CASE ans'.op \notin {"lookup", "getattr"}
    BY <1>1, <1>3, SameEntries DEF KindsRight
  <1>4. ASSUME NEW by \in {"fuse", "nfs"}, NEW op, NEW path, NEW node,
               NodeAnswer(op, by, path, node),
               Metadata(path) = None <=> node = None,
               node # None => node.kind = KindOf(Metadata(path))
        PROVE  KindsAgree'
    <2>1. CASE node = None
      <3>1. EntryAt(path) = None
        BY <1>1, <1>4, <2>1, EntryIsIndexed
      <3>2. KindsRight(ans')
        BY <1>4, <2>1, <3>1 DEF KindsRight, NodeAnswer, Answer
      <3> QED
        BY <1>1, <3>2, SameEntries
    <2>2. CASE node # None
      <3>1. EntryAt(path) # None /\ Shown(by, node.kind) = KindAt(by, path)
        BY <1>1, <1>4, <2>2, ShownRightly
      <3>2. KindsRight(ans')
        BY <1>4, <2>2, <3>1 DEF KindsRight, NodeAnswer, Answer
      <3> QED
        BY <1>1, <3>2, SameEntries
    <2> QED
      BY <2>1, <2>2
  <1>5. ASSUME NEW by \in {"fuse", "nfs"}, NEW ino \in DOMAIN known, NEW name \in Names,
               Lookup(by, ino, name)
        PROVE  KindsAgree'
    <2> DEFINE path == Append(known[ino], name)
               node == SnapshotChild(ino, name)
    <2>1. NodeAnswer("lookup", by, path, node)
      BY <1>5 DEF Lookup
    <2>2. /\ Metadata(path) = None <=> node = None
          /\ node # None => node.kind = KindOf(Metadata(path))
      BY ChildIsEntry
    <2> HIDE DEF path, node
    <2> QED
      BY <1>4, <2>1, <2>2
  <1>6. ASSUME NEW by \in {"fuse", "nfs"}, NEW ino \in DOMAIN known, Getattr(by, ino)
        PROVE  KindsAgree'
    <2> DEFINE path == known[ino]
               node == SnapshotNode(ino)
    <2>1. NodeAnswer("getattr", by, path, node)
      BY <1>6 DEF Getattr
    <2>2. /\ Metadata(path) = None <=> node = None
          /\ node # None => node.kind = KindOf(Metadata(path))
      BY NodeIsEntry
    <2> HIDE DEF path, node
    <2> QED
      BY <1>4, <2>1, <2>2
  <1>7. ASSUME NEW path \in Paths, GetPlaceholderInfo(path) PROVE KindsAgree'
    <2>1. CASE Metadata(path) = None
      <3>1. EntryAt(path) = None
        BY <1>1, <2>1, EntryIsIndexed
      <3>2. KindsRight(ans')
        BY <1>7, <2>1, <3>1 DEF KindsRight, GetPlaceholderInfo, GetMetadata, Answer
      <3> QED
        BY <1>1, <3>2, SameEntries
    <2>2. CASE Metadata(path) # None
      <3>1. EntryAt(path) # None /\ ProjKind(Metadata(path)) = KindAt("projfs", path)
        BY <1>1, <2>2, ShownRightly
      <3>2. GetMetadata(path) = ProjKind(Metadata(path)) /\ GetMetadata(path) # None
        <4>1. ProjKind(Metadata(path)) \in Kinds
          BY DEF ProjKind, Kinds
        <4> QED
          BY <2>2, <4>1, AnswersAssumption DEF GetMetadata
      <3>3. KindsRight(ans')
        BY <1>7, <3>1, <3>2 DEF KindsRight, GetPlaceholderInfo, Answer
      <3> QED
        BY <1>1, <3>3, SameEntries
    <2> QED
      BY <2>1, <2>2
  <1>8. ASSUME NEW by \in {"fuse", "nfs"}, NEW ino \in DOMAIN known, Readdir(by, ino) \/ Read(by, ino)
        PROVE  ans'.op \notin {"lookup", "getattr"}
    BY <1>8 DEF Readdir, Read, Answer
  <1>9. ASSUME NEW ino \in DOMAIN known, Readlink(ino)
        PROVE  ans'.op \notin {"lookup", "getattr"}
    BY <1>9 DEF Readlink, Answer
  <1>10. ASSUME NEW path \in Paths, ListDirectory(path) \/ GetFileData(path)
         PROVE  ans'.op \notin {"lookup", "getattr"}
    BY <1>10 DEF ListDirectory, GetFileData, Answer
  <1> QED
    BY <1>2, <1>3, <1>5, <1>6, <1>7, <1>8, <1>9, <1>10 DEF Next, vars

\* What a back end makes of a kind.
ShownAs(by, kind) == IF by = "projfs" THEN ProjKind(kind) ELSE Shown(by, KindOf(kind))

\* A directory's key, seen through a back end's eyes, is what there is at the
\* paths of its names.
LEMMA ListingIsWhole ==
    ASSUME files \in Manifests, NEW dir \in Seq(Names), NEW by \in {"fuse", "nfs", "projfs"}
    PROVE  {[name |-> Last(files[i].path), kind |-> ShownAs(by, files[i].kind)] : i \in Children(dir)}
              = {[name |-> n, kind |-> KindAt(by, Append(dir, n))] :
                    n \in {m \in Names : EntryAt(Append(dir, m)) # None}}
  <1> DEFINE names == {m \in Names : EntryAt(Append(dir, m)) # None}
  <1>1. ASSUME NEW n \in names
        PROVE  \E i \in Children(dir) :
                  /\ Last(files[i].path) = n
                  /\ ShownAs(by, files[i].kind) = KindAt(by, Append(dir, n))
    <2> DEFINE path == Append(dir, n)
               k == IndexOf(path)
    <2>1. path # << >> /\ Metadata(path) # None
      BY <1>1, EntryIsIndexed, JoinedPath DEF FilePath
    <2>2. k # 0 /\ Metadata(path) = files[k].kind
      BY <2>1, EntryIsIndexed
    <2>3. k \in Children(dir) /\ Last(files[k].path) = n
      BY <1>1, <2>2, ListedAre DEF Join
    <2>4. KindAt(by, Append(dir, n)) = ShownAs(by, files[k].kind)
      BY <1>1, <2>1, <2>2, ShownRightly DEF ShownAs
    <2> QED
      BY <2>3, <2>4
  <1>2. ASSUME NEW i \in Children(dir)
        PROVE  /\ Last(files[i].path) \in names
               /\ ShownAs(by, files[i].kind) = KindAt(by, Append(dir, Last(files[i].path)))
    <2> DEFINE n == Last(files[i].path)
               path == Append(dir, n)
    <2>1. i \in 1..Len(files) /\ n \in Names /\ files[i].path = path /\ IndexOf(path) = i
      BY ListedAre DEF Join
    <2>2. path # << >> /\ IndexOf(path) # 0
      BY <2>1, JoinedPath DEF FilePath
    <2>3. Metadata(path) = files[i].kind /\ EntryAt(path) # None
      BY <2>1, <2>2, EntryIsIndexed
    <2>4. KindAt(by, path) = ShownAs(by, files[i].kind)
      BY <2>2, <2>3, EntryIsIndexed, ShownRightly DEF ShownAs
    <2> QED
      BY <2>1, <2>3, <2>4
  <1> HIDE DEF names
  <1>3. {[name |-> Last(files[i].path), kind |-> ShownAs(by, files[i].kind)] : i \in Children(dir)}
            = {[name |-> n, kind |-> KindAt(by, Append(dir, n))] : n \in names}
    BY <1>1, <1>2
  <1> QED
    BY <1>3 DEF names

LEMMA ListingsStep ==
    ASSUME ViewInv, ListingsAreComplete, [Next]_vars
    PROVE  ListingsAreComplete'
  <1>1. UNCHANGED files /\ files \in Manifests
    BY DEF Next, Lookup, Getattr, Readdir, Read, Readlink, GetPlaceholderInfo, ListDirectory,
       GetFileData, vars, ViewInv
  <1>2. CASE UNCHANGED ans
    <2>1. ListingRight(ans')
      BY <1>2 DEF ListingsAreComplete, ListingRight
    <2> QED
      BY <1>1, <2>1, SameEntries
  <1>3. CASE ans'.op # "readdir"
    BY <1>1, <1>3, SameEntries DEF ListingRight
  <1>4. ASSUME NEW by \in {"fuse", "nfs", "projfs"}, NEW dir \in Seq(Names), NEW status, NEW res,
               Answer("readdir", by, dir, status, res),
               status # "ok" => by = "nfs" /\ Children(dir) = {},
               res = {[name |-> Last(files[i].path), kind |-> ShownAs(by, files[i].kind)] :
                         i \in Children(dir)}
        PROVE  ListingsAreComplete'
    <2> DEFINE names == {n \in Names : EntryAt(Append(dir, n)) # None}
    <2>1. res = {[name |-> n, kind |-> KindAt(by, Append(dir, n))] : n \in names}
      BY <1>1, <1>4, ListingIsWhole
    <2>2. Children(dir) = {} => names = {}
      <3> SUFFICES ASSUME NEW n \in names PROVE Children(dir) # {}
        OBVIOUS
      <3>1. Append(dir, n) # << >> /\ Metadata(Append(dir, n)) # None
        BY <1>1, EntryIsIndexed, JoinedPath DEF FilePath
      <3>2. IndexOf(Join(dir, n)) # 0
        BY <1>1, <3>1, EntryIsIndexed DEF Join
      <3> QED
        BY <1>1, <3>2, ListedAre
    <2>3. ans' = [op |-> "readdir", by |-> by, path |-> dir, status |-> status, res |-> res]
      BY <1>4 DEF Answer
    <2>4. ListingRight(ans')
      BY <1>4, <2>1, <2>2, <2>3 DEF ListingRight
    <2> QED
      BY <1>1, <2>4, SameEntries
  <1>5. ASSUME NEW dir \in Seq(Names), Children(dir) # {}
        PROVE  /\ ListDir(dir) # None
               /\ ListDir(dir) = {[name |-> Last(files[i].path), kind |-> files[i].kind] :
                                     i \in Children(dir)}
    <2>1. ListDir(dir) = {[name |-> Last(files[i].path), kind |-> files[i].kind] :
                                     i \in Children(dir)}
      BY <1>5 DEF ListDir
    <2>2. ASSUME NEW i \in Children(dir)
          PROVE  Last(files[i].path) \in Names /\ files[i].kind \in Kinds
      BY <1>1, <2>2, ListedAre, Entries
    <2>3. ListDir(dir) \in SUBSET [name : Names, kind : Kinds]
      BY <2>1, <2>2
    <2> QED
      BY <2>1, <2>3, AnswersAssumption
  <1>6. ASSUME NEW by \in {"fuse", "nfs"}, NEW ino \in DOMAIN known, Readdir(by, ino)
        PROVE  ListingsAreComplete'
    <2> DEFINE dir == known[ino]
               entries == SnapshotDir(ino)
    <2>1. dir \in Seq(Names) /\ PathWithinSnapshot(ino) = dir
      BY NodeIsEntry
    <2> HIDE DEF dir
    <2>2. CASE Children(dir) = {}
      <3>1. entries = None
        BY <2>1, <2>2 DEF SnapshotDir, ListDir
      <3>2. Answer("readdir", by, dir, IF by = "fuse" THEN "ok" ELSE "ENOENT", {})
        BY <1>6, <3>1 DEF Readdir, dir
      <3> QED
        BY <1>4, <2>1, <2>2, <3>2
    <2>3. CASE Children(dir) # {}
      <3>1. /\ ListDir(dir) # None
            /\ ListDir(dir) = {[name |-> Last(files[i].path), kind |-> files[i].kind] :
                                  i \in Children(dir)}
        BY <1>5, <2>1, <2>3
      <3>2. \A i \in Children(dir) :
               /\ Last(files[i].path) \in Names /\ i \in 1..Len(files)
               /\ IndexOf(Join(dir, Last(files[i].path))) = i /\ files[i].kind \in Kinds
        BY <1>1, <2>1, ListedAre, Entries
      <3>3. entries = {[name |-> l.name, ino |-> IndexOf(Join(dir, l.name)), kind |-> KindOf(l.kind)] :
                          l \in {e \in ListDir(dir) : IndexOf(Join(dir, e.name)) # 0}}
        BY <2>1, <3>1 DEF SnapshotDir
      <3>4. entries = {[name |-> Last(files[i].path), ino |-> i, kind |-> KindOf(files[i].kind)] :
                          i \in Children(dir)}
        <4>1. \A l \in ListDir(dir) : IndexOf(Join(dir, l.name)) # 0
          BY <3>1, <3>2
        <4>2. {e \in ListDir(dir) : IndexOf(Join(dir, e.name)) # 0} = ListDir(dir)
          BY <4>1
        <4>3. \A i \in Children(dir) :
                 LET l == [name |-> Last(files[i].path), kind |-> files[i].kind]
                 IN  [name |-> l.name, ino |-> IndexOf(Join(dir, l.name)), kind |-> KindOf(l.kind)]
                       = [name |-> Last(files[i].path), ino |-> i, kind |-> KindOf(files[i].kind)]
          BY <3>2
        <4> DEFINE N(l) == [name |-> l.name, ino |-> IndexOf(Join(dir, l.name)), kind |-> KindOf(l.kind)]
                   L(i) == [name |-> Last(files[i].path), kind |-> files[i].kind]
        <4>4. entries = {N(l) : l \in ListDir(dir)}
          BY <3>3, <4>2
        <4>5. ListDir(dir) = {L(i) : i \in Children(dir)}
          BY <3>1
        <4>6. \A i \in Children(dir) :
                 N(L(i)) = [name |-> Last(files[i].path), ino |-> i, kind |-> KindOf(files[i].kind)]
          BY <4>3
        <4> HIDE DEF entries, N, L
        <4>7. entries = {N(L(i)) : i \in Children(dir)}
          BY <4>4, <4>5
        <4> QED
          BY <4>6, <4>7
      <3>5. entries # None
        <4>1. DOMAIN files = 1..Len(files)
          BY <1>1, Entries
        <4>2. entries \in SUBSET [name : Names, ino : DOMAIN files, kind : {"dir", "file", "link"}]
          BY <3>2, <3>4, <4>1 DEF KindOf
        <4> QED
          BY <1>1, <4>2, AnswersAssumption
      <3>6. Answer("readdir", by, dir, "ok", {[name |-> e.name, kind |-> Shown(by, e.kind)] : e \in entries})
        BY <1>6, <3>5 DEF Readdir, dir
      <3> HIDE DEF entries
      <3>7. {[name |-> e.name, kind |-> Shown(by, e.kind)] : e \in entries}
              = {[name |-> Last(files[i].path), kind |-> ShownAs(by, files[i].kind)] : i \in Children(dir)}
        <4> DEFINE L(i) == [name |-> Last(files[i].path), ino |-> i, kind |-> KindOf(files[i].kind)]
                   N(e) == [name |-> e.name, kind |-> Shown(by, e.kind)]
        <4>1. entries = {L(i) : i \in Children(dir)}
          BY <3>4
        <4>2. \A i \in Children(dir) :
                 N(L(i)) = [name |-> Last(files[i].path), kind |-> ShownAs(by, files[i].kind)]
          BY DEF ShownAs
        <4> HIDE DEF L, N
        <4>3. {N(e) : e \in entries} = {N(L(i)) : i \in Children(dir)}
          BY <4>1
        <4>4. {N(e) : e \in entries}
                = {[name |-> Last(files[i].path), kind |-> ShownAs(by, files[i].kind)] : i \in Children(dir)}
          BY <4>2, <4>3
        <4> QED
          BY <4>4 DEF N
      <3> QED
        BY <1>4, <2>1, <3>6, <3>7
    <2> QED
      BY <2>2, <2>3
  <1>7. ASSUME NEW path \in Paths, ListDirectory(path) PROVE ListingsAreComplete'
    <2>1. path \in Seq(Names)
      BY AnswersAssumption DEF Paths
    <2>2. CASE Children(path) = {}
      <3>1. Answer("readdir", "projfs", path, "ok", {})
        BY <1>7, <2>2 DEF ListDirectory, ListDir
      <3> QED
        BY <1>4, <2>1, <2>2, <3>1
    <2>3. CASE Children(path) # {}
      <3>1. /\ ListDir(path) # None
            /\ ListDir(path) = {[name |-> Last(files[i].path), kind |-> files[i].kind] :
                                   i \in Children(path)}
        BY <1>5, <2>1, <2>3
      <3>2. Answer("readdir", "projfs", path, "ok",
                   {[name |-> e.name, kind |-> ProjKind(e.kind)] : e \in ListDir(path)})
        BY <1>7, <3>1 DEF ListDirectory
      <3>3. {[name |-> e.name, kind |-> ProjKind(e.kind)] : e \in ListDir(path)}
               = {[name |-> Last(files[i].path), kind |-> ShownAs("projfs", files[i].kind)] :
                     i \in Children(path)}
        <4> DEFINE L(i) == [name |-> Last(files[i].path), kind |-> files[i].kind]
                   N(e) == [name |-> e.name, kind |-> ProjKind(e.kind)]
        <4>1. ListDir(path) = {L(i) : i \in Children(path)}
          BY <3>1
        <4>2. \A i \in Children(path) :
                 N(L(i)) = [name |-> Last(files[i].path), kind |-> ShownAs("projfs", files[i].kind)]
          BY DEF ShownAs
        <4> HIDE DEF L, N
        <4>3. {N(e) : e \in ListDir(path)} = {N(L(i)) : i \in Children(path)}
          BY <4>1
        <4>4. {N(e) : e \in ListDir(path)}
                = {[name |-> Last(files[i].path), kind |-> ShownAs("projfs", files[i].kind)] :
                      i \in Children(path)}
          BY <4>2, <4>3
        <4> QED
          BY <4>4 DEF N
      <3> QED
        BY <1>4, <2>1, <3>2, <3>3
    <2> QED
      BY <2>2, <2>3
  <1>8. ASSUME NEW by \in {"fuse", "nfs"}, NEW ino \in DOMAIN known, NEW name \in Names,
               Lookup(by, ino, name)
        PROVE  ans'.op # "readdir"
    BY <1>8 DEF Lookup, NodeAnswer, Answer
  <1>9. ASSUME NEW by \in {"fuse", "nfs"}, NEW ino \in DOMAIN known, Getattr(by, ino) \/ Read(by, ino)
        PROVE  ans'.op # "readdir"
    BY <1>9 DEF Getattr, Read, NodeAnswer, Answer
  <1>10. ASSUME NEW ino \in DOMAIN known, Readlink(ino) PROVE ans'.op # "readdir"
    BY <1>10 DEF Readlink, Answer
  <1>11. ASSUME NEW path \in Paths, GetPlaceholderInfo(path) \/ GetFileData(path)
         PROVE  ans'.op # "readdir"
    BY <1>11 DEF GetPlaceholderInfo, GetFileData, Answer
  <1> QED
    BY <1>2, <1>3, <1>6, <1>7, <1>8, <1>9, <1>10, <1>11 DEF Next, vars

-----------------------------------------------------------------------------

\* A node id stands for the entry at the path a client got it for, whatever was
\* looked up or listed since, in whichever back end.
THEOREM IdsStandForPaths == Spec => []IdsAreTheirPaths
  <1>1. ViewInv => IdsAreTheirPaths
    BY DEF ViewInv
  <1> QED
    BY <1>1, ViewInit, ViewStep, PTL DEF Spec

\* Lookups and attributes, by node id and by path, tell the kind of the entry
\* at the path, and fail when and only when there is none.
THEOREM BackEndsAgree == Spec => []KindsAgree
  <1>1. Init => KindsAgree
    BY DEF Init, KindsAgree
  <1> QED
    BY <1>1, ViewInit, ViewStep, KindsStep, PTL DEF Spec

\* A listing has every entry of its directory and nothing else, of the kind
\* that a lookup would tell.
THEOREM ListingsHaveAll == Spec => []ListingsAreComplete
  <1>1. Init => ListingsAreComplete
    BY DEF Init, ListingsAreComplete
  <1> QED
    BY <1>1, ViewInit, ViewStep, ListingsStep, PTL DEF Spec

-----------------------------------------------------------------------------
(* Walks. *)

\* Every set of natural numbers that has an element has a least one.
LEMMA Smallest ==
    ASSUME NEW S \in SUBSET Nat, S # {}
    PROVE  \E n \in S : \A m \in S : n <= m
  <1> DEFINE R == OpToRel(<, Nat)
  <1>1. \A x, y \in Nat : x < y => <<x, y>> \in R
    BY DEF OpToRel
  <1>2. IsWellFoundedOn(R, Nat)
    BY NatLessThanWellFounded
  <1> HIDE DEF R
  <1>3. PICK x \in S : \A y \in S : ~ (<<y, x>> \in R)
    BY <1>2, WFMin
  <1>4. \A y \in S : ~ (y < x)
    BY <1>1, <1>3
  <1> QED
    BY <1>4

\* The first n names of a path, and those with the next one.
Upper(path, n) == SubSeq(path, 1, n)

LEMMA UpperIs ==
    ASSUME NEW path \in Seq(Names), NEW n \in 1..Len(path)
    PROVE  /\ Upper(path, n - 1) \in Seq(Names) /\ Len(Upper(path, n - 1)) = n - 1
           /\ path[n] \in Names
           /\ Upper(path, n) = Append(Upper(path, n - 1), path[n])
  <1>1. Len(path) \in Nat /\ n \in Nat /\ n - 1 \in Nat
    BY LenProperties
  <1>2. \A i \in 1..Len(path) : path[i] \in Names
    BY ElementOfSeq
  <1>3. ASSUME NEW m \in Nat, m <= Len(path)
        PROVE  /\ Upper(path, m) \in Seq(Names) /\ Len(Upper(path, m)) = m
               /\ \A i \in 1..m : Upper(path, m)[i] = path[i]
    <2>1. \A i \in 1..m : path[i] \in Names
      BY <1>1, <1>2, <1>3
    <2> QED
      BY <1>3, <2>1, SubSeqProperties DEF Upper
  <1> DEFINE u == Upper(path, n - 1)
             v == Upper(path, n)
  <1>4. u \in Seq(Names) /\ Len(u) = n - 1 /\ \A i \in 1..(n - 1) : u[i] = path[i]
    BY <1>1, <1>3
  <1>5. v \in Seq(Names) /\ Len(v) = n /\ \A i \in 1..n : v[i] = path[i]
    BY <1>1, <1>3
  <1> HIDE DEF u, v
  <1>6. path[n] \in Names
    BY <1>2
  <1>7. /\ Append(u, path[n]) \in Seq(Names) /\ Len(Append(u, path[n])) = n
        /\ \A i \in 1..n : Append(u, path[n])[i] = path[i]
    BY <1>1, <1>4, <1>6, AppendProperties
  <1>8. v = Append(u, path[n])
    BY <1>5, <1>7, SeqEqual
  <1> QED
    BY <1>4, <1>6, <1>8 DEF u, v

LEMMA UpperIsAll ==
    ASSUME NEW path \in Seq(Names)
    PROVE  Upper(path, Len(path)) = path
  <1>1. Len(path) \in Nat /\ \A k \in 1..Len(path) : path[k] \in Names
    BY ElementOfSeq, LenProperties
  <1>2. /\ Upper(path, Len(path)) \in Seq(Names) /\ Len(Upper(path, Len(path))) = Len(path)
        /\ \A k \in 1..Len(path) : Upper(path, Len(path))[k] = path[k]
    BY <1>1, SubSeqProperties DEF Upper
  <1> QED
    BY <1>2, SeqEqual

\* In a manifest with all its directories there is an entry on every level
\* above an entry: the lowest level without one would be below one with.
LEMMA LevelsAreThere ==
    ASSUME files \in Manifests, WithDirs, NEW i \in 1..Len(files),
           NEW n \in 1..Len(files[i].path)
    PROVE  \E j \in 1..Len(files) :
               /\ files[j].path = Upper(files[i].path, n)
               /\ n < Len(files[i].path) => files[j].kind = "dir"
  <1> DEFINE path == files[i].path
             There(k) == \E j \in 1..Len(files) :
                             /\ files[j].path = Upper(path, k)
                             /\ k < Len(path) => files[j].kind = "dir"
             Bad == {m \in 0..(Len(path) - 1) : ~ There(Len(path) - m)}
  <1>1. path \in Seq(Names) /\ Len(path) \in Nat /\ DOMAIN files = 1..Len(files)
    BY Entries, LenProperties DEF FilePath
  <1>2. There(Len(path))
    <2>1. Upper(path, Len(path)) = path
      BY <1>1, UpperIsAll
    <2>2. ~ (Len(path) < Len(path))
      BY <1>1
    <2> QED
      BY <2>1, <2>2
  <1>3. ASSUME NEW k \in 2..Len(path), There(k) PROVE There(k - 1)
    <2>1. PICK j \in 1..Len(files) : files[j].path = Upper(path, k)
      BY <1>3
    <2> HIDE DEF path
    <2>2. k \in 1..Len(path)
      BY <1>1
    <2> DEFINE u == Upper(path, k - 1)
    <2>3. u \in Seq(Names) /\ Len(u) = k - 1 /\ path[k] \in Names
          /\ files[j].path = Append(u, path[k])
      BY <1>1, <2>1, <2>2, UpperIs
    <2> HIDE DEF u
    <2>4. Parent(files[j].path) = u
      BY <2>3, JoinedPath
    <2>5. u # << >>
      BY <2>2, <2>3
    <2>6. PICK l \in DOMAIN files : files[l] = [path |-> u, kind |-> "dir"]
      BY <1>1, <2>4, <2>5 DEF WithDirs
    <2> QED
      BY <1>1, <2>6 DEF u
  <1>4. Bad = {}
    <2> SUFFICES ASSUME Bad # {} PROVE FALSE
      OBVIOUS
    <2>1. Bad \in SUBSET Nat
      BY <1>1
    <2>2. PICK m \in Bad : \A l \in Bad : m <= l
      <3> HIDE DEF Bad
      <3> QED
        BY <2>1, Smallest
    <2> HIDE DEF There
    <2>3. m \in 0..(Len(path) - 1) /\ ~ There(Len(path) - m)
      BY <2>2
    <2>4. m # 0
      BY <1>1, <1>2, <2>3
    <2>5. m - 1 \in 0..(Len(path) - 1)
      BY <1>1, <2>3, <2>4
    <2>6. There(Len(path) - (m - 1))
      <3>1. m - 1 \notin Bad
        <4>1. ~ (m <= m - 1)
          BY <2>3
        <4> HIDE DEF Bad
        <4> QED
          BY <2>2, <4>1
      <3> QED
        BY <2>5, <3>1
    <2>7. Len(path) - (m - 1) \in 2..Len(path) /\ Len(path) - (m - 1) - 1 = Len(path) - m
      BY <1>1, <2>3, <2>4
    <2> QED
      BY <1>3, <2>3, <2>6, <2>7
  <1> HIDE DEF There
  <1>5. Len(path) - n \in 0..(Len(path) - 1) /\ Len(path) - (Len(path) - n) = n
    BY <1>1
  <1>6. There(n)
    BY <1>4, <1>5
  <1> QED
    BY <1>6 DEF There

\* The walk goes by the ids of the levels above the entry.
LEMMA WalksArrive ==
    ASSUME files \in Manifests PROVE EverythingIsReachable
  <1> SUFFICES ASSUME WithDirs, NEW i \in DOMAIN files
               PROVE  \E walk \in [0..Len(files[i].path) -> 0..Len(files)] :
                         /\ walk[0] = 0 /\ walk[Len(files[i].path)] = i
                         /\ \A n \in 1..Len(files[i].path) :
                               /\ IsDir(walk[n - 1])
                               /\ SnapshotChild(walk[n - 1], files[i].path[n])
                                     = SnapshotNode(walk[n])
    BY DEF EverythingIsReachable
  <1> DEFINE path == files[i].path
             top == Len(path)
             walk == [n \in 0..top |-> IF n = 0 THEN 0 ELSE IndexOf(Upper(path, n))]
  <1>1. /\ path \in Seq(Names) /\ path # << >> /\ top \in Nat /\ top > 0
        /\ DOMAIN files = 1..Len(files) /\ Len(files) \in Nat
    <2>1. path \in FilePath /\ DOMAIN files = 1..Len(files) /\ Len(files) \in Nat
      BY Entries
    <2> HIDE DEF path
    <2>2. path \in Seq(Names) /\ path # << >>
      BY <2>1 DEF FilePath
    <2> QED
      BY <2>1, <2>2, EmptySeq, LenProperties
  <1>2. ASSUME NEW n \in 1..top
        PROVE  /\ IndexOf(Upper(path, n)) \in 1..Len(files)
               /\ files[IndexOf(Upper(path, n))].path = Upper(path, n)
               /\ n < top => files[IndexOf(Upper(path, n))].kind = "dir"
    <2>1. PICK j \in 1..Len(files) :
              files[j].path = Upper(path, n) /\ (n < top => files[j].kind = "dir")
      BY <1>1, LevelsAreThere
    <2>2. IndexOf(Upper(path, n)) = j
      BY <2>1, IndexFinds
    <2> QED
      BY <2>1, <2>2
  <1>3. walk[0] = 0 /\ \A n \in 1..top : walk[n] = IndexOf(Upper(path, n))
    BY <1>1
  <1>4. walk \in [0..top -> 0..Len(files)]
    <2>1. \A n \in 0..top : n = 0 \/ n \in 1..top
      BY <1>1
    <2> HIDE DEF path, top
    <2>2. \A n \in 0..top : (IF n = 0 THEN 0 ELSE IndexOf(Upper(path, n))) \in 0..Len(files)
      BY <1>1, <1>2, <2>1
    <2> QED
      BY <2>2
  <1> HIDE DEF walk
  <1>5. walk[top] = i
    <2>1. top \in 1..top
      BY <1>1
    <2>2. Upper(path, top) = path
      BY <1>1, UpperIsAll
    <2>3. IndexOf(path) = i
      BY <1>1, IndexFinds
    <2> QED
      BY <1>3, <2>1, <2>2, <2>3
  <1>6. ASSUME NEW n \in 1..top
        PROVE  /\ IsDir(walk[n - 1])
               /\ SnapshotChild(walk[n - 1], path[n]) = SnapshotNode(walk[n])
    <2>1. PathWithinSnapshot(walk[n - 1]) = Upper(path, n - 1) /\ IsDir(walk[n - 1])
      <3>1. CASE n = 1
        <4>1. Upper(path, 0) = << >>
          <5>1. 1 \in 1..top
            BY <1>1
          <5>2. Upper(path, 1 - 1) \in Seq(Names) /\ Len(Upper(path, 1 - 1)) = 1 - 1
            BY <1>1, <5>1, UpperIs
          <5> QED
            BY <5>2, EmptySeq
        <4>2. walk[n - 1] = 0 /\ n - 1 = 0
          BY <1>3, <3>1
        <4> QED
          BY <4>1, <4>2 DEF PathWithinSnapshot, IsDir, SnapshotNode
      <3>2. CASE n # 1
        <4>1. n - 1 \in 1..top /\ n - 1 < top
          BY <1>1, <3>2
        <4> DEFINE k == walk[n - 1]
        <4>2. k \in 1..Len(files) /\ files[k].path = Upper(path, n - 1) /\ files[k].kind = "dir"
          BY <1>2, <1>3, <4>1
        <4> HIDE DEF k
        <4>3. k # 0 /\ k \in DOMAIN files
          BY <1>1, <4>2
        <4>4. PathWithinSnapshot(k) = Upper(path, n - 1)
          BY <4>2, <4>3 DEF PathWithinSnapshot
        <4>5. IsDir(k)
          BY <4>2, <4>3 DEF IsDir, SnapshotNode, KindOf
        <4> QED
          BY <4>4, <4>5 DEF k
      <3> QED
        BY <3>1, <3>2
    <2>2. Join(Upper(path, n - 1), path[n]) = Upper(path, n)
      BY <1>1, UpperIs DEF Join
    <2>3. walk[n] = IndexOf(Upper(path, n)) /\ walk[n] # 0
      BY <1>1, <1>2, <1>3
    <2> HIDE DEF path
    <2> QED
      BY <2>1, <2>2, <2>3 DEF SnapshotChild
  <1> QED
    BY <1>3, <1>4, <1>5, <1>6


\* Who walks from the root name by name reaches every entry of a manifest that
\* has its directories, and passes through directories only.
THEOREM EveryEntryIsReached == Spec => []EverythingIsReachable
  <1>1. ViewInv => EverythingIsReachable
    BY WalksArrive DEF ViewInv
  <1> QED
    BY <1>1, ViewInit, ViewStep, PTL DEF Spec
=============================================================================
