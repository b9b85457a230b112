---------------------------- MODULE SnapshotView ----------------------------
(***************************************************************************)
(* The inside of a mounted snapshot: the index a DepotManifestStore builds *)
(* over its manifest (fs.rs), the nodes view.rs makes of it, and what      *)
(* FUSE and NFS clients, which go by node ids, and ProjFS, which goes by   *)
(* paths, are answered.  The snapshot is loaded; MountTree has how that    *)
(* comes about.                                                            *)
(*                                                                         *)
(* A path is the sequence of its names, so that the root is the empty one  *)
(* and a leading slash makes no difference.                                *)
(***************************************************************************)
EXTENDS Integers, Sequences, FiniteSets, SequencesExt, FiniteSetsExt

CONSTANTS Names,      \* names of files and directories
          Manifests,  \* sequences of entries
          MaxDepth,   \* bound: names in a path that ProjFS asks for
          None

Kinds == {"dir", "file", "link", "badlink"}
Paths == UNION {[1..n -> Names] : n \in 0..MaxDepth}

ASSUME ManifestAssumption ==
    \A f \in Manifests :
        /\ f \in Seq([path : Seq(Names) \ {<< >>}, kind : Kinds])
        /\ \A i, j \in DOMAIN f : f[i].path = f[j].path => i = j

\* "Nothing" is told from nodes, kinds and listings.
ASSUME AnswersAssumption ==
    /\ MaxDepth \in Nat
    /\ None \notin Kinds
    /\ None \notin [ino : Nat, kind : Kinds]
    /\ \A S \in SUBSET [name : Names, kind : Kinds] : S # None
    /\ \A f \in Manifests :
          \A S \in SUBSET [name : Names, ino : DOMAIN f, kind : {"dir", "file", "link"}] : S # None

VARIABLES files,  \* the manifest's entries
          known,  \* node ids clients have, with the path each got it for
          ans     \* the last answer

vars == <<files, known, ans>>

Init ==
    /\ files \in Manifests
    /\ known = [ino \in {0} |-> << >>]
    /\ ans = None

-----------------------------------------------------------------------------
\* fs.rs: the index.

Parent(path) == Front(path)

\* Mutant: an entry is indexed as it comes, counted from its place.
IndexOfPlace(path) ==
    Max({i - 1 : i \in {j \in DOMAIN files : files[j].path = path}} \cup {0})

\* by_path: one more than the index of an entry; 0 when there is none.
IndexOf(path) == Max({i \in DOMAIN files : files[i].path = path} \cup {0})

\* Mutant: everything below a directory is its child.
ChildrenBelow(path) ==
    {i \in DOMAIN files : files[i].path # path /\ IsPrefix(path, files[i].path)}

\* children: no key for a directory with nothing in it.
Children(path) == {i \in DOMAIN files : Parent(files[i].path) = path}

Metadata(path) ==
    IF path = << >> THEN "dir"
    ELSE IF IndexOf(path) = 0 THEN None ELSE files[IndexOf(path)].kind

ListDir(path) ==
    IF Children(path) = {} THEN None
    ELSE {[name |-> Last(files[i].path), kind |-> files[i].kind] : i \in Children(path)}

Present(path) == IndexOf(path) # 0 \/ Children(path) # {}

\* not_found_error names it.
FirstMissingComponent(path) ==
    LET missing == {n \in 1..Len(path) : ~ Present(SubSeq(path, 1, n))}
    IN  IF missing = {} THEN None ELSE SubSeq(path, 1, Min(missing))

-----------------------------------------------------------------------------
\* view.rs: node `idx` is the root, or entry idx.

PathWithinSnapshot(idx) ==
    IF idx = 0 THEN << >> ELSE IF idx \in DOMAIN files THEN files[idx].path ELSE None

\* Mutant: a link is a link, with a target or without.
KindOfLinks(kind) == IF kind = "badlink" THEN "link" ELSE kind

\* A link without a target is a file.
KindOf(kind) == IF kind \in {"dir", "link"} THEN kind ELSE "file"

SnapshotNode(idx) ==
    IF idx = 0 THEN [ino |-> 0, kind |-> "dir"]
    ELSE IF idx \in DOMAIN files THEN [ino |-> idx, kind |-> KindOf(files[idx].kind)]
    ELSE None

\* Mutant: names are looked up from the root.
JoinNothing(dir, name) == <<name>>

Join(dir, name) == Append(dir, name)

SnapshotChild(idx, name) ==
    LET child == IndexOf(Join(PathWithinSnapshot(idx), name))
    IN  IF child = 0 THEN None ELSE SnapshotNode(child)

SnapshotDir(idx) ==
    LET dir == PathWithinSnapshot(idx)
        listed == ListDir(dir)
    IN  IF listed = None THEN None
        ELSE {[name |-> e.name, ino |-> IndexOf(Join(dir, e.name)), kind |-> KindOf(e.kind)] :
                e \in {l \in listed : IndexOf(Join(dir, l.name)) # 0}}

-----------------------------------------------------------------------------

Answer(op, by, path, status, res) ==
    ans' = [op |-> op, by |-> by, path |-> path, status |-> status, res |-> res]

\* FUSE has no readlink: it shows a link as a file.
Shown(by, kind) == IF by = "fuse" /\ kind = "link" THEN "file" ELSE kind

NodeAnswer(op, by, path, node) ==
    IF node = None THEN Answer(op, by, path, "ENOENT", None)
    ELSE Answer(op, by, path, "ok", Shown(by, node.kind))

\* Clients have the node ids of f, besides those they had.
Learn(f) ==
    known' = [ino \in DOMAIN known \cup DOMAIN f |->
                 IF ino \in DOMAIN f THEN f[ino] ELSE known[ino]]

\* Kernels look names up in, and list, what they take for a directory.
IsDir(ino) == SnapshotNode(ino).kind = "dir"

Lookup(by, parent, name) ==
    LET node == SnapshotChild(parent, name)
        path == Append(known[parent], name)
    IN  /\ IsDir(parent)
        /\ NodeAnswer("lookup", by, path, node)
        /\ IF node = None THEN UNCHANGED known ELSE Learn([ino \in {node.ino} |-> path])
        /\ UNCHANGED files

\* The root is a directory whether the snapshot has been loaded or not.
Getattr(by, ino) ==
    /\ NodeAnswer("getattr", by, known[ino], SnapshotNode(ino))
    /\ UNCHANGED <<files, known>>

\* FUSE lists a directory that has no key as empty, NFS fails.
Readdir(by, ino) ==
    LET entries == SnapshotDir(ino)
    IN  /\ IsDir(ino)
        /\ IF entries # None
           THEN Answer("readdir", by, known[ino], "ok",
                       {[name |-> e.name, kind |-> Shown(by, e.kind)] : e \in entries})
           ELSE Answer("readdir", by, known[ino], IF by = "fuse" THEN "ok" ELSE "ENOENT", {})
        /\ UNCHANGED files
        \* NFS clients may use the ids of a listing as they are.
        /\ IF entries = None \/ by = "fuse" THEN UNCHANGED known
           ELSE Learn([i \in {e.ino : e \in entries} |->
                         Append(known[ino], (CHOOSE e \in entries : e.ino = i).name)])

\* A link's target, for NFS.
Readlink(ino) ==
    /\ Answer("readlink", "nfs", known[ino],
              IF SnapshotNode(ino).kind = "link" THEN "ok" ELSE "INVAL", None)
    /\ UNCHANGED <<files, known>>

\* The kernel reads what it takes for a file.  read_into serves regular files
\* only: a link is an error, but to NFS, which gives nothing and the end of
\* the file for an offset beyond the entry's size before it looks at the kind.
Read(by, ino) ==
    /\ \E beyond \in BOOLEAN :
          Answer("read", by, known[ino],
                 IF ino = 0 THEN "EISDIR" ELSE IF ino \notin DOMAIN files THEN "ENOENT"
                 ELSE IF Metadata(files[ino].path) = "file" \/ (by = "nfs" /\ beyond)
                      THEN "ok" ELSE "EIO", None)
    /\ UNCHANGED <<files, known>>

\* ProjFS: links are files, without contents.
ProjKind(kind) == IF kind = "dir" THEN "dir" ELSE "file"

GetMetadata(path) == IF Metadata(path) = None THEN None ELSE ProjKind(Metadata(path))

GetPlaceholderInfo(path) ==
    /\ IF GetMetadata(path) = None THEN Answer("getattr", "projfs", path, "ENOENT", None)
       ELSE Answer("getattr", "projfs", path, "ok", GetMetadata(path))
    /\ UNCHANGED <<files, known>>

ListDirectory(path) ==
    /\ Answer("readdir", "projfs", path, "ok",
              IF ListDir(path) = None THEN {}
              ELSE {[name |-> e.name, kind |-> ProjKind(e.kind)] : e \in ListDir(path)})
    /\ UNCHANGED <<files, known>>

GetFileData(path) ==
    /\ IF Metadata(path) = None
       THEN Answer("read", "projfs", path, "NotFound", FirstMissingComponent(path))
       ELSE Answer("read", "projfs", path, "ok", None)
    /\ UNCHANGED <<files, known>>

Next ==
    \/ \E by \in {"fuse", "nfs"}, ino \in DOMAIN known :
          \/ \E name \in Names : Lookup(by, ino, name)
          \/ Getattr(by, ino) \/ Readdir(by, ino) \/ Read(by, ino)
    \/ \E ino \in DOMAIN known : Readlink(ino)
    \/ \E path \in Paths : GetPlaceholderInfo(path) \/ ListDirectory(path) \/ GetFileData(path)

Spec == Init /\ [][Next]_vars

-----------------------------------------------------------------------------

TypeOK ==
    /\ files \in Manifests
    /\ DOMAIN known \subseteq 0..Len(files) /\ \A ino \in DOMAIN known : known[ino] \in Seq(Names)
    /\ ans # None => ans.by \in {"fuse", "nfs", "projfs"} /\ ans.path \in Seq(Names)

\* What Steam's manifests are: every directory has an entry.
WithDirs ==
    \A i \in DOMAIN files :
        LET up == Parent(files[i].path)
        IN  up # << >> => \E j \in DOMAIN files : files[j] = [path |-> up, kind |-> "dir"]

EntryAt(path) == IF path = << >> THEN "dir"
                 ELSE IF \E i \in DOMAIN files : files[i].path = path
                 THEN (CHOOSE f \in ToSet(files) : f.path = path).kind ELSE None

\* A node id a client has stands for the entry at the path it walked, however
\* long ago and in whichever back end it was handed out.
IdsAreTheirPaths ==
    \A ino \in DOMAIN known : PathWithinSnapshot(ino) = known[ino]

\* What a back end shows an entry as: a link is a link to NFS only.
KindAt(by, path) ==
    CASE EntryAt(path) = "dir" -> "dir"
      [] EntryAt(path) = "link" /\ by = "nfs" -> "link"
      [] OTHER -> "file"

\* Looking up and asking for attributes tell one story, by node id and by
\* path, in every back end: that of the entry at the path, if there is one.
KindsAgree ==
    (ans # None /\ ans.op \in {"lookup", "getattr"}) =>
        IF EntryAt(ans.path) = None THEN ans.status = "ENOENT"
        ELSE ans.status = "ok" /\ ans.res = KindAt(ans.by, ans.path)

\* A listing of a directory has every entry in it, of the kind a lookup of the
\* name says, and nothing else.  Only NFS fails, and on an empty one.
ListingsAreComplete ==
    (ans # None /\ ans.op = "readdir" /\ EntryAt(ans.path) = "dir") =>
        LET names == {n \in Names : EntryAt(Append(ans.path, n)) # None}
        IN  /\ ans.status # "ok" => ans.by = "nfs" /\ names = {}
            /\ ans.res = {[name |-> n, kind |-> KindAt(ans.by, Append(ans.path, n))] : n \in names}

\* Who walks a manifest with all its directories from the root name by name,
\* or lists what it finds, reaches every entry, by way of directories only.
EverythingIsReachable ==
    WithDirs => \A i \in DOMAIN files :
        LET path == files[i].path
        IN  \E walk \in [0..Len(path) -> 0..Len(files)] :
               /\ walk[0] = 0 /\ walk[Len(path)] = i
               /\ \A n \in 1..Len(path) :
                     /\ IsDir(walk[n - 1])
                     /\ SnapshotChild(walk[n - 1], path[n]) = SnapshotNode(walk[n])

=============================================================================
