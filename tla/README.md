# Verification of steam-depot-vfs

TLA+ models of the caches, the store facade, the file reads, the mount tree and
its back ends, the NFS mount's life, the logins and the prefetch command of this
repository, TLC configurations that check them on small instances, and TLAPS
proofs of the properties that matter most for every value of the constants.
Source paths below are relative to `src/crates/`; `PROJECT.json` maps every
definition to its lines.

## 1. The system

The workspace serves the contents of Steam depots as a file system, without
downloading more of them than is read.

| Part | Source | State | Operations |
|---|---|---|---|
| `ChunkStore` trait | `steam-depot-vfs/src/chunk_store/mod.rs` | none | `get`, `ensure` |
| Chunk cache | `chunk_store/cache.rs` | chunk files; per process a decoded LRU and a map of load locks | `get`, `ensure`, deletion of what is corrupt, `write_atomic` |
| CDN store | `chunk_store/cdn.rs` | none (an index of the manifest's chunks) | `get`: key, session, request |
| Manifest cache | `manifest_cache.rs` | cached manifests; per process `in_flight` mutexes | `get_or_fetch` (`load`, `save`) |
| Depot keys | `depot_key_cache.rs` | one `OnceCell` per depot | `get_lazy`, `get` |
| Store facade | `context.rs` | the above | `open_depot_manifest`, `load_cached_manifest` |
| Depot file reads | `fs.rs` | path index; reader position and cached chunk | `read_into`, `read`, `seek`, `metadata`, `list_dir` |
| Sessions, tokens | `session.rs`, `steam-depot/src/auth.rs` | token file; a `OnceCell` per process | `prepare`, `resolve`, `save` |
| Mount tree | `steam-depot-mount/src/tree.rs`, `view.rs`, `inode.rs` | synthetic directories, paths, slots, a `OnceCell` per lazy entry, behind one `RwLock` | `add`, `add_lazy`, `remove`, `promote`, `lookup`, `resolve` |
| FUSE, NFS, ProjFS | `fuse.rs`, `nfs.rs`, `projfs.rs`, the `projfs` crate | handles, enumerations | requests of the kernel client |
| NFS mount life cycle | `nfs_session.rs` | server task, kernel mount | `start`, `unmount`, `Drop` |
| Prefetch, verify, prune | `steam-depot/src/prefetch.rs`, `verify.rs`, `prune.rs` | pipeline of tasks | passes of scan, fetch, verify, delete |
| CLI, configuration, statistics | `main.rs`, `config.rs`, `stats.rs` | none | parsing and reporting |

How they interact. A back end's worker looks a node id up in the tree. A
pending snapshot is opened through the store facade, which gets the manifest
from the manifest cache (or the CDN) and the depot key, and is then promoted in
the tree. A read becomes `get` calls on the chunk cache, which holds what it
decoded, reads its file, or asks the CDN store and files the answer. Prefetch
calls `ensure` on the same cache, then reads the files behind its back to
verify them; prune deletes files behind everybody's back. Several processes (a
mount, a prefetch) may share a cache directory; they share nothing else.

What is hard in it:

* `get` and `ensure` decide on what they saw before they waited for a lock, and
  the lock itself comes and goes (`Weak` in a map);
* files are judged, deleted, fetched and renamed in separate steps while other
  processes, prune and the blocking pool of tokio work on the same names;
* a manifest of an older format is removed outside the mutex that is there to
  serialise fetches;
* snapshots are removed while clients keep their node ids and while their
  opener is still running;
* a directory is listed in pieces while names come and go in it;
* a read cuts chunk borders, overflows, or meets a chunk shorter than announced;
* a mount nobody serves hangs whoever touches it, and such mounts are left by
  processes that died and by mounts that half failed;
* one token file is rewritten by processes that know nothing of each other;
* a prefetch is interrupted, fails, panics or times out with fetches in flight.

`PROJECT.json` lists the hazards at their lines, each with the properties that
are about it, or with the reason why there are none yet.

What makes each part correct:

* chunk cache: no wrong byte is ever handed out; loads of a chunk exclude each
  other in a process; what is decoded is not loaded again; calls come back; bad
  files get replaced;
* manifest cache: the tasks of a process share a fetch; what is saved is not
  fetched again; only whole manifests are published; calls come back;
* mount tree: names and slots agree; a stale node id is never served from
  another snapshot; every request is answered, whatever the opener does;
* store facade: one fetch of a manifest; Steam is asked for nothing that is on
  disk and can be read; calls come back;
* reads: the bytes of the range, all of them, and an end of file at the end only;
* listings: nothing that was never there, everything that was there throughout;
  listings end, and tell the same story as lookups;
* NFS mount: no unserved mount is left or touched; who tries again gets a mount;
* tokens: what was saved last is there, but for the saves that overlap, break or
  could not read the file;
* prefetch: nothing is submitted after an interrupt, nothing is left in flight,
  the run ends, good chunks survive it.

## 2. Modules

| Module | Models | Proofs |
|---|---|---|
| `ChunkStore` | what the trait promises: the abstract specification of the chunk cache | |
| `LruCache` | the `lru` crate's `get` and `put`, as operators on sequences | `ChunkCacheProofs` |
| `ChunkCache` | `FsCacheStore` over `ChunkDir`; extends `LruCache`, implements `ChunkStore` | `ChunkCacheProofs` |
| `ManifestCache` | `ManifestCache::get_or_fetch` and `load` | `DepotStoreProofs` |
| `DepotStore` | the facade: manifest cache, session, depot key and chunks; extends `ManifestCache` and implements it | `DepotStoreProofs` |
| `DepotReads` | `read_into` as the back ends call it, `DepotFileReader` | `DepotReadsProofs` |
| `SnapshotView` | the path index and the nodes inside a snapshot, for the three back ends | `SnapshotViewProofs` |
| `Inode` | packing of node ids | |
| `MountTree` | the tree, lazy opening, the workers of the back ends; extends `Inode` | `MountTreeProofs` |
| `Listing` | what the client of a directory listing is promised | `ReadDirProofs` |
| `ReadDir` | listings by FUSE, NFS and ProjFS; implements `Listing` | `ReadDirProofs` |
| `NfsMount` | an NFS mount from start to unmount, with what dead processes left | `NfsMountProofs` |
| `Login` | `Auth`'s logins and the file of refresh tokens | `CommandProofs` |
| `Prefetch` | the prefetch command, its pipeline, verify | `CommandProofs` |
| `MCChunkCache`, `MCDepotStore`, `MCDepotReads`, `MCSnapshotView`, `MCMountTree`, `MCReadDir`, `MCLogin`, `MCPrefetch` | instances for TLC | |

Each `CONSTANT Faults` is the set of things that may go wrong in an instance;
the runs choose from it, the theorems hold for every choice unless they say
otherwise. An operator marked "Mutant" in a module is the definition after it
with a plausible bug; a run fails when the one is put for the other. Mutants are
part of no specification.

### ChunkCache

One action is what happens between two points at which another task or process
can be noticed. `disk[c]` is the file under a chunk's name and `tmp[t]` a
temporary; a file is the frame it was meant to hold and who still writes it,
since `tokio::fs::File` hands writes to a blocking pool and `write_atomic`
neither flushes nor waits: the rename can come first (`Create`, `Rename`,
`FinishPublished`, `FinishTmp`). `loading[p][c]` is the `Weak` in the map, alive
(`Live`) while a task holds the `Arc`. The path of a call is `pc`:

    get:     hit  -> lock -> wait -> recheck -> read -> (delete ->) fetch -> create -> rename -> cache
    ensure:  stat -> lock -> wait -> restat  ->                     fetch -> create -> rename -> cache

Bytes are named by what they hash to, so SHA-1 is the equality of names, and a
frame verifies when it is whole and its bytes are the chunk's. SHA-1 collisions
and the layout of frames are thus left out. Two steps are coarser than the code:
`Create` is `File::create` with `write_all`, and `Read` is `fs::read` with
`decode_frame`; the file read is taken in one go. A temporary that is given up, by
an error or a death, stays on disk under a name that is never picked again; it
leaves the model (`tmp`), as nothing can tell.

### ManifestCache

One manifest key, since keys share the map only. `disk` is `None`, `"good"` or
`"bad"` (an older format, or cut short). `fs::write` is `Create` and `Fill`
through a handle that stays with the file (`file[t]`) after a rename or an
unlink, which is how two saves through the one temporary of a process get into
each other's way. `load1` runs before the mutex, `load2` under it. `LoadOnly` is
`load` called by itself. The module has no run of its own: `DepotStore` is run,
and its theorem `ImplementsManifestCache` says that it is a manifest cache.

### DepotStore

One depot with one manifest and its chunks, seen by the tasks of processes
(`call` is what a task is in). The steps of the manifest cache are those of
`ManifestCache`, conjoined with what they mean here. Where that module fetches
in one step, this one awaits, in the order of `get_manifest`'s closure and of
`CdnChunkStore::get`, the session (`auth`, `login`), the key (`key`, `ask`) and
the request itself (`fetch`). A `OnceCell` of tokio is a value and the one task
that is making it; a failure leaves the cell empty and the next waiter tries. Of
the chunk cache there is what `ChunkCache` shows of it: a hit, or a load that
excludes other loads of the chunk in the process; a file that cannot be read
counts as none (`ChunkUnread`, remembered in `unread` until the call ends), and a
chunk that cannot be filed fails its call. What is decoded in memory is left to
`ChunkCache`. `Prune` deletes chunks,
`Restart` loses what is in memory. `fresh` remembers whether the store began
without an entry of an older format.

### DepotReads

`call` is a run of the loop in `read_into` with what it has put together, for
the caller (`fuse`, `nfs`, `projfs`, `read_full` or a user of the library) whose
clamping of the range precedes it and whose catching of panics follows. A byte
is `<<chunk, position>>`, so that the file is a sequence to compare with
(`Content`). Lengths are of a `u64` of `U` values: sums wrap, and a wrapped
length is more than a `Vec` can hold. `held[i]` is how many bytes the store
hands out of chunk `i`. The `DepotFileReader` has `pos`, `cached` and, for the
properties, all it gave since its last seek (`from`, `stream`). Calls and
readers share nothing and exclude each other to keep the instance small.

### SnapshotView

Nothing in a loaded snapshot changes, so the state is the manifest, the node ids
clients have with the path they got them for (`known`), and the last answer. A
path is the sequence of its names. FUSE and NFS walk by ids through
`snapshot_child`, `snapshot_dir` and `snapshot_node`; ProjFS asks `metadata` and
`list_dir` by path (of up to `MaxDepth` names in the run). Sizes, times and modes
are left out, except that NFS answers a read behind an entry's size before it
looks at the kind (`beyond` in `Read`).

### ReadDir

A directory of the tree, whose children have ids never used twice, or one in a
snapshot, which never changes, may have to be opened first (`loaded`) and may go
as a whole. A snapshot that does not open is an error to FUSE and NFS
(`Resolved`); ProjFS begins its session on an empty list (`StartDirEnumUnread`,
`unread`). One client lists it through
one back end: by position (FUSE), by the id of the last entry (NFS), or from the
copy in an enumeration session (ProjFS, with search expression and restart).
`must`, `may` and `changed` record what happened meanwhile. `Listing` is what is
promised: nothing that was never there; and when told that this is all, all that
was there throughout. The mapping gives up the second promise (`firm`) for a
FUSE listing in which something was removed, as positions then shift, and for a
ProjFS session whose snapshot did not open. Names are
numbered in their order; there are finitely many, and `Sorted` and `Select` are the
sort and the filter of the code, said by what they return, so that the provers can
use them.

### NfsMount

`table` is the stack of mounts at the mountpoint, each served by this process or
not, forced out (`leaving`) or not, and with the reason why nobody serves it
although nobody is about to remove it (`lost`). `pc` follows `start`
(`check`, `force`, `settle`, `mkdir`, `mount`), `unmount` and `Drop`. The kernel
drops a forced mount in its own time, refuses a mountpoint it still has, and
hangs whoever touches a mount without a server.

### Login

Processes of several accounts over one token file. `save` is three steps, as it
is in the code: read the map, truncate the file, write it. A token is the number
of the login it was issued to. A file two writes ran into is either the later
map or garbage, which `load` and `save` take for no tokens, and so they take a file
they cannot read: every read gives the file or nothing (`Readings`), and `unread`
remembers a read that failed while what it led to can still do harm.
`LazyCachedAuth`
(`session.rs`) and `Auth` (`steam-depot/src/auth.rs`) are the same code twice;
the map names either.

### MountTree

A step is one hold of the tree's `RwLock`, or one of a slot's `OnceCell`. A
snapshot is the `<<app, depot, gid>>` it was loaded for. A worker of any back
end looks a manifest up by name, keeps the node id as kernels do, and may use it
much later: the id is answered by `Serve`, `Missing`, `Promote` or `Failed`. An opener
ends well or badly (`Opened`), which the cell keeps, or panics (`OpenPanics`): the
cell is empty again, one of those that wait runs the opener anew, and the request
that ran it is an I/O error, by `caught` in NFS, `catch_unwind` in ProjFS and the
dropped reply in FUSE.
`asked` (the manifest the id was looked up for) and `ret` are there for the
properties. The nodes inside a snapshot are in `SnapshotView`; here its root stands
for them.

### Prefetch

`phase` follows `run()`. The chunk store behind the tasks is reduced to what
`ensure` promises: a file that is there will do; one that is not, or of which `stat`
cannot tell (`Absent`), is fetched and filed, or fails. A manifest's work is a set of chunks in the order of their
names, which is the order the code sorts them into. A file is a `"frame"` (what
the cache writes), `"plain"` (what verify expects) or `"torn"`. `bounded` is the
presence of `--seconds`, chosen in `Init`. Counting, progress bars and logging
are left out.

## 3. Runs

| Run | Instance | Checks |
|---|---|---|
| `ChunkCacheShared` | 2 processes, 3 tasks, 1 chunk, LRU of 1, all faults | `TypeOK`, `SingleLoader`, `OnlyRightBytes`, `IsChunkStore` |
| `ChunkCacheOneProc` | 1 process, 2 tasks, 2 chunks, LRU of 1, all faults but outside deletion and `io`; fair | `WriteThrough`, `NoRedundantLoad`, `EveryCallReturns` |
| `DepotStore` | 1 process, 1 chunk, 3 tasks over a fresh store or 2 over one with a stale entry, 3 mutexes, all faults; fair | `FetchedOnce`, `HitsStayOffline`, `OnlyWholeManifests`, `StoreAnswers` |
| `MountTree` | 1 app, 2 depots, 2 gids (4 manifests), 2 snapshot ids, 2 workers; fair | `TreeLeadsToSlots`, `PathsLeadToDirs`, `StaleIdsServeNoOther`, `IdsAreNeverReused`, `EveryRequestIsAnswered` |
| `Prefetch` | manifests {1, 2, 3} and {2, 3}, width 2, 3 passes, all faults; fair | `NothingLeftInFlight`, `InterruptStopsSubmitting`, `RunEnds` |
| `DepotReads` | 5 files of up to 3 bytes and 3 chunks, `u64` of 8 values, reads of 0, 1, 2 and 4 bytes, chunks up to one byte short | `ReadsTheRange`, `EofIsTheEnd`, `FuseReadsDoNotPanic`, `StreamIsTheFile`, `ReaderEndsAtTheEnd` |
| `ReadDir` | 3 names, 5 node ids, replies with room for 0, 1 or 2, 1 restart; fair | `ListedOnce`, `ScanIsWhole`, `ImplementsListing`, `ListingEnds` |
| `SnapshotView` | all manifests of 0 to 2 entries two deep, 3 deeper ones | `IdsAreTheirPaths`, `KindsAgree`, `ListingsAreComplete`, `EverythingIsReachable` |
| `NfsMount` | up to 3 mounts left behind, 6 faults; fair | `OrphansAreExcused`, `TouchesNoDeadMount`, `Recovers`, `UnmountEnds` |
| `Login` | 3 processes, 2 accounts, 2 tokens; fair | `TokensAreKept`, `DeferredFindsItsToken`, `LoginsEnd` |
| `ChunkCachePublish` | violation: 1 process, 2 tasks, 1 chunk, failing fetches | `PublishedWhole` |
| `PrefetchVerify` | violation: as `Prefetch`, without faults | `GoodFramesVerify` |

Why the bounds are enough. Interference between loads needs a loader, one who
waits for its lock and one who comes after the lock was dropped: three tasks; a
second process adds the only other kind of actor on the files. One chunk
suffices for locks and files, as chunks share the decoded cache only; two chunks
over a cache of one entry force evictions. The store's hazards need a holder, a
waiter and a late comer; a load of the manifest and one of a chunk are enough to
wait for one session or key, and over a stale entry two tasks (`Callers`) for one to
remove what the other looks at or has saved. Two processes share nothing in memory,
and `FetchedOnce` and `HitsStayOffline` speak of one. In the tree, two ids let a
slot be removed, re-added and the id space run out, and two workers let one open what the other
has asked for while it goes. In prefetch, three chunks over a pipeline of two
leave one to be submitted on a completion, shared chunks are met twice in a
pass, and three passes are `MAX_REFETCH_ATTEMPTS`. Three chunks give a read a
first, a middle and a last one, and offsets run to the end of the `u64`; two of
the files have bytes no chunk covers, where only the absence of panics is
claimed. Three names, with two to a reply, put a change before, at and after the
place where a listing resumes. Two entries two deep make a child of a directory,
of a file and of nothing. Mounts stack, so three left behind need three starts;
six faults let every one of those starts fail. A lost update of the token file
needs two processes and two tokens, one to lose and one to lose it by; the third
process shares an account with one of them. For any number of tokens and processes,
and of chunks and tasks in `DepotStore`, the theorems say what these instances check.
`MaxSnapshot` and `IndexSpan` stand for the 2^16 - 1 and 2^48 of `inode.rs`,
`MaxDepth` the paths ProjFS asks for, `MaxIno` and `MaxRestarts` bound the changes of a directory and the restarts of a
scan, `MaxTokens` the logins, `MaxFaults` what goes wrong. Other calls go round
for ever. Symmetry is used in `ChunkCacheShared` only, on locks and on tasks of one
process, none of which is named by a definition. Deadlock is checked in every run but
those of `Prefetch`, whose program ends, and `NfsMount`, where an `umount` of a
mount whose server has stopped hangs.

Fairness. A task that can go on is polled by the runtime, a fetch answers (the
HTTP client has timeouts), and blocking work is got to: weak fairness of a
task's steps, and of the writes due. Tokio's mutexes and the semaphore of its
`OnceCell` hand over in FIFO order: strong fairness of `Acquire`, and of a task's
steps in `DepotStore`, where tasks wait for three such things in turn. In
`MountTree` a worker's steps and the opener are fair, strongly for the start of an
opener, since the semaphore of the `OnceCell` lets in who waits while others'
openers panic one after the other; adds, removals and client
requests are not. In `Prefetch` the run and the fetch tasks are fair; signals,
deadlines and deletions are not. In `ReadDir` a client goes on until it is told
that it has all, and sooner or later has room for an entry. In `DepotReads` the
store answers. In `NfsMount` whoever wants the mount starts again, commands come
back unless they hang, and the kernel lets go of a forced mount; nothing that
goes wrong is fair. In `Login` Steam answers, the connection times out, and an
operator answers the prompt or gives up.

### What the violations show

* `ChunkCachePublish`: `write_atomic` (`cache.rs:338`) drops the file unflushed
  and renames it, so a file has its final name before its contents. Consequence:
  a reader deletes a file that is being written and fetches again; a failed
  write is not reported. It is not a matter of wrong bytes: `OnlyRightBytes`
  holds with it.
* `PrefetchVerify`: `verify_one` hashes the frame instead of the plaintext and
  condemns every good chunk (`verify.rs:90`); prefetch deletes them.

Seen while modelling, in the models, and stated by no run:

* with an entry of an older format two tasks of one process can fetch and save a
  manifest at once, against `manifest_cache.rs:53` ("concurrent callers share a
  fetch"): the removal at `manifest_cache.rs:98` takes away whatever is filed by
  then, and `in_flight.remove` (`manifest_cache.rs:179`) drops the mutex a third
  still waits for. This is why `FetchedOnce` and `OnlyWholeManifests` are about
  `fresh` stores;
* when two tasks have read the stale entry, the second removal
  (`manifest_cache.rs:98`) finds no file and its error ends the call, against
  `manifest_cache.rs:89` ("remove and re-fetch next time");
* the deadline of `--seconds` ends one manifest's pipeline and the next manifest
  starts with a deadline of its own (`prefetch.rs:72`), against `main.rs:75`;
* an add is refused for "too many concurrent snapshots" (`tree.rs:361`) once 65 535
  snapshots were ever added (`tree.rs:198`), however few are mounted;
* the map of load locks keeps an entry for every chunk ever loaded
  (`cache.rs:159`), against `cache.rs:32-33`;
* a prefetch whose fetches failed ends with `Ok` (`prefetch.rs:308`), and a
  panicking fetch narrows the pipeline for good (`prefetch.rs:299`);
* a chunk file that cannot be read counts as missing (`cache.rs:318`): the chunk is
  asked for online, and an offline caller does without;
* between the read of a corrupt chunk and its deletion another process may file a
  good one, which then goes (`cache.rs:317-320`) and is fetched again;
* an opener that panics is run again by the next of those that wait, where one that
  fails is not (`view.rs:86-93`);
* a snapshot that does not open is an empty directory to ProjFS, with success
  (`projfs.rs:127-129`), where FUSE and NFS answer an error;
* FUSE listings miss entries when something before their position is removed
  (`fuse.rs:284`); NFS lists twice what it starts again with (`nfs.rs:279`);
* NFS fails to list a directory of a snapshot that has nothing in it
  (`nfs.rs:273`), FUSE lists it as empty; FUSE and ProjFS show a link as a file
  that cannot be read;
* a `DepotFileReader` reports the end of the file at a chunk that comes short, or
  panics when a shorter chunk was cached (`fs.rs:399-402`);
* two overlapping saves of the token file lose a token or all, and a save that
  breaks off loses all (`auth.rs:107`); a save that cannot read the file takes it
  for empty and writes it anew, which loses every other account's token without an
  error (`auth.rs:102-105`); a login that cannot read it prompts (`auth.rs:88`); a
  deferred login prompts in the middle of
  the run when its token is rejected (`auth.rs:35`, against `auth.rs:31-33`);
* an `unmount` hangs when the NFS server task has ended by itself
  (`nfs_session.rs:73`); of several stacked mounts one start removes one only and
  then fails, so that it takes as many starts as there are mounts.

## 4. Theorems

All for any number of processes, tasks, chunks and locks, and any faults unless
said otherwise. The assumptions are the named `ASSUME`s on the constants, which
the runs evaluate.

* `TypeAndBytes`: types and `OnlyRightBytes`. The invariant `DataInv` joins them
  with nothing else: a task gets bytes from a verified read or a checked fetch
  only. Its step is proved in three parts (files, decoded cache, tasks), the
  decoded cache through lemmas on the operators of `LruCache`.
* `OneLoaderPerChunk`: `SingleLoader`, which is not inductive: it needs that all
  who wait for or hold a chunk's lock have the lock that is filed (`LocksAgree`)
  and that a lock has one holder (`OneHolder`). `LockInv` is their conjunction;
  a lock is refiled only when nobody is left with the old one, which is what
  `Weak::upgrade` decides.
* `OneProcessLoadsOnce`: `WriteThrough` and `NoRedundantLoad`, for one process,
  when nothing else deletes files and the disk answers. Neither is inductive
  alone: a deletion must not hit what is held decoded (`NoRedundantLoad`), and
  `ensure` takes a chunk without a file for one that is not held
  (`WriteThrough`); besides, who is about to put a chunk has filed it (`Filed`),
  which `SingleLoader` protects from the deletions of other tasks.
* `ImplementsChunkStore`: every step of the cache is an abstract call, answer,
  abort or stutter. The mapping is the identity on `call` and `ret`; that a
  `get` answers with the named bytes comes from `DataInv`.
* `CleanStoreSharesFetches`: `TypeOK`, `SharedFetch` and `PublishedDecodes`, if
  no entry of an older format is there. `CleanInv`: nothing is removed, a mutex has one
  holder, and who has another mutex than the filed one finds the manifest saved.
  With a stale entry it is false (see what was seen while modelling, above).
* `CleanStoreFetchesOnce`: `NoFetchOfSaved`, for one process besides.
* `ImplementsManifestCache`: every step of the composed store is a step of
  `ManifestCache` or leaves it alone. `ManifestIsFetchedOnce` is then
  `CleanStoreSharesFetches` and `CleanStoreFetchesOnce` carried over, which hold
  of every behaviour of that module.
* `PublishedManifestsAreWhole`: `OnlyWholeManifests`, for any number of processes;
  `CleanStoreSharesFetches` carried over in the same way.
* `OnlineForWhatIsMissing`: `HitsStayOffline`, for one process. `CallInv` says what
  task may be online for what: whoever is online for a manifest holds its mutex
  (`pc` is `"fetch"`), so `NoFetchOfSaved` speaks of him, and whoever is online for
  a chunk is its only loader, so that nobody else can file it meanwhile.
* `AloneItIsFetchedAgain`: `BadEntryFailsNoCall` for a single task, over a store with
  or without a stale entry, with deaths at any point, while disk and network work.
  `AloneInv`: who has found the entry bad finds it still there to remove. With a
  second task it is false (see what was seen while modelling, above).
* `IdsStandForOneSnapshot`: `IdsAreNeverReused`, from `SlotTypes`: every slot ever
  given out has its cell, and an update in place changes no other slot.
* `StaleIdsAreServedRightly`: `StaleIdsServeNoOther`, while the synthetic
  directories do not run out of the 2^48 indices (`Room`, a hypothesis of the
  statement: the code does not check it). What a request was looked up for is what
  the cell of its snapshot id opens (`RequestsInv`). At the lookup that is a fact
  about the tree (`DirsOK`): a directory knows its parent and its name, and a depot
  directory's child is the root of a snapshot added under the three names. Later,
  cells keep what they open and an open slot holds what its cell opens.
* `NamesLeadToSlots`, `PathsNameTheDirectories`: `TreeLeadsToSlots` and
  `PathsLeadToDirs`, under `Room` too. `TreeOK` says of directories, paths and slots
  what the code keeps in three places: a path names a directory that knows its
  parent and name and is listed there; what the root and an app's directory list
  has a path; what a depot's directory lists is a slot of that manifest; and every
  slot is listed. The last two are each other's converse, and neither is inductive
  alone: a removal finds the depot directory through the path because the slot is
  listed, and an add must not bind a name that a slot has. `EnsuredApp` and
  `EnsuredDepot` carry it through the two calls of `ensure_synthetic`, `LeafAdded`
  and `LeafRemoved` through the rest of an add and a removal.
* `IdsStandForPaths`, `BackEndsAgree`, `ListingsHaveAll`: `IdsAreTheirPaths`,
  `KindsAgree` and `ListingsAreComplete`, for any manifest with entries at distinct
  paths of any length. They rest on `IndexFinds` (`by_path` finds the one entry at a
  path), `SplitPath` and `JoinedPath` (a path is its parent's and a name, which makes
  `children` and `join` each other's inverse) and on `ViewInv`, which says that the
  ids clients have are of this manifest and stand for their paths.
* `EveryEntryIsReached`: `EverythingIsReachable`. The walk is stated as the sequence of
  the ids it goes by, each the child of the one before and that one a directory; the
  proof names them, the indices of the path's first names. That there is a directory
  on every level (`LevelsAreThere`) is an induction from the entry upwards, made by the
  least counterexample.
* `ReadsAreRight`, `NfsToldTheEnd`: `ReadsTheRange`, `FuseReadsDoNotPanic` and
  `EofIsTheEnd`, for any width of the `u64`, any file with sorted chunks and any
  shortage of the store. The invariant says of a running call that what it has put
  together is the part of the range before the chunk it looks at, and of a finished
  one what its caller makes of it.
* `ReaderGivesTheFile`: `StreamIsTheFile` and `ReaderEndsAtTheEnd`. `ReaderInv`
  ties the position to what was handed out since the last seek: the bytes of the
  file from there to the position, and an end or an error only where they belong.
  That some chunk is the last to start at or before a position
  (`partition_point`) is an induction over the chunks, made by the least
  counterexample (lemma `Smallest` there).
* `NoOrphanWithoutCause`, `StartsOnAFreeMountpoint`: `OrphansAreExcused` and
  `TouchesNoDeadMount`, from `MountInv`, for any number of mounts left behind and
  any number of faults. It says that a start mounts on an empty table, that the
  process has one mount at most from then on, and that a mount is served only while
  the process is up or unmounting.
* `SavedTokensAreKept`: `TokensAreKept`. `KeepInv`: a map about to be written has
  its own token and what the others saved last, unless it was made of a file that
  could not be read, or a save that overlaps or breaks excuses it.
* `DeferredLoginFindsAToken`: `DeferredFindsItsToken`. `SeenInv`: who deferred has
  seen a token, and a token that was saved once leaves the file only by an excuse; a
  login that cannot read the file is excepted itself.
* `NoFetchOutlivesItsPipeline`, `InterruptStopsTheRun`: `NothingLeftInFlight`
  and `InterruptStopsSubmitting`, from `PipelineInv`.
* `ListingIsImplemented`, `NothingTwice`, `ScansAreWhole`: `ImplementsListing`,
  `ListedOnce` and `ScanIsWhole`, for any finite set of names, any searches and any
  room in the replies. Each back end has its own half of `ReadDirInv`. FUSE: what is
  before the position was given, unless something was removed, and what is behind
  it was not, unless something was added; that an addition moves nothing to the
  front is the lemma `Shifted`. NFS: what is there throughout, up to the entry of the
  cookie, was given, and while nothing is removed the entry of the cookie is the last
  one given; ids are never used twice, so a cookie whose entry went names no other.
  ProjFS: what was given is the matches before the index of the session's list, which
  has nothing in it when the snapshot did not open. `FuseStep`, `NfsStep` and
  `ProjStep` keep the invariant and say what a call is to `Listing` (`Given`); a call
  that fails is a stutter. `Page`, `Joined`, `JoinedInOrder` and `Selected` say what
  pages are and what they add; `SortedExists`, that a finite set can be listed in
  order, is again an induction made by the least counterexample.
* `PutResult`, `PromoteResult`: what the LRU's operations do to any cache.

`CleanStoreSharesFetches` and `CleanStoreFetchesOnce` assume in their statements
that the store begins without a stale entry; `FetchedOnce` says so itself.

Only model-checked: all liveness (`EveryCallReturns`, `StoreAnswers`,
`EveryRequestIsAnswered`, `RunEnds`, `ListingEnds`, `Recovers`, `UnmountEnds`,
`LoginsEnd`), since fairness and `ENABLED` are out of TLAPS's reach here. Every
invariant and action property that a passing run checks is a theorem, under the
hypotheses named above.

No module uses a `RECURSIVE` operator.

## 5. Not modelled, and what is left

Not modelled for good: argument and configuration parsing, statistics, error
types, the development binaries, terminal output, the attributes and bytes of
directory entries, the network protocols, the marshalling of ProjFS callbacks and
the start and stop of the FUSE and ProjFS sessions, which delegate to the tree.
`list_chunks` and `list_manifests` list a directory and keep nothing. NFS's write
procedures answer ROFS. SHA-1 collisions, a frame's layout and zstd are abstracted
to equality of names. A panic inside a load of a chunk, which lets go of the lock as
an error does, is not an action of its own. A chunk longer than the manifest says is
outside `DepotReads`: `DepotFileReader` would copy more of it than was asked for
(`fs.rs:400`). `NfsMount` takes `is_mounted` as exact: escapes of blanks in
`/proc/self/mounts` and a mountpoint that is a symbolic link (`nfs_session.rs:394-423`)
are left out. That one login and one request for the key run at a time is the contract
of tokio's `OnceCell`, which `DepotStore` and `MountTree` take over.

Worth doing next: `DepotStore` over the whole `ChunkCache` instead of what it shows,
once two processes of it fit.

## 6. Running

    tlc -workers 2 -config ChunkCacheShared.cfg MCChunkCache
    tlapm ChunkCacheProofs.tla

Every run named in `PROJECT.json` takes at most about two minutes on two cores.
`NfsMount` is run without an MC module: `tlc -config NfsMount.cfg NfsMount`.
