----------------------------- MODULE ChunkCache -----------------------------
(***************************************************************************)
(* FsCacheStore over a ChunkDir: the on-disk chunk cache, its decoded LRU  *)
(* and its per-chunk load locks, used by the tasks of one or more          *)
(* processes that share the cache directory.                               *)
(*                                                                         *)
(* Bytes are named by what they hash to: the plaintext of chunk c is c,    *)
(* and Junk is any bytes no chunk is made of.  A file is the frame it was  *)
(* meant to hold and how far its contents got.                             *)
(***************************************************************************)
EXTENDS Naturals, LruCache

CONSTANTS Chunks,    \* chunk names (SHA-1)
          Junk,      \* bytes that hash to no chunk name
          Procs,     \* processes over one cache directory, one ChunkDir each
          Tasks,     \* tasks that call the store
          ProcOf,    \* the process a task runs in
          Locks,     \* tokio mutex allocations
          Capacity,  \* DECODED_CACHE_ENTRIES
          Faults,    \* what may go wrong, see FaultKinds
          None, Done, Err

FaultKinds == {"fetch",   \* the inner store fails or returns other bytes
               "io",      \* create, rename, read, stat or remove fails
               "write",   \* the background write of a file fails
               "rot",     \* power loss or bit rot damages a published file
               "remove",  \* prune or a user deletes a published file
               "crash"}   \* a process dies

ASSUME ConstantsAssumption ==
    /\ ProcOf \in [Tasks -> Procs]
    /\ Junk \notin Chunks
    /\ Capacity \in Nat \ {0}
    /\ Faults \subseteq FaultKinds
    /\ None \notin Chunks \cup {Junk, Done, Err} \cup Locks \cup [op : {"get", "ensure"}, sha : Chunks]
    /\ {"whole", "torn"} \cap Procs = {}
    /\ None \notin [frame : Chunks \cup {Junk}, by : Procs \cup {"whole", "torn"}]

VARIABLES disk,     \* the file published under each chunk name
          tmp,      \* the temporary file a task is writing; one that is given
                    \* up stays on disk, under a name nobody looks for again,
                    \* and leaves the model
          decoded,  \* ChunkDir.decoded of each process
          loading,  \* ChunkDir.loading of each process: chunk -> Weak
          arc,      \* the Arc of a load lock a task holds
          pc, call, \* where a task is, in which call
          got,      \* the plaintext a task has in hand
          ret       \* what the task's last call returned

vars == <<disk, tmp, decoded, loading, arc, pc, call, got, ret>>

Contents == Chunks \cup {Junk}

\* A file's frame, and who still writes it: `by` is the process whose
\* blocking pool has yet to write the contents, or how the write ended.
File == [frame : Contents, by : Procs \cup {"whole", "torn"}]
Torn == [frame |-> Junk, by |-> "torn"]
Whole(b) == [frame |-> b, by |-> "whole"]

\* Mutant: the claimed digest is not compared with the name.
VerifiesAnyName(f, c) == f.by = "whole"

\* decode_frame, then the check of the claimed digest against the name.
Verifies(f, c) == f.by = "whole" /\ f.frame = c

Callable == [op : {"get", "ensure"}, sha : Chunks]

\* A task holds the lock of its chunk from "recheck"/"restat" to the return.
Locked == {"recheck", "restat", "read", "delete", "fetch", "create", "rename", "cache"}
PCs == {"idle", "hit", "stat", "lock", "wait"} \cup Locked

FilesOK ==
    /\ disk \in [Chunks -> File \cup {None}]
    /\ tmp \in [Tasks -> File \cup {None}]

DecodedOK ==
    /\ decoded \in [Procs -> Seq([key : Chunks, value : Contents])]
    /\ \A p \in Procs :
          /\ Len(decoded[p]) <= Capacity
          /\ \A m, n \in 1..Len(decoded[p]) :
                decoded[p][m].key = decoded[p][n].key => m = n

TasksOK ==
    /\ loading \in [Procs -> [Chunks -> Locks \cup {None}]]
    /\ arc \in [Tasks -> Locks \cup {None}]
    /\ pc \in [Tasks -> PCs]
    /\ call \in [Tasks -> Callable \cup {None}]
    /\ got \in [Tasks -> Contents \cup {None}]
    /\ ret \in [Tasks -> Contents \cup {None, Done, Err}]
    /\ \A t \in Tasks : pc[t] = "idle" <=> call[t] = None

\* The values of the variables; the decoded cache is within its capacity and
\* holds no chunk twice, and exactly the tasks inside a call have one.
TypeOK == FilesOK /\ DecodedOK /\ TasksOK

Init ==
    /\ disk \in [Chunks -> {None, Torn} \cup {Whole(b) : b \in Contents}]
    /\ tmp = [t \in Tasks |-> None]
    /\ decoded = [p \in Procs |-> << >>]
    /\ loading = [p \in Procs |-> [c \in Chunks |-> None]]
    /\ arc = [t \in Tasks |-> None]
    /\ pc = [t \in Tasks |-> "idle"]
    /\ call = [t \in Tasks |-> None]
    /\ got = [t \in Tasks |-> None]
    /\ ret = [t \in Tasks |-> None]

-----------------------------------------------------------------------------

Sha(t) == call[t].sha
IsGet(t) == call[t].op = "get"
Cache(t) == decoded[ProcOf[t]]

At(t, l) == pc[t] = l
Goto(t, l) == pc' = [pc EXCEPT ![t] = l]

\* The call ends: the guard is released and the Arc dropped on the way out.
Return(t, r) ==
    /\ Goto(t, "idle")
    /\ call' = [call EXCEPT ![t] = None]
    /\ got' = [got EXCEPT ![t] = None]
    /\ arc' = [arc EXCEPT ![t] = None]
    /\ ret' = [ret EXCEPT ![t] = r]

\* A caller asks for a chunk; get starts with the decoded cache, ensure
\* with a stat.
Call(t, k) ==
    /\ At(t, "idle")
    /\ Goto(t, IF k.op = "get" THEN "hit" ELSE "stat")
    /\ call' = [call EXCEPT ![t] = k]
    /\ ret' = [ret EXCEPT ![t] = None]
    /\ UNCHANGED <<disk, tmp, decoded, loading, arc, got>>

\* cache_hit, before the lock and again under it.
Hit(t) ==
    /\ pc[t] \in {"hit", "recheck"}
    /\ Holds(Cache(t), Sha(t))
    /\ decoded' = [decoded EXCEPT ![ProcOf[t]] = Promote(@, Sha(t))]
    /\ Return(t, Lookup(Cache(t), Sha(t)))
    /\ UNCHANGED <<disk, tmp, loading>>

Miss(t) ==
    /\ pc[t] \in {"hit", "recheck"}
    /\ ~ Holds(Cache(t), Sha(t))
    /\ Goto(t, IF At(t, "hit") THEN "lock" ELSE "read")
    /\ UNCHANGED <<disk, tmp, decoded, loading, arc, call, got, ret>>

\* try_exists, before the lock and again under it.  A stat that fails
\* counts as absent.
Exists(t) ==
    /\ pc[t] \in {"stat", "restat"}
    /\ disk[Sha(t)] # None
    /\ Return(t, Done)
    /\ UNCHANGED <<disk, tmp, decoded, loading>>

Absent(t) ==
    /\ pc[t] \in {"stat", "restat"}
    /\ disk[Sha(t)] = None \/ "io" \in Faults
    /\ Goto(t, IF At(t, "stat") THEN "lock" ELSE "fetch")
    /\ UNCHANGED <<disk, tmp, decoded, loading, arc, call, got, ret>>

\* Weak::upgrade succeeds while some task still holds the Arc.
Live(l) == \E u \in Tasks : arc[u] = l

\* Mutant: every load files a lock of its own.
ChunkLockUnshared(t) ==
    /\ At(t, "lock")
    /\ \E l \in Locks :
          /\ ~ Live(l)
          /\ \A q \in Procs, c \in Chunks : loading[q][c] # l
          /\ loading' = [loading EXCEPT ![ProcOf[t]][Sha(t)] = l]
          /\ arc' = [arc EXCEPT ![t] = l]
    /\ Goto(t, "wait")
    /\ UNCHANGED <<disk, tmp, decoded, call, got, ret>>

\* chunk_lock: share the lock of the loads under way, else file a new one.
\* A Weak keeps its allocation, so a new lock is none that is still filed.
ChunkLock(t) ==
    LET p == ProcOf[t]
        filed == loading[p][Sha(t)]
    IN  /\ At(t, "lock")
        /\ \/ /\ filed # None /\ Live(filed)
              /\ arc' = [arc EXCEPT ![t] = filed]
              /\ UNCHANGED loading
           \/ /\ filed = None \/ ~ Live(filed)
              /\ \E l \in Locks :
                    /\ ~ Live(l)
                    /\ \A q \in Procs, c \in Chunks : loading[q][c] # l
                    /\ loading' = [loading EXCEPT ![p][Sha(t)] = l]
                    /\ arc' = [arc EXCEPT ![t] = l]
        /\ Goto(t, "wait")
        /\ UNCHANGED <<disk, tmp, decoded, call, got, ret>>

\* Mutants: get, or ensure, does not look again once it has the lock.
AcquireGetNoRecheck(t) ==
    /\ At(t, "wait")
    /\ ~ \E u \in Tasks : arc[u] = arc[t] /\ pc[u] \in Locked
    /\ Goto(t, IF IsGet(t) THEN "read" ELSE "restat")
    /\ UNCHANGED <<disk, tmp, decoded, loading, arc, call, got, ret>>

AcquireEnsureNoRecheck(t) ==
    /\ At(t, "wait")
    /\ ~ \E u \in Tasks : arc[u] = arc[t] /\ pc[u] \in Locked
    /\ Goto(t, IF IsGet(t) THEN "recheck" ELSE "fetch")
    /\ UNCHANGED <<disk, tmp, decoded, loading, arc, call, got, ret>>

\* lock().await on the tokio mutex.
Acquire(t) ==
    /\ At(t, "wait")
    /\ ~ \E u \in Tasks : arc[u] = arc[t] /\ pc[u] \in Locked
    /\ Goto(t, IF IsGet(t) THEN "recheck" ELSE "restat")
    /\ UNCHANGED <<disk, tmp, decoded, loading, arc, call, got, ret>>

\* read_verified: what there is is read in one go, and used, condemned or,
\* when there is nothing to read, given up on.
Read(t) ==
    LET f == disk[Sha(t)]
    IN  /\ At(t, "read")
        /\ \/ /\ f # None /\ Verifies(f, Sha(t))
              /\ Goto(t, "cache")
              /\ got' = [got EXCEPT ![t] = f.frame]
           \/ /\ f # None /\ ~ Verifies(f, Sha(t))
              /\ Goto(t, "delete")
              /\ UNCHANGED got
           \/ /\ f = None \/ "io" \in Faults
              /\ Goto(t, "fetch")
              /\ UNCHANGED got
        /\ UNCHANGED <<disk, tmp, decoded, loading, arc, call, ret>>

\* delete_corrupt: whatever is filed under the name by now goes.
DeleteCorrupt(t) ==
    /\ At(t, "delete")
    /\ \/ disk' = [disk EXCEPT ![Sha(t)] = None]
       \/ "io" \in Faults /\ UNCHANGED disk
    /\ Goto(t, "fetch")
    /\ UNCHANGED <<tmp, decoded, loading, arc, call, got, ret>>

\* Mutant: the fetched bytes are not hashed.
HashesToUnchecked(b, c) == b \in Contents

\* What inner.get may hand over, and the digest check on it.
Delivered(c) == IF "fetch" \in Faults THEN Contents ELSE {c}
HashesTo(b, c) == b = c

\* inner.get, then the digest check and the encode off the async workers.
Fetch(t) ==
    /\ At(t, "fetch")
    /\ \E b \in Delivered(Sha(t)) :
          /\ HashesTo(b, Sha(t))
          /\ got' = [got EXCEPT ![t] = b]
    /\ Goto(t, "create")
    /\ UNCHANGED <<disk, tmp, decoded, loading, arc, call, ret>>

\* Mutant: a failed fetch is tried again for ever.
FetchRetries(t) ==
    /\ At(t, "fetch") /\ "fetch" \in Faults
    /\ Goto(t, "read")
    /\ UNCHANGED <<disk, tmp, decoded, loading, arc, call, got, ret>>

FetchFails(t) ==
    /\ At(t, "fetch") /\ "fetch" \in Faults
    /\ Return(t, Err)
    /\ UNCHANGED <<disk, tmp, decoded, loading>>

\* write_atomic: File::create and write_all.  The tokio file takes the
\* frame and leaves the write to the process's blocking pool; write_all
\* does not wait for it, and nothing flushes the file before it is dropped.
Create(t) ==
    /\ At(t, "create")
    /\ tmp' = [tmp EXCEPT ![t] = [frame |-> got[t], by |-> ProcOf[t]]]
    /\ Goto(t, "rename")
    /\ UNCHANGED <<disk, decoded, loading, arc, call, got, ret>>

Rename(t) ==
    /\ At(t, "rename")
    /\ disk' = [disk EXCEPT ![Sha(t)] = tmp[t]]
    /\ tmp' = [tmp EXCEPT ![t] = None]
    /\ Goto(t, "cache")
    /\ UNCHANGED <<decoded, loading, arc, call, got, ret>>

\* The temporary is given up: its name (pid and nonce) is never used again.
WriteFails(t) ==
    /\ pc[t] \in {"create", "rename"} /\ "io" \in Faults
    /\ tmp' = [tmp EXCEPT ![t] = None]
    /\ Return(t, Err)
    /\ UNCHANGED <<disk, decoded, loading>>

\* Mutant: a chunk is put in front without looking for an older entry.
CacheDecodedAsNew(t) ==
    /\ At(t, "cache")
    /\ decoded' = [decoded EXCEPT ![ProcOf[t]] = <<Entry(Sha(t), got[t])>> \o @]
    /\ Return(t, IF IsGet(t) THEN got[t] ELSE Done)
    /\ UNCHANGED <<disk, tmp, loading>>

\* cache_decoded, and the call returns.
CacheDecoded(t) ==
    /\ At(t, "cache")
    /\ decoded' = [decoded EXCEPT ![ProcOf[t]] = Put(@, Sha(t), got[t], Capacity)]
    /\ Return(t, IF IsGet(t) THEN got[t] ELSE Done)
    /\ UNCHANGED <<disk, tmp, loading>>

-----------------------------------------------------------------------------

\* The blocking pool gets to a write that is still due, wherever the file
\* has been moved by then; the error of one that fails reaches nobody.
Due(f) == f # None /\ f.by \in Procs
Outcomes(f) == {Whole(f.frame)} \cup IF "write" \in Faults THEN {Torn} ELSE {}

FinishPublished(c) ==
    /\ Due(disk[c])
    /\ \E f \in Outcomes(disk[c]) : disk' = [disk EXCEPT ![c] = f]
    /\ UNCHANGED <<tmp, decoded, loading, arc, pc, call, got, ret>>

FinishTmp(t) ==
    /\ Due(tmp[t])
    /\ \E f \in Outcomes(tmp[t]) : tmp' = [tmp EXCEPT ![t] = f]
    /\ UNCHANGED <<disk, decoded, loading, arc, pc, call, got, ret>>

\* A process dies and starts again: its memory is empty, its tasks are
\* gone, and the writes it still owed will never be made.
Crash(p) ==
    LET dead == {t \in Tasks : ProcOf[t] = p}
    IN  /\ "crash" \in Faults
        /\ disk' = [c \in Chunks |-> IF Due(disk[c]) /\ disk[c].by = p
                                     THEN Torn ELSE disk[c]]
        /\ tmp' = [t \in Tasks |-> IF t \in dead THEN None ELSE tmp[t]]
        /\ decoded' = [decoded EXCEPT ![p] = << >>]
        /\ loading' = [loading EXCEPT ![p] = [c \in Chunks |-> None]]
        /\ arc' = [t \in Tasks |-> IF t \in dead THEN None ELSE arc[t]]
        /\ pc' = [t \in Tasks |-> IF t \in dead THEN "idle" ELSE pc[t]]
        /\ call' = [t \in Tasks |-> IF t \in dead THEN None ELSE call[t]]
        /\ got' = [t \in Tasks |-> IF t \in dead THEN None ELSE got[t]]
        /\ ret' = [t \in Tasks |-> IF t \in dead THEN None ELSE ret[t]]

\* The disk loses a file's contents, or shows a frame under another name;
\* a file goes (prune, a user).
Damage(c) ==
    /\ disk[c] # None
    /\ \/ /\ "rot" \in Faults
          /\ \E f \in {Torn} \cup {Whole(b) : b \in Contents \ {c}} :
                disk' = [disk EXCEPT ![c] = f]
       \/ /\ "remove" \in Faults
          /\ disk' = [disk EXCEPT ![c] = None]
    /\ UNCHANGED <<tmp, decoded, loading, arc, pc, call, got, ret>>

-----------------------------------------------------------------------------

\* The steps of one call, between Call and its return.
Step(t) == \/ Hit(t) \/ Miss(t) \/ Exists(t) \/ Absent(t)
           \/ ChunkLock(t) \/ Acquire(t)
           \/ Read(t) \/ DeleteCorrupt(t)
           \/ Fetch(t) \/ FetchFails(t)
           \/ Create(t) \/ Rename(t) \/ WriteFails(t) \/ CacheDecoded(t)

Next == \/ \E t \in Tasks : \/ \E k \in Callable : Call(t, k)
                            \/ Step(t)
                            \/ FinishTmp(t)
        \/ \E p \in Procs : Crash(p)
        \/ \E c \in Chunks : FinishPublished(c) \/ Damage(c)

Spec == Init /\ [][Next]_vars

\* The runtime polls every task that can go on, the inner store answers, a
\* tokio mutex is handed to its waiters in order, and the blocking pool gets
\* to every write.
Fairness ==
    /\ \A t \in Tasks : WF_vars(Step(t)) /\ SF_vars(Acquire(t)) /\ WF_vars(FinishTmp(t))
    /\ \A c \in Chunks : WF_vars(FinishPublished(c))

FairSpec == Spec /\ Fairness
-----------------------------------------------------------------------------

\* Two tasks of one process never load the same chunk at a time: from the
\* recheck under the lock to the return, reading, deleting, fetching and
\* publishing of a chunk belong to one task of ChunkDir's process, whatever
\* locks were dropped and refiled before.
SingleLoader ==
    \A t, u \in Tasks :
        /\ t # u /\ ProcOf[t] = ProcOf[u]
        /\ pc[t] \in Locked /\ pc[u] \in Locked
        => Sha(t) # Sha(u)

\* Whoever waits for or holds the load lock of a chunk has the lock that is
\* filed for it: a lock is replaced only when nobody is left with the old one.
LocksAgree ==
    \A t \in Tasks :
        IF pc[t] \in Locked \cup {"wait"}
        THEN arc[t] # None /\ arc[t] = loading[ProcOf[t]][Sha(t)]
        ELSE arc[t] = None

DecodedRight ==
    \A p \in Procs : \A i \in 1..Len(decoded[p]) :
        decoded[p][i].value = decoded[p][i].key

CarriedRight ==
    \A t \in Tasks :
        pc[t] \in {"create", "rename", "cache"} => got[t] = Sha(t)

\* The decoded cache holds a chunk under its own name only, and a task never
\* carries other bytes out of the disk read or the fetch, whatever torn,
\* rotten or misfiled files and bad answers it met on the way.
OnlyRightBytes == DecodedRight /\ CarriedRight

\* Write-through: what one process holds decoded has a file on disk.  Only
\* for a cache directory of one process that nobody else deletes from: the
\* deletion of a corrupt file must be over before a load is published.
WriteThrough ==
    \A p \in Procs, c \in Chunks : Holds(decoded[p], c) => disk[c] # None

\* A chunk that is held decoded is not being read or fetched again: whoever
\* waited behind its load finds it.
NoRedundantLoad ==
    \A t \in Tasks :
        pc[t] \in {"read", "delete", "fetch"} => ~ Holds(Cache(t), Sha(t))

\* The file a load publishes is whole (cache.rs:338, and :444 in the tests):
\* no file has its chunk's name before its contents are written.
PublishedWhole == \A c \in Chunks : ~ Due(disk[c])

\* Every get and ensure comes back.
EveryCallReturns == \A t \in Tasks : ~ At(t, "idle") ~> At(t, "idle")

Store == INSTANCE ChunkStore

\* The cache is a ChunkStore: get answers with the named bytes or an error.
IsChunkStore == Store!Spec
=============================================================================
