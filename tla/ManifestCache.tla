--------------------------- MODULE ManifestCache ----------------------------
(***************************************************************************)
(* ManifestCache::get_or_fetch and load for one manifest, called by tasks  *)
(* of processes that share the store: the cached file, the temporary file  *)
(* of each process, and the in-flight map.  Keys share nothing but the     *)
(* map, so one key stands for all.                                         *)
(*                                                                         *)
(* A file is "good" when it decodes to the manifest and "bad" when it does *)
(* not: an entry of another format, or one that is cut short.              *)
(***************************************************************************)
EXTENDS Naturals

CONSTANTS Procs, Tasks, ProcOf,
          Locks,   \* tokio mutex allocations
          Faults,  \* what may go wrong
          None

FaultKinds == {"stale",   \* the store starts with an entry of an older format
               "fetch",   \* the fetch fails
               "io",      \* a read or a write fails
               "crash"}   \* a process dies

ASSUME ConstantsAssumption ==
    /\ ProcOf \in [Tasks -> Procs]
    /\ Faults \subseteq FaultKinds
    /\ None \notin Locks \cup {"bad", "good", "tmp", "disk", "unlinked", "err"}

VARIABLES disk,      \* the cached manifest
          tmp,       \* the temporary file of each process
          inFlight,  \* in_flight of each process: the mutex filed for the key
          arc,       \* the mutex a task has taken from the map
          file,      \* where the file is by now that a task is writing
          pc, ret

vars == <<disk, tmp, inFlight, arc, file, pc, ret>>

Bytes == {None, "bad", "good"}

\* The permit is held from the second load to the return.
Locked == {"load2", "remove2", "fetch", "create", "fill", "rename", "unfile"}
PCs == {"idle", "load1", "remove1", "entry", "wait"} \cup Locked

\* The values of the variables; a task has a mutex while it waits for it or
\* holds it, and a file open while it writes it.
TypeOK ==
    /\ disk \in Bytes
    /\ tmp \in [Procs -> Bytes]
    /\ inFlight \in [Procs -> Locks \cup {None}]
    /\ arc \in [Tasks -> Locks \cup {None}]
    /\ file \in [Tasks -> {None, "tmp", "disk", "unlinked"}]
    /\ pc \in [Tasks -> PCs]
    /\ ret \in [Tasks -> {None, "ok", "err"}]
    /\ \A t \in Tasks : /\ arc[t] # None <=> pc[t] \in Locked \cup {"wait"}
                        /\ file[t] # None <=> pc[t] = "fill"

Init ==
    /\ disk \in {None, "good"} \cup IF "stale" \in Faults THEN {"bad"} ELSE {}
    /\ tmp = [p \in Procs |-> None]
    /\ inFlight = [p \in Procs |-> None]
    /\ arc = [t \in Tasks |-> None]
    /\ file = [t \in Tasks |-> None]
    /\ pc = [t \in Tasks |-> "idle"]
    /\ ret = [t \in Tasks |-> None]

-----------------------------------------------------------------------------

At(t, l) == pc[t] = l
Goto(t, l) == pc' = [pc EXCEPT ![t] = l]

\* The call ends, and with it the permit and the Arc.
Return(t, r) ==
    /\ Goto(t, "idle")
    /\ ret' = [ret EXCEPT ![t] = r]
    /\ arc' = [arc EXCEPT ![t] = None]
    /\ file' = [file EXCEPT ![t] = None]

GetOrFetch(t) ==
    /\ At(t, "idle")
    /\ Goto(t, "load1")
    /\ ret' = [ret EXCEPT ![t] = None]
    /\ UNCHANGED <<disk, tmp, inFlight, arc, file>>

\* The caller goes on with the answer he got.
Take(t) ==
    /\ At(t, "idle")
    /\ ret' = [ret EXCEPT ![t] = None]
    /\ UNCHANGED <<disk, tmp, inFlight, arc, file, pc>>

\* Where a load that found nothing goes on: the first takes the lock, the
\* second, under the lock, fetches.
Missed(l) == IF l \in {"load1", "remove1"} THEN "entry" ELSE "fetch"

\* load: read and decode.
LoadHit(t) ==
    /\ pc[t] \in {"load1", "load2"} /\ disk = "good"
    /\ Return(t, "ok")
    /\ UNCHANGED <<disk, tmp, inFlight>>

LoadMiss(t) ==
    /\ pc[t] \in {"load1", "load2"} /\ disk = None
    /\ Goto(t, Missed(pc[t]))
    /\ UNCHANGED <<disk, tmp, inFlight, arc, file, ret>>

LoadBad(t) ==
    /\ pc[t] \in {"load1", "load2"} /\ disk = "bad"
    /\ Goto(t, IF At(t, "load1") THEN "remove1" ELSE "remove2")
    /\ UNCHANGED <<disk, tmp, inFlight, arc, file, ret>>

\* Whoever is writing to the file under the cached name goes on writing to
\* it after the name is gone or names another file.
Unlink(f) == IF f = "disk" THEN "unlinked" ELSE f

\* load: remove what does not decode.  Whatever is there by now goes, and if
\* nothing is, the call fails.
Remove(t) ==
    /\ pc[t] \in {"remove1", "remove2"} /\ disk # None
    /\ disk' = None
    /\ file' = [u \in Tasks |-> Unlink(file[u])]
    /\ Goto(t, Missed(pc[t]))
    /\ UNCHANGED <<tmp, inFlight, arc, ret>>

RemoveFails(t) ==
    /\ pc[t] \in {"remove1", "remove2"}
    /\ disk = None \/ "io" \in Faults
    /\ Return(t, "err")
    /\ UNCHANGED <<disk, tmp, inFlight>>

LoadFails(t) ==
    /\ pc[t] \in {"load1", "load2"} /\ "io" \in Faults
    /\ Return(t, "err")
    /\ UNCHANGED <<disk, tmp, inFlight>>

\* Who called load by itself has his answer, where get_or_fetch goes for its
\* mutex.
LoadOnly(t) ==
    /\ At(t, "entry")
    /\ Return(t, "ok")
    /\ UNCHANGED <<disk, tmp, inFlight>>

\* in_flight.entry(key).or_insert_with(..)
Entry(t) ==
    LET p == ProcOf[t]
    IN  /\ At(t, "entry")
        /\ \/ /\ inFlight[p] # None
              /\ arc' = [arc EXCEPT ![t] = inFlight[p]]
              /\ UNCHANGED inFlight
           \/ /\ inFlight[p] = None
              /\ \E l \in Locks :
                    /\ \A q \in Procs : inFlight[q] # l
                    /\ \A u \in Tasks : arc[u] # l
                    /\ inFlight' = [inFlight EXCEPT ![p] = l]
                    /\ arc' = [arc EXCEPT ![t] = l]
        /\ Goto(t, "wait")
        /\ UNCHANGED <<disk, tmp, file, ret>>

\* Mutant: the cached file is not loaded again under the lock.
AcquireNoReload(t) ==
    /\ At(t, "wait")
    /\ ~ \E u \in Tasks : arc[u] = arc[t] /\ pc[u] \in Locked
    /\ Goto(t, "fetch")
    /\ UNCHANGED <<disk, tmp, inFlight, arc, file, ret>>

Acquire(t) ==
    /\ At(t, "wait")
    /\ ~ \E u \in Tasks : arc[u] = arc[t] /\ pc[u] \in Locked
    /\ Goto(t, "load2")
    /\ UNCHANGED <<disk, tmp, inFlight, arc, file, ret>>

\* Mutant: the mutex leaves the map before the manifest is saved.
FetchThenUnfile(t) ==
    /\ At(t, "fetch")
    /\ inFlight' = [inFlight EXCEPT ![ProcOf[t]] = None]
    /\ Goto(t, "create")
    /\ UNCHANGED <<disk, tmp, arc, file, ret>>

Fetch(t) ==
    /\ At(t, "fetch")
    /\ Goto(t, "create")
    /\ UNCHANGED <<disk, tmp, inFlight, arc, file, ret>>

FetchFails(t) ==
    /\ At(t, "fetch") /\ "fetch" \in Faults
    /\ Return(t, "err")
    /\ UNCHANGED <<disk, tmp, inFlight>>

\* The temporary file's name has the pid in it and nothing else of the save.
TmpOf(t) == ProcOf[t]

\* save: fs::write opens the temporary file of the process, truncating it,
\* and then writes through its handle, wherever the file is by then.
Create(t) ==
    /\ At(t, "create")
    /\ tmp' = [tmp EXCEPT ![TmpOf(t)] = "bad"]
    /\ file' = [file EXCEPT ![t] = "tmp"]
    /\ Goto(t, "fill")
    /\ UNCHANGED <<disk, inFlight, arc, ret>>

Fill(t) ==
    /\ At(t, "fill")
    /\ tmp' = IF file[t] = "tmp" THEN [tmp EXCEPT ![TmpOf(t)] = "good"] ELSE tmp
    /\ disk' = IF file[t] = "disk" THEN "good" ELSE disk
    /\ file' = [file EXCEPT ![t] = None]
    /\ Goto(t, "rename")
    /\ UNCHANGED <<inFlight, arc, ret>>

\* save: rename the temporary file over the cached one.
Rename(t) ==
    LET p == TmpOf(t)
    IN  /\ At(t, "rename") /\ tmp[p] # None
        /\ disk' = tmp[p]
        /\ tmp' = [tmp EXCEPT ![p] = None]
        /\ file' = [u \in Tasks |-> IF TmpOf(u) = p /\ file[u] = "tmp" THEN "disk"
                                    ELSE Unlink(file[u])]
        /\ Goto(t, "unfile")
        /\ UNCHANGED <<inFlight, arc, ret>>

\* save fails; the rename also when another task has taken the temporary.
SaveFails(t) ==
    /\ \/ pc[t] \in {"create", "fill", "rename"} /\ "io" \in Faults
       \/ At(t, "rename") /\ tmp[TmpOf(t)] = None
    /\ Return(t, "err")
    /\ UNCHANGED <<disk, tmp, inFlight>>

\* in_flight.remove(&key), whichever mutex is filed by now.
Unfile(t) ==
    /\ At(t, "unfile")
    /\ inFlight' = [inFlight EXCEPT ![ProcOf[t]] = None]
    /\ Return(t, "ok")
    /\ UNCHANGED <<disk, tmp>>

-----------------------------------------------------------------------------

\* A process dies and starts again under another pid: its temporary file is
\* left behind for good.
Crash(p) ==
    LET Reset(f, v) == [t \in Tasks |-> IF ProcOf[t] = p THEN v ELSE f[t]]
    IN  /\ "crash" \in Faults
        /\ tmp' = [tmp EXCEPT ![p] = None]
        /\ inFlight' = [inFlight EXCEPT ![p] = None]
        /\ arc' = Reset(arc, None)
        /\ file' = Reset(file, None)
        /\ pc' = Reset(pc, "idle")
        /\ ret' = Reset(ret, None)
        /\ UNCHANGED disk

Step(t) == \/ LoadHit(t) \/ LoadMiss(t) \/ LoadBad(t) \/ LoadFails(t)
           \/ Remove(t) \/ RemoveFails(t)
           \/ LoadOnly(t)
           \/ Entry(t) \/ Acquire(t)
           \/ Fetch(t) \/ FetchFails(t)
           \/ Create(t) \/ Fill(t) \/ Rename(t) \/ SaveFails(t) \/ Unfile(t)

Next == \/ \E t \in Tasks : GetOrFetch(t) \/ Take(t) \/ Step(t)
        \/ \E p \in Procs : Crash(p)

Spec == Init /\ [][Next]_vars

-----------------------------------------------------------------------------

\* What a process does between the fetch and the end of its save.
Fetching == {"fetch", "create", "fill", "rename"}

\* The tasks of one process share a fetch (manifest_cache.rs:53): no two of
\* them fetch and save the same manifest at a time.
SharedFetch ==
    \A t, u \in Tasks :
        t # u /\ ProcOf[t] = ProcOf[u]
            => ~ (pc[t] \in Fetching /\ pc[u] \in Fetching)

\* A manifest that is on disk is not fetched again: the second load, under
\* the lock, sees what was saved while the caller waited.
NoFetchOfSaved == \A t \in Tasks : pc[t] \in Fetching => disk = None

\* The write-then-rename publishes whole manifests, so that no reader ever
\* takes a file under construction for a stale one and removes it.
PublishedDecodes == disk # "bad"

\* An entry that does not decode is removed and fetched again
\* (manifest_cache.rs:89): it fails no call while the disk and the fetch work.
BadEntryFailsNoCall == \A t \in Tasks : ret[t] # "err"

=============================================================================
