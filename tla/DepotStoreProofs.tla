-------------------------- MODULE DepotStoreProofs --------------------------
(***************************************************************************)
(* Proofs about ManifestCache and DepotStore for any number of processes,  *)
(* tasks, chunks and mutexes, whatever fails and whichever processes die.  *)
(* Where there is one process, a theorem says so.                          *)
(*                                                                         *)
(* First ManifestCache, over a store that holds no entry of an older       *)
(* format.  With one the first two theorems are false: three tasks are     *)
(* enough.                                                                 *)
(***************************************************************************)
EXTENDS DepotStore, TLAPS

Clean == "stale" \notin Faults

\* From the fetch to the end of the call.
Saving == Fetching \cup {"unfile"}

\* Nothing is ever removed, because nothing undecodable is ever published.
DiskClean ==
    /\ disk \in {None, "good"}
    /\ \A t \in Tasks : pc[t] \notin {"remove1", "remove2"}

\* The holders of one mutex exclude each other.
Mutex ==
    \A t, u \in Tasks :
        t # u /\ pc[t] \in Locked /\ pc[u] \in Locked => arc[t] # arc[u]

\* Who waits for or holds another mutex than the one filed finds the
\* manifest saved; who fetches holds the one that is filed.
Filed ==
    \A t \in Tasks :
        /\ pc[t] \in Locked \cup {"wait"} => disk = "good" \/ arc[t] = inFlight[ProcOf[t]]
        /\ pc[t] \in Saving => arc[t] = inFlight[ProcOf[t]]

\* The temporary file is written through its own name, and whole when it is
\* renamed over the cached one.
TmpWritten ==
    \A t \in Tasks :
        /\ pc[t] = "fill" => file[t] = "tmp"
        /\ pc[t] = "rename" => tmp[ProcOf[t]] = "good"
        /\ pc[t] = "unfile" => disk = "good"

CleanInv == TypeOK /\ DiskClean /\ Mutex /\ Filed /\ TmpWritten

LEMMA CleanInvInit == Init /\ disk # "bad" => CleanInv
  BY ConstantsAssumption
  DEF Init, CleanInv, TypeOK, DiskClean, Mutex, Filed, TmpWritten, Bytes, PCs, Locked,
      Saving, Fetching

\* One task of a process at most is between its fetch and its return.
LEMMA OneSaver ==
    ASSUME CleanInv, NEW t \in Tasks, NEW u \in Tasks, t # u, ProcOf[t] = ProcOf[u],
           pc[t] \in Saving
    PROVE  pc[u] \notin Saving
  BY DEF CleanInv, Mutex, Filed, Saving, Fetching, Locked

LEMMA CleanInvStep == CleanInv /\ [Next]_vars => CleanInv'
<1> SUFFICES ASSUME CleanInv, [Next]_vars PROVE CleanInv'
  OBVIOUS
<1> USE ConstantsAssumption
<1> USE DEF CleanInv, TypeOK, DiskClean, Mutex, Filed, TmpWritten, Bytes, PCs, Locked, Saving,
            Fetching, At, Goto
<1>1. ASSUME NEW t \in Tasks, GetOrFetch(t) PROVE CleanInv'
  BY <1>1 DEF GetOrFetch
<1>2. ASSUME NEW t \in Tasks, LoadHit(t) PROVE CleanInv'
  BY <1>2 DEF LoadHit, Return
<1>3. ASSUME NEW t \in Tasks, LoadMiss(t) PROVE CleanInv'
  BY <1>3 DEF LoadMiss, Missed
<1>4. ASSUME NEW t \in Tasks, LoadBad(t) PROVE CleanInv'
  BY <1>4 DEF LoadBad
<1>5. ASSUME NEW t \in Tasks, LoadFails(t) PROVE CleanInv'
  BY <1>5 DEF LoadFails, Return
<1>6. ASSUME NEW t \in Tasks, Remove(t) PROVE CleanInv'
  BY <1>6 DEF Remove, Missed, Unlink
<1>7. ASSUME NEW t \in Tasks, RemoveFails(t) PROVE CleanInv'
  BY <1>7 DEF RemoveFails, Return
<1>8. ASSUME NEW t \in Tasks, Entry(t) PROVE CleanInv'
  BY <1>8 DEF Entry
<1>9. ASSUME NEW t \in Tasks, Acquire(t) PROVE CleanInv'
  BY <1>9 DEF Acquire
<1>10. ASSUME NEW t \in Tasks, Fetch(t) PROVE CleanInv'
  BY <1>10 DEF Fetch
<1>11. ASSUME NEW t \in Tasks, FetchFails(t) PROVE CleanInv'
  BY <1>11 DEF FetchFails, Return
<1>12. ASSUME NEW t \in Tasks, Create(t) PROVE CleanInv'
  <2>1. \A u \in Tasks : u # t /\ ProcOf[u] = ProcOf[t] => pc[u] \notin Saving
    BY <1>12, OneSaver DEF Create, TmpOf
  <2>2. TypeOK' /\ DiskClean'
    BY <1>12 DEF Create, TmpOf
  <2>3. Mutex'
    BY <1>12 DEF Create, TmpOf
  <2>4. Filed'
    BY <1>12, <2>1 DEF Create, TmpOf
  <2>5. TmpWritten'
    BY <1>12, <2>1 DEF Create, TmpOf
  <2> QED
    BY <2>2, <2>3, <2>4, <2>5
<1>13. ASSUME NEW t \in Tasks, Fill(t) PROVE CleanInv'
  BY <1>13 DEF Fill, TmpOf
<1>14. ASSUME NEW t \in Tasks, Rename(t) PROVE CleanInv'
  <2>1. \A u \in Tasks : u # t /\ ProcOf[u] = ProcOf[t] => pc[u] \notin Saving
    BY <1>14, OneSaver DEF Rename, TmpOf, Unlink
  <2>2. TypeOK' /\ DiskClean'
    BY <1>14 DEF Rename, TmpOf, Unlink
  <2>3. Mutex'
    BY <1>14 DEF Rename, TmpOf, Unlink
  <2>4. Filed'
    BY <1>14, <2>1 DEF Rename, TmpOf, Unlink
  <2>5. TmpWritten'
    BY <1>14, <2>1 DEF Rename, TmpOf, Unlink
  <2> QED
    BY <2>2, <2>3, <2>4, <2>5
<1>15. ASSUME NEW t \in Tasks, SaveFails(t) PROVE CleanInv'
  BY <1>15 DEF SaveFails, Return, TmpOf
<1>16. ASSUME NEW t \in Tasks, Unfile(t) PROVE CleanInv'
  <2>1. \A u \in Tasks : u # t /\ ProcOf[u] = ProcOf[t] => pc[u] \notin Saving
    BY <1>16, OneSaver DEF Unfile, Return
  <2>2. TypeOK' /\ DiskClean'
    BY <1>16 DEF Unfile, Return
  <2>3. Mutex'
    BY <1>16 DEF Unfile, Return
  <2>4. Filed'
    BY <1>16, <2>1 DEF Unfile, Return
  <2>5. TmpWritten'
    BY <1>16, <2>1 DEF Unfile, Return
  <2> QED
    BY <2>2, <2>3, <2>4, <2>5
<1>17. ASSUME NEW t \in Tasks, LoadOnly(t) PROVE CleanInv'
  BY <1>17 DEF LoadOnly, Return
<1>18. ASSUME NEW t \in Tasks, Take(t) PROVE CleanInv'
  BY <1>18 DEF Take
<1>19. ASSUME NEW p \in Procs, Crash(p) PROVE CleanInv'
  BY <1>19 DEF Crash
<1>20. CASE UNCHANGED vars
  BY <1>20 DEF vars
<1> QED
  BY <1>1, <1>2, <1>3, <1>4, <1>5, <1>6, <1>7, <1>8, <1>9, <1>10, <1>11, <1>12, <1>13,
     <1>14, <1>15, <1>16, <1>17, <1>18, <1>19, <1>20 DEF Next, Step

LEMMA CleanInvAlways == ASSUME Clean PROVE Spec => []CleanInv
<1>1. Init => disk # "bad"
  BY ConstantsAssumption DEF Clean, Init
<1> QED
  BY <1>1, CleanInvInit, CleanInvStep, PTL DEF Spec

\* Over a store without entries of an older format, the tasks of a process
\* share a fetch, and what is published decodes, whatever fetches, reads and
\* writes fail and whichever processes die.
THEOREM CleanStoreSharesFetches ==
    ASSUME Clean
    PROVE  Spec => [](TypeOK /\ SharedFetch /\ PublishedDecodes)
<1>1. CleanInv => SharedFetch
  BY OneSaver DEF SharedFetch, Saving
<1>2. CleanInv => PublishedDecodes
  BY ConstantsAssumption DEF CleanInv, DiskClean, PublishedDecodes
<1>3. CleanInv => TypeOK
  BY DEF CleanInv
<1> QED
  BY <1>1, <1>2, <1>3, CleanInvAlways, PTL

LEMMA NoFetchOfSavedStep ==
    ASSUME \A p, q \in Procs : p = q
    PROVE  CleanInv /\ NoFetchOfSaved /\ [Next]_vars => NoFetchOfSaved'
<1> SUFFICES ASSUME CleanInv, NoFetchOfSaved, [Next]_vars PROVE NoFetchOfSaved'
  OBVIOUS
<1> USE DEF NoFetchOfSaved, Fetching, At, Goto
<1>1. ASSUME NEW t \in Tasks, LoadMiss(t) PROVE NoFetchOfSaved'
  BY <1>1 DEF LoadMiss, Missed, CleanInv, TypeOK
<1>2. ASSUME NEW t \in Tasks, LoadBad(t) \/ Remove(t) PROVE NoFetchOfSaved'
  BY <1>2, ConstantsAssumption DEF LoadBad, Remove, CleanInv, DiskClean
<1>3. ASSUME NEW t \in Tasks, Fill(t) PROVE NoFetchOfSaved'
  BY <1>3 DEF Fill, CleanInv, TypeOK, TmpWritten
<1>4. ASSUME NEW t \in Tasks, Rename(t) PROVE NoFetchOfSaved'
  <2>1. \A u \in Tasks \ {t} : pc[u] \notin Saving
    BY <1>4, OneSaver, ConstantsAssumption DEF Rename, Saving
  <2> QED
    BY <1>4, <2>1 DEF Rename, Saving, CleanInv, TypeOK
<1>5. ASSUME NEW t \in Tasks,
             \/ LoadHit(t) \/ LoadFails(t) \/ RemoveFails(t) \/ LoadOnly(t)
             \/ FetchFails(t) \/ SaveFails(t) \/ Unfile(t)
      PROVE  NoFetchOfSaved'
  BY <1>5 DEF LoadHit, LoadFails, RemoveFails, LoadOnly, FetchFails, SaveFails, Unfile, Return,
              CleanInv, TypeOK
<1>6. ASSUME NEW t \in Tasks,
             GetOrFetch(t) \/ Take(t) \/ Entry(t) \/ Acquire(t) \/ Fetch(t) \/ Create(t)
      PROVE  NoFetchOfSaved'
  BY <1>6 DEF GetOrFetch, Take, Entry, Acquire, Fetch, Create, CleanInv, TypeOK
<1>7. ASSUME NEW p \in Procs, Crash(p) PROVE NoFetchOfSaved'
  BY <1>7 DEF Crash
<1>8. CASE UNCHANGED vars
  BY <1>8 DEF vars
<1> QED
  BY <1>1, <1>2, <1>3, <1>4, <1>5, <1>6, <1>7, <1>8 DEF Next, Step

\* One process over a store without entries of an older format fetches no
\* manifest that it could read.
THEOREM CleanStoreFetchesOnce ==
    ASSUME Clean, \A p, q \in Procs : p = q
    PROVE  Spec => []NoFetchOfSaved
<1>1. Init => NoFetchOfSaved
  BY DEF Init, NoFetchOfSaved, Fetching
<1> QED
  BY <1>1, CleanInvAlways, NoFetchOfSavedStep, PTL DEF Spec

-----------------------------------------------------------------------------
(* A store with an entry of an older format, and one task. *)

\* Whoever removes an entry finds it there, and the temporary file he renames
\* is his own: nobody takes either away meanwhile.
AloneInv ==
    /\ TypeOK
    /\ \A t \in Tasks :
          /\ pc[t] \in {"remove1", "remove2"} => disk # None
          /\ pc[t] = "fill" => file[t] = "tmp"
          /\ pc[t] = "rename" => tmp[TmpOf(t)] # None
          /\ ret[t] # "err"

LEMMA AloneInvStep ==
    ASSUME Faults \subseteq {"stale", "crash"}, \A t, u \in Tasks : t = u
    PROVE  AloneInv /\ [Next]_vars => AloneInv'
<1> SUFFICES ASSUME AloneInv, [Next]_vars PROVE AloneInv'
  OBVIOUS
<1> USE ConstantsAssumption
<1> USE DEF AloneInv, TypeOK, Bytes, PCs, Locked, At, Goto
<1>1. ASSUME NEW t \in Tasks, LoadFails(t) \/ FetchFails(t) \/ RemoveFails(t) \/ SaveFails(t)
      PROVE  FALSE
  BY <1>1 DEF LoadFails, FetchFails, RemoveFails, SaveFails
<1>2. ASSUME NEW t \in Tasks, LoadHit(t) \/ LoadOnly(t) \/ Unfile(t) PROVE AloneInv'
  BY <1>2 DEF LoadHit, LoadOnly, Unfile, Return, TmpOf
<1>3. ASSUME NEW t \in Tasks, LoadMiss(t) \/ LoadBad(t) PROVE AloneInv'
  BY <1>3 DEF LoadMiss, LoadBad, Missed, TmpOf
<1>4. ASSUME NEW t \in Tasks, Remove(t) PROVE AloneInv'
  BY <1>4 DEF Remove, Missed, Unlink, TmpOf
<1>5. ASSUME NEW t \in Tasks, Entry(t) PROVE AloneInv'
  BY <1>5 DEF Entry, TmpOf
<1>6. ASSUME NEW t \in Tasks, GetOrFetch(t) \/ Take(t) \/ Acquire(t) \/ Fetch(t) PROVE AloneInv'
  BY <1>6 DEF GetOrFetch, Take, Acquire, Fetch, TmpOf
<1>7. ASSUME NEW t \in Tasks, Create(t) PROVE AloneInv'
  BY <1>7 DEF Create, TmpOf
<1>8. ASSUME NEW t \in Tasks, Fill(t) PROVE AloneInv'
  BY <1>8 DEF Fill, TmpOf
<1>9. ASSUME NEW t \in Tasks, Rename(t) PROVE AloneInv'
  BY <1>9 DEF Rename, Unlink, TmpOf
<1>10. ASSUME NEW p \in Procs, Crash(p) PROVE AloneInv'
  BY <1>10 DEF Crash, TmpOf
<1>11. CASE UNCHANGED vars
  BY <1>11 DEF vars, TmpOf
<1> QED
  BY <1>1, <1>2, <1>3, <1>4, <1>5, <1>6, <1>7, <1>8, <1>9, <1>10, <1>11 DEF Next, Step

\* To a task that is alone with its store a stale entry does no harm: while
\* the disk and the fetches work it is removed and the manifest fetched, and
\* no call fails, also after a death at any point of the removal or the save.
\* A second task is enough for a call to fail: what both have found bad can be
\* removed once (manifest_cache.rs:98).
THEOREM AloneItIsFetchedAgain ==
    ASSUME Faults \subseteq {"stale", "crash"}, \A t, u \in Tasks : t = u
    PROVE  Spec => []BadEntryFailsNoCall
<1>1. Init => AloneInv
  BY ConstantsAssumption DEF Init, AloneInv, TypeOK, Bytes, PCs, Locked
<1>2. AloneInv => BadEntryFailsNoCall
  BY DEF AloneInv, BadEntryFailsNoCall
<1> QED
  BY <1>1, <1>2, AloneInvStep, PTL DEF Spec

-----------------------------------------------------------------------------
(* The store as a whole. *)

\* Every step of the store is one of its manifest cache, or none.
LEMMA StoreStepIsACacheStep == [StoreNext]_storeVars => [Next]_vars
<1> SUFFICES ASSUME [StoreNext]_storeVars PROVE [Next]_vars
  OBVIOUS
<1>1. ASSUME NEW t \in Tasks, OpenDepotManifest(t) \/ LoadCachedManifest(t) PROVE Next
  BY <1>1 DEF OpenDepotManifest, LoadCachedManifest, Next
<1>2. ASSUME NEW t \in Tasks, NEW c \in Chunks, GetChunk(t, c) PROVE Next
  BY <1>2 DEF GetChunk, Next
<1>3. ASSUME NEW t \in Tasks, Cached(t) \/ NotCached(t) \/ CacheFails(t) PROVE Next
  BY <1>3 DEF Cached, NotCached, CacheFails, Next, Step
<1>4. ASSUME NEW t \in Tasks, FetchManifest(t) \/ OnlineFails(t) PROVE Next \/ UNCHANGED vars
  BY <1>4 DEF FetchManifest, OnlineFails, ChunkEnds, Next, Step
<1>5. ASSUME NEW t \in Tasks,
             \/ ChunkHit(t) \/ ChunkMiss(t) \/ Resolve(t) \/ Login(t) \/ LoggedIn(t)
             \/ HasKey(t) \/ AskKey(t) \/ GotKey(t) \/ FetchChunk(t) \/ ChunkNotFiled(t)
             \/ ChunkUnread(t)
      PROVE  UNCHANGED vars
  BY <1>5 DEF ChunkHit, ChunkMiss, ChunkUnread, Miss, Resolve, Login, LoggedIn, HasKey, AskKey,
              GotKey, FetchChunk, ChunkNotFiled, ChunkEnds, Goes
<1>6. ASSUME NEW p \in Procs, Restart(p) PROVE Next
  BY <1>6 DEF Restart, Next
<1>7. ASSUME NEW c \in Chunks, Prune(c) PROVE UNCHANGED vars
  BY <1>7 DEF Prune
<1>8. CASE UNCHANGED storeVars
  BY <1>8 DEF storeVars
<1> QED
  BY <1>1, <1>2, <1>3, <1>4, <1>5, <1>6, <1>7, <1>8 DEF StoreNext, Advance

\* The manifest cache behind DepotStore behaves as the manifest cache does:
\* what is proved of every behaviour of ManifestCache holds of the store.
THEOREM ImplementsManifestCache == StoreSpec => Spec
<1>1. StoreInit => Init
  BY DEF StoreInit
<1> QED
  BY <1>1, StoreStepIsACacheStep, PTL DEF StoreSpec, Spec

-----------------------------------------------------------------------------

\* What the manifest cache keeps up in a store that had no entry of an older
\* format.
FreshInv == fresh => CleanInv /\ NoFetchOfSaved

\* One process over a store without an entry of an older format fetches a
\* manifest once: its tasks share the fetch and what is saved is not
\* fetched again.
THEOREM ManifestIsFetchedOnce ==
    ASSUME \A p, q \in Procs : p = q
    PROVE  StoreSpec => []FetchedOnce
<1>1. StoreInit => FreshInv
  BY CleanInvInit DEF StoreInit, FreshInv, Init, NoFetchOfSaved, Fetching
<1>2. FreshInv /\ [StoreNext]_storeVars => FreshInv'
  <2> SUFFICES ASSUME FreshInv, [StoreNext]_storeVars PROVE FreshInv'
    OBVIOUS
  <2>1. fresh' = fresh
    BY DEF StoreNext, storeVars
  <2> QED
    BY <2>1, StoreStepIsACacheStep, CleanInvStep, NoFetchOfSavedStep DEF FreshInv
<1>3. FreshInv => FetchedOnce
  BY OneSaver DEF FreshInv, FetchedOnce, SharedFetch, Saving
<1> QED
  BY <1>1, <1>2, <1>3, PTL DEF StoreSpec

-----------------------------------------------------------------------------

\* In a store without an entry of an older format what gets the cached name
\* is whole, for any number of processes and tasks: those of one process,
\* which share a temporary file, are kept apart by the mutex that is filed.
THEOREM PublishedManifestsAreWhole == StoreSpec => []OnlyWholeManifests
<1> DEFINE Inv == fresh => CleanInv
<1>1. StoreInit => Inv
  BY CleanInvInit DEF StoreInit
<1>2. Inv /\ [StoreNext]_storeVars => Inv'
  <2> SUFFICES ASSUME Inv, [StoreNext]_storeVars PROVE Inv'
    OBVIOUS
  <2>1. fresh' = fresh
    BY DEF StoreNext, storeVars
  <2> QED
    BY <2>1, StoreStepIsACacheStep, CleanInvStep
<1>3. Inv => OnlyWholeManifests
  BY ConstantsAssumption DEF CleanInv, DiskClean, OnlyWholeManifests, PublishedDecodes
<1> QED
  BY <1>1, <1>2, <1>3, PTL DEF StoreSpec

-----------------------------------------------------------------------------

\* The types of where the calls are.
CallTypes ==
    /\ pc \in [Tasks -> PCs]
    /\ at \in [Tasks -> Online \cup {"lock", None}]
    /\ call \in [Tasks -> Chunks \cup {None, "open", "cached"}]

\* The read of a chunk leaves the manifest cache alone, and what goes online
\* from inside the cache is an open at its fetch.
CallsAgree ==
    \A t \in Tasks :
        /\ pc[t] # "idle" => call[t] \in {"open", "cached"}
        /\ pc[t] \in Locked \cup {"wait"} => call[t] = "open"
        /\ at[t] = "lock" => call[t] \in Chunks
        /\ at[t] \in Online /\ call[t] \notin Chunks => pc[t] = "fetch"

\* One task of the process is online for a chunk, and the chunk is missing or
\* that task could not read it.
ChunksAreMissing ==
    \A t \in Tasks :
        at[t] \in Online /\ call[t] \in Chunks
            => /\ call[t] \notin stored \/ t \in unread
               /\ \A u \in Tasks : u # t /\ at[u] \in Online => call[u] # call[t]

CallInv == CallTypes /\ CallsAgree /\ ChunksAreMissing

LEMMA CallInvStep ==
    ASSUME \A p, q \in Procs : p = q
    PROVE  CallInv /\ [StoreNext]_storeVars => CallInv'
<1> SUFFICES ASSUME CallInv, [StoreNext]_storeVars PROVE CallInv'
  OBVIOUS
<1> USE ConstantsAssumption, StoreAssumption
<1> USE DEF CallInv, CallTypes, CallsAgree, ChunksAreMissing, PCs, Locked, Online, At, Goto, Await
<1>1. ASSUME NEW t \in Tasks, OpenDepotManifest(t) \/ LoadCachedManifest(t) PROVE CallInv'
  BY <1>1 DEF OpenDepotManifest, LoadCachedManifest, GetOrFetch, Begin, Busy
<1>2. ASSUME NEW t \in Tasks, NEW c \in Chunks, GetChunk(t, c) PROVE CallInv'
  BY <1>2 DEF GetChunk, Take, Begin, Busy
<1>3. ASSUME NEW t \in Tasks, Cached(t) PROVE CallInv'
  <2> DEFINE GoesTo(l) == /\ pc' = [pc EXCEPT ![t] = l]
                          /\ l \in Locked \cup {"wait"} => call[t] = "open"
  <2>1. CASE LoadHit(t) \/ Unfile(t)
    <3>1. pc[t] # "idle" /\ GoesTo("idle")
      BY <2>1 DEF LoadHit, Unfile, Return
    <3> QED
      BY <1>3, <3>1 DEF Cached, MayEnd
  <2>2. CASE LoadMiss(t) \/ LoadBad(t) \/ Remove(t)
    <3>1. \E l \in {"entry", "fetch", "remove1", "remove2"} : GoesTo(l)
      BY <2>2 DEF LoadMiss, LoadBad, Remove, Missed
    <3>2. pc[t] # "idle"
      BY <2>2 DEF LoadMiss, LoadBad, Remove
    <3> QED
      BY <1>3, <3>1, <3>2 DEF Cached, MayEnd
  <2>3. CASE call[t] = "open" /\ Entry(t)
    BY <1>3, <2>3 DEF Cached, MayEnd, Entry
  <2>4. CASE Acquire(t) \/ Create(t) \/ Fill(t) \/ Rename(t)
    <3>1. pc[t] # "idle" /\ \E l \in {"load2", "fill", "rename", "unfile"} : GoesTo(l)
      BY <2>4 DEF Acquire, Create, Fill, Rename
    <3> QED
      BY <1>3, <3>1 DEF Cached, MayEnd
  <2> QED
    BY <1>3, <2>1, <2>2, <2>3, <2>4 DEF Cached
<1>4. ASSUME NEW t \in Tasks, NotCached(t) \/ CacheFails(t) PROVE CallInv'
  <2>1. pc[t] # "idle" /\ pc' = [pc EXCEPT ![t] = "idle"]
    BY <1>4 DEF NotCached, CacheFails, LoadOnly, LoadFails, RemoveFails, SaveFails, Return
  <2> QED
    BY <1>4, <2>1 DEF NotCached, CacheFails, MayEnd
<1>5. ASSUME NEW t \in Tasks, ChunkHit(t) PROVE CallInv'
  BY <1>5 DEF ChunkHit, ChunkEnds, vars
<1>6. ASSUME NEW t \in Tasks, ChunkMiss(t) \/ ChunkUnread(t) PROVE CallInv'
  BY <1>6 DEF ChunkMiss, ChunkUnread, Miss, BeingLoaded, vars
<1>7. ASSUME NEW t \in Tasks,
             Resolve(t) \/ Login(t) \/ LoggedIn(t) \/ HasKey(t) \/ AskKey(t) \/ GotKey(t)
      PROVE  CallInv'
  BY <1>7 DEF Resolve, Login, LoggedIn, HasKey, AskKey, GotKey, Goes, vars, callVars
<1>8. ASSUME NEW t \in Tasks, FetchManifest(t) PROVE CallInv'
  BY <1>8 DEF FetchManifest, Fetch, callVars
<1>9. ASSUME NEW t \in Tasks, FetchChunk(t) \/ ChunkNotFiled(t) PROVE CallInv'
  BY <1>9 DEF FetchChunk, ChunkNotFiled, ChunkEnds, vars
<1>10. ASSUME NEW t \in Tasks, OnlineFails(t) PROVE CallInv'
  BY <1>10 DEF OnlineFails, FetchFails, Return, MayEnd, ChunkEnds, vars
<1>11. ASSUME NEW p \in Procs, Restart(p) PROVE CallInv'
  BY <1>11 DEF Restart, Crash
<1>12. ASSUME NEW c \in Chunks, Prune(c) PROVE CallInv'
  BY <1>12 DEF Prune, vars, callVars
<1>13. CASE UNCHANGED storeVars
  BY <1>13 DEF storeVars, vars, callVars
<1> QED
  BY <1>1, <1>2, <1>3, <1>4, <1>5, <1>6, <1>7, <1>8, <1>9, <1>10, <1>11, <1>12, <1>13
  DEF StoreNext, Advance

\* One process goes online only for a chunk, or in a store without an entry
\* of an older format for a manifest, that is missing at that time, although
\* it looked some awaits ago; or for a chunk whose file the very call could
\* not read.
THEOREM OnlineForWhatIsMissing ==
    ASSUME \A p, q \in Procs : p = q
    PROVE  StoreSpec => []HitsStayOffline
<1>1. StoreInit => CallInv
  BY ConstantsAssumption, StoreAssumption
  DEF StoreInit, Init, CallInv, CallTypes, CallsAgree, ChunksAreMissing, PCs, Locked, Online
<1>2. StoreSpec => []CallInv
  BY <1>1, CallInvStep, PTL DEF StoreSpec
<1>3. CallInv /\ FetchedOnce => HitsStayOffline
  BY DEF CallInv, CallsAgree, ChunksAreMissing, FetchedOnce, NoFetchOfSaved, Fetching,
         HitsStayOffline
<1> QED
  BY <1>2, <1>3, ManifestIsFetchedOnce, PTL
=============================================================================
