----------------------------- MODULE DepotStore -----------------------------
(***************************************************************************)
(* DepotStore: the manifest cache, the depot key, the session with Steam   *)
(* and the CDN chunk store behind the chunk cache, for one depot, one      *)
(* manifest and its chunks.  The steps of the manifest cache are those of    *)
(* ManifestCache; its fetch is taken apart into what the closure of        *)
(* get_manifest awaits.  Of the chunk cache there is what ChunkCache       *)
(* shows of it: a stored chunk is a hit, and one task of a process loads.  *)
(***************************************************************************)
EXTENDS ManifestCache

CONSTANTS Chunks,   \* those of the manifest
          Callers   \* a bound: the tasks that make calls, in a store that
                    \* starts with a manifest of an older format (FALSE) or not

ASSUME StoreAssumption ==
    /\ None \notin {"auth", "login", "key", "ask", "fetch", "lock"}
    /\ Chunks \cap {None, "open", "cached"} = {}
    /\ Callers \in [BOOLEAN -> SUBSET Tasks]

VARIABLES session,    \* does the process have a session: Auth's OnceCell
          depotKey,   \* does it have the depot key: LazyDepotKey's OnceCell
          opened,     \* has an open succeeded: chunks can be read
          at,         \* what a task awaits inside a fetch, or "lock"
          call,       \* the call a task is in
          stored,     \* the chunks on disk
          unread,     \* the tasks that could not read the chunk's file in this call
          fresh       \* did the store start without a manifest of an older format?

onlineVars == <<session, depotKey>>
callVars == <<call, opened, unread>>
storeVars == <<vars, onlineVars, at, callVars, stored, fresh>>

\* Where a fetch is, in the order of its awaits.
Online == {"auth", "login", "key", "ask", "fetch"}

StoreTypeOK ==
    /\ TypeOK
    /\ session \in [Procs -> BOOLEAN]
    /\ depotKey \in [Procs -> BOOLEAN]
    /\ opened \in [Procs -> BOOLEAN]
    /\ at \in [Tasks -> Online \cup {"lock", None}]
    /\ call \in [Tasks -> Chunks \cup {None, "open", "cached"}]
    /\ stored \subseteq Chunks
    /\ unread \subseteq Tasks
    /\ fresh \in BOOLEAN

StoreInit ==
    /\ Init
    /\ session = [p \in Procs |-> FALSE]
    /\ depotKey = [p \in Procs |-> FALSE]
    /\ opened = [p \in Procs |-> FALSE]
    /\ at = [t \in Tasks |-> None]
    /\ call = [t \in Tasks |-> None]
    /\ stored \in SUBSET Chunks
    /\ unread = {}
    /\ fresh = (disk # "bad")

Await(t, l) == at' = [at EXCEPT ![t] = l]

\* Another task of t's process is there.
Another(t, l) == \E u \in Tasks : u # t /\ ProcOf[u] = ProcOf[t] /\ at[u] = l

Busy(t) == ~ At(t, "idle") \/ at[t] # None

-----------------------------------------------------------------------------

Begin(t, c) ==
    /\ ~ Busy(t) /\ t \in Callers[fresh]
    /\ call' = [call EXCEPT ![t] = c]
    /\ UNCHANGED <<onlineVars, opened, stored, unread>>

\* A call ends with this step, or goes on.
MayEnd(t) ==
    LET ends == pc'[t] = "idle" /\ at'[t] = None
    IN  /\ call' = IF ends THEN [call EXCEPT ![t] = None] ELSE call
        /\ opened' = [opened EXCEPT ![ProcOf[t]] =
                        @ \/ (ends /\ call[t] = "open" /\ ret'[t] = "ok")]
        /\ UNCHANGED unread

OpenDepotManifest(t) == GetOrFetch(t) /\ Begin(t, "open") /\ UNCHANGED at

LoadCachedManifest(t) == GetOrFetch(t) /\ Begin(t, "cached") /\ UNCHANGED at

\* A chunk of the manifest is read through a store that an open returned.
GetChunk(t, c) ==
    /\ opened[ProcOf[t]]
    /\ Begin(t, c)
    /\ Take(t) /\ Await(t, "lock")

-----------------------------------------------------------------------------

\* What the manifest cache does by itself; what it has to fetch, it asks the
\* closure for.
Cached(t) ==
    /\ \/ LoadHit(t) \/ LoadMiss(t) \/ LoadBad(t) \/ Remove(t)
       \/ (call[t] = "open" /\ Entry(t))
       \/ Acquire(t)
       \/ Create(t) \/ Fill(t) \/ Rename(t) \/ Unfile(t)
    /\ at' = [at EXCEPT ![t] = IF pc'[t] = "fetch" THEN "auth" ELSE None]
    /\ MayEnd(t)
    /\ UNCHANGED <<onlineVars, stored>>

\* load_cached_manifest ends with the load.
NotCached(t) ==
    /\ call[t] = "cached" /\ LoadOnly(t)
    /\ Await(t, None) /\ MayEnd(t)
    /\ UNCHANGED <<onlineVars, stored>>

CacheFails(t) ==
    /\ LoadFails(t) \/ RemoveFails(t) \/ SaveFails(t)
    /\ Await(t, None) /\ MayEnd(t)
    /\ UNCHANGED <<onlineVars, stored>>

\* The read of a chunk ends, with its bytes or an error.
ChunkEnds(t) ==
    /\ Await(t, None)
    /\ call' = [call EXCEPT ![t] = None]
    /\ unread' = unread \ {t}
    /\ UNCHANGED <<vars, opened>>

ChunkHit(t) ==
    /\ at[t] = "lock" /\ call[t] \in stored
    /\ ChunkEnds(t)
    /\ UNCHANGED <<onlineVars, stored>>

\* The chunk is loaded by one task of a process at a time.
BeingLoaded(t) ==
    \E u \in Tasks : /\ u # t /\ ProcOf[u] = ProcOf[t]
                     /\ call[u] = call[t] /\ at[u] \in Online

\* CdnChunkStore::get is called: the chunk is in the manifest.
Miss(t) ==
    /\ at[t] = "lock" /\ ~ BeingLoaded(t)
    /\ Await(t, "auth")
    /\ UNCHANGED <<vars, onlineVars, call, opened, stored>>

\* Mutant: the chunk's file is not looked for again under the lock.
ChunkMissUnchecked(t) == Miss(t) /\ UNCHANGED unread

ChunkMiss(t) == Miss(t) /\ call[t] \notin stored /\ UNCHANGED unread

\* A chunk whose file cannot be read is taken for one that is not there.
ChunkUnread(t) ==
    /\ "io" \in Faults /\ call[t] \in stored
    /\ Miss(t)
    /\ unread' = unread \cup {t}

-----------------------------------------------------------------------------

\* A fetch goes on with a step of its own.
Goes(t, from, to) ==
    /\ at[t] = from
    /\ Await(t, to)
    /\ UNCHANGED <<vars, callVars, stored>>

\* LazyDepotKey::get resolves the session first, whether or not it has the
\* key.  resolve: the OnceCell hands out what it has; else one caller logs
\* in and the others wait.
Resolve(t) == session[ProcOf[t]] /\ Goes(t, "auth", "key") /\ UNCHANGED onlineVars

Login(t) ==
    /\ ~ session[ProcOf[t]] /\ ~ Another(t, "login")
    /\ Goes(t, "auth", "login") /\ UNCHANGED onlineVars

LoggedIn(t) ==
    /\ Goes(t, "login", "key")
    /\ session' = [session EXCEPT ![ProcOf[t]] = TRUE]
    /\ UNCHANGED depotKey

\* With the key in hand the session is resolved again, by the closure or by
\* the CDN store: it is there, so that the next thing to be awaited is the
\* fetch.
HasKey(t) ==
    /\ depotKey[ProcOf[t]] /\ session[ProcOf[t]]
    /\ Goes(t, "key", "fetch") /\ UNCHANGED onlineVars

AskKey(t) ==
    /\ ~ depotKey[ProcOf[t]] /\ ~ Another(t, "ask")
    /\ Goes(t, "key", "ask") /\ UNCHANGED onlineVars

GotKey(t) ==
    /\ session[ProcOf[t]]
    /\ Goes(t, "ask", "fetch")
    /\ depotKey' = [depotKey EXCEPT ![ProcOf[t]] = TRUE]
    /\ UNCHANGED session

FetchManifest(t) ==
    /\ at[t] = "fetch" /\ call[t] = "open"
    /\ Fetch(t) /\ Await(t, None)
    /\ UNCHANGED <<onlineVars, callVars, stored>>

\* The CDN store delivers, and the chunk cache files.
FetchChunk(t) ==
    /\ at[t] = "fetch" /\ call[t] \in Chunks
    /\ ChunkEnds(t)
    /\ stored' = stored \cup {call[t]}
    /\ UNCHANGED onlineVars

\* Mutant: a request for the key that fails is made again, for ever.
OnlineFailsRetrying(t) ==
    /\ at[t] \in {"login", "ask", "fetch"} /\ "fetch" \in Faults
    /\ IF at[t] = "ask" THEN Await(t, "key") /\ UNCHANGED <<vars, callVars>>
       ELSE IF call[t] = "open" THEN FetchFails(t) /\ Await(t, None) /\ MayEnd(t)
       ELSE ChunkEnds(t)
    /\ UNCHANGED <<onlineVars, stored>>

\* What is delivered cannot be filed: the read fails.
ChunkNotFiled(t) ==
    /\ at[t] = "fetch" /\ call[t] \in Chunks /\ "io" \in Faults
    /\ ChunkEnds(t)
    /\ UNCHANGED <<onlineVars, stored>>

\* Nothing is kept of what fails: the next caller of a OnceCell tries again.
OnlineFails(t) ==
    /\ at[t] \in {"login", "ask", "fetch"} /\ "fetch" \in Faults
    /\ IF call[t] = "open" THEN FetchFails(t) /\ Await(t, None) /\ MayEnd(t)
       ELSE ChunkEnds(t)
    /\ UNCHANGED <<onlineVars, stored>>

-----------------------------------------------------------------------------

\* prune deletes the files of chunks, one by one; manifests it keeps.
Prune(c) ==
    /\ stored' = stored \ {c}
    /\ UNCHANGED <<vars, onlineVars, at, callVars>>

\* Session and key are in memory only.
Restart(p) ==
    /\ Crash(p)
    /\ session' = [session EXCEPT ![p] = FALSE]
    /\ depotKey' = [depotKey EXCEPT ![p] = FALSE]
    /\ opened' = [opened EXCEPT ![p] = FALSE]
    /\ at' = [t \in Tasks |-> IF ProcOf[t] = p THEN None ELSE at[t]]
    /\ call' = [t \in Tasks |-> IF ProcOf[t] = p THEN None ELSE call[t]]
    /\ unread' = {t \in unread : ProcOf[t] # p}
    /\ UNCHANGED stored

Advance(t) == \/ Cached(t) \/ NotCached(t) \/ ChunkHit(t) \/ ChunkMiss(t) \/ ChunkUnread(t)
              \/ Resolve(t) \/ Login(t) \/ LoggedIn(t)
              \/ HasKey(t) \/ AskKey(t) \/ GotKey(t)
              \/ FetchManifest(t) \/ FetchChunk(t) \/ ChunkNotFiled(t)
              \/ CacheFails(t) \/ OnlineFails(t)

StoreNext ==
    /\ \/ \E t \in Tasks : OpenDepotManifest(t) \/ LoadCachedManifest(t) \/ Advance(t)
       \/ \E t \in Tasks, c \in Chunks : GetChunk(t, c)
       \/ \E p \in Procs : Restart(p)
       \/ \E c \in Chunks : Prune(c)
    /\ UNCHANGED fresh

StoreSpec == StoreInit /\ [][StoreNext]_storeVars

\* The runtime polls every task that can go on and Steam answers or fails.
\* What tasks wait for in turn (tokio's mutexes, the semaphore of a OnceCell,
\* the lock of a chunk) is handed over in order: strong fairness.
StoreFairness == \A t \in Tasks : SF_storeVars(Advance(t) /\ UNCHANGED fresh)

FairStoreSpec == StoreSpec /\ StoreFairness

-----------------------------------------------------------------------------

\* However many tasks open a manifest, one fetches and saves it, and not again
\* once it is saved.  This is the manifest cache's promise in a store that
\* never held an entry of an older format, of one process.
FetchedOnce == fresh => SharedFetch /\ NoFetchOfSaved

\* Steam is consulted only for what is not on disk (context.rs:55): whoever
\* logs in, asks for a key or fetches does it for a manifest or a chunk that
\* is missing at that very time, however long ago he looked.  The one way to
\* be online for a chunk that is there is a file that could not be read in
\* this very call (cache.rs:318); nobody else's failure counts.
HitsStayOffline ==
    \A t \in Tasks : at[t] \in Online =>
        IF call[t] \in Chunks THEN call[t] \notin stored \/ t \in unread
                              ELSE fresh => disk = None

\* What gets the name of the cached manifest is a whole manifest, although all
\* saves of a process go through one temporary file (manifest_cache.rs:131-134)
\* and any of them may fail or die half-way.
OnlyWholeManifests == fresh => PublishedDecodes

\* Every open and every read comes back, also when the one it waited for
\* failed or the process that held the place died.
StoreAnswers == \A t \in Tasks : Busy(t) ~> ~ Busy(t)
=============================================================================
