------------------------------ MODULE Prefetch ------------------------------
(***************************************************************************)
(* The prefetch command: passes of scan, fetch what is missing manifest by *)
(* manifest through a bounded pipeline of tasks, verify everything, delete *)
(* what does not verify.  The chunk store behind the tasks is taken by     *)
(* what ensure promises.                                                   *)
(*                                                                         *)
(* A chunk's file is the "frame" that encode_frame makes of it, the        *)
(* "plain" bytes themselves, or anything else, "torn".                     *)
(***************************************************************************)
EXTENDS Naturals, Sequences, FiniteSets

CONSTANTS Chunks,       \* chunk names, numbers so that they sort
          Config,       \* the chunks of each configured manifest
          Parallelism,
          MaxAttempts,  \* MAX_REFETCH_ATTEMPTS
          Faults,       \* what may go wrong
          None

FaultKinds == {"fetch",   \* a chunk, or a manifest, cannot be fetched
               "write",   \* a chunk file that was published ends up torn
               "panic",   \* a fetch task panics
               "io",      \* a scan fails, a file cannot be deleted
               "remove",  \* somebody deletes a chunk file meanwhile
               "signal"}  \* Ctrl-C or SIGTERM

ASSUME ConstantsAssumption ==
    /\ Chunks \subseteq Nat
    /\ Config \in Seq(SUBSET Chunks)
    /\ Parallelism \in Nat \ {0} /\ MaxAttempts \in Nat \ {0}
    /\ Faults \subseteq FaultKinds
    /\ None \notin {"running", "ok", "err", "panic"}

VARIABLES bounded,     \* --seconds is given
          disk,        \* the file of each chunk
          phase,       \* where run() is
          attempt,     \* passes begun
          mi,          \* the manifest of the pass
          cached,      \* what the scan at the start of the pass found
          work,        \* chunks of the manifest not yet submitted
          task,        \* the fetch task of each chunk
          shutdown,    \* the shutdown future is ready
          interrupted, \* it was seen to be, for this manifest
          handler,     \* tokio has taken over the signals of the process
          shas, bad,   \* chunks to verify; chunks found bad
          result

pipe == <<mi, cached, work, task, shutdown, interrupted, handler>>
vars == <<bounded, disk, phase, attempt, pipe, shas, bad, result>>

Files == {None, "frame", "plain", "torn"}
InFlight == {c \in Chunks : task[c] # None}

\* The values of the variables; the pipeline is no wider than it may be,
\* and nothing is in flight outside it.
TypeOK ==
    /\ disk \in [Chunks -> Files]
    /\ phase \in {"scan", "open", "drain", "verify", "delete", "ended"}
    /\ attempt \in 1..MaxAttempts
    /\ mi \in 1..(Len(Config) + 1)
    /\ cached \in SUBSET Chunks /\ work \in SUBSET Chunks
    /\ shas \in SUBSET Chunks /\ bad \in SUBSET Chunks
    /\ task \in [Chunks -> {None, "running", "ok", "err", "panic"}]
    /\ {bounded, shutdown, interrupted, handler} \subseteq BOOLEAN
    /\ result \in {None, "ok", "err", "killed"}
    /\ Cardinality(InFlight) <= Parallelism

Init ==
    /\ bounded \in BOOLEAN
    /\ disk \in [Chunks -> {None, "frame", "torn"}]
    /\ phase = "scan" /\ attempt = 1 /\ mi = 1
    /\ cached = {} /\ work = {} /\ shas = {} /\ bad = {}
    /\ task = [c \in Chunks |-> None]
    /\ shutdown = FALSE /\ interrupted = FALSE /\ handler = FALSE
    /\ result = None

-----------------------------------------------------------------------------

End(r) == phase' = "ended" /\ result' = r

\* scan_chunks_on_disk: every file with a chunk's name, whatever is in it.
OnDisk == {c \in Chunks : disk[c] # None}

Scan ==
    /\ phase = "scan"
    /\ phase' = "open" /\ mi' = 1 /\ cached' = OnDisk
    /\ UNCHANGED <<bounded, disk, attempt, work, task, shutdown, interrupted, handler,
                   shas, bad, result>>

\* A scan, or open_depot_manifest, fails and the run with it.
Fails ==
    /\ \/ "io" \in Faults /\ phase = "scan"
       \/ "io" \in Faults /\ phase = "open" /\ mi > Len(Config) /\ ~ bounded
       \/ "fetch" \in Faults /\ phase = "open" /\ mi <= Len(Config)
    /\ End("err")
    /\ UNCHANGED <<bounded, disk, attempt, pipe, shas, bad>>

\* The first n of a set of chunks in the order of their names.
First(n, S) == {c \in S : Cardinality({x \in S : x < c}) < n}

\* prefetch_snapshot up to its loop: what the scan has not found becomes
\* the work, the pipeline is primed, and the signals are taken over.
Open ==
    /\ phase = "open" /\ mi <= Len(Config)
    /\ LET missing == Config[mi] \ cached
           primed == First(Parallelism, missing)
       IN  IF missing = {}
           THEN /\ mi' = mi + 1
                /\ UNCHANGED <<phase, work, task, shutdown, interrupted, handler>>
           ELSE /\ phase' = "drain"
                /\ work' = missing \ primed
                /\ task' = [c \in Chunks |-> IF c \in primed THEN "running" ELSE None]
                /\ shutdown' = FALSE /\ interrupted' = FALSE /\ handler' = TRUE
                /\ UNCHANGED mi
    /\ UNCHANGED <<bounded, disk, attempt, cached, shas, bad, result>>

\* ensure takes a chunk for missing when its file is, or cannot be told to be
\* there.
Absent(c) == disk[c] = None \/ "io" \in Faults

\* ensure of a chunk: a file that is there will do; else the chunk is
\* fetched and filed.
Ensure(c) ==
    /\ task[c] = "running"
    /\ \/ /\ disk[c] # None
          /\ task' = [task EXCEPT ![c] = "ok"]
          /\ UNCHANGED disk
       \/ /\ Absent(c)
          /\ \E f \in {"frame"} \cup IF "write" \in Faults THEN {"torn"} ELSE {} :
                disk' = [disk EXCEPT ![c] = f]
          /\ task' = [task EXCEPT ![c] = "ok"]
       \/ /\ Absent(c) /\ "fetch" \in Faults
          /\ task' = [task EXCEPT ![c] = "err"]
          /\ UNCHANGED disk
       \/ /\ "panic" \in Faults
          /\ task' = [task EXCEPT ![c] = "panic"]
          /\ UNCHANGED disk
    /\ UNCHANGED <<bounded, phase, attempt, mi, cached, work, shutdown, interrupted, handler,
                   shas, bad, result>>

\* The select polls the shutdown future first.
Interrupt ==
    /\ phase = "drain" /\ shutdown /\ ~ interrupted
    /\ interrupted' = TRUE
    /\ UNCHANGED <<bounded, disk, phase, attempt, mi, cached, work, task, shutdown, handler,
                   shas, bad, result>>

Polls == phase = "drain" /\ (shutdown => interrupted)

\* Mutant: work is submitted while the pipeline should run dry.
CollectAndSubmit(c) ==
    /\ Polls /\ task[c] \in {"ok", "err"}
    /\ LET next == First(1, work)
       IN  /\ task' = [x \in Chunks |-> IF x \in next THEN "running"
                                        ELSE IF x = c THEN None ELSE task[x]]
           /\ work' = work \ next
    /\ UNCHANGED <<bounded, disk, phase, attempt, mi, cached, shutdown, interrupted, handler,
                   shas, bad, result>>

\* A task that finished, well or not, makes room for the next chunk.
Collect(c) ==
    /\ Polls /\ task[c] \in {"ok", "err"}
    /\ LET next == IF interrupted THEN {} ELSE First(1, work)
       IN  /\ task' = [x \in Chunks |-> IF x \in next THEN "running"
                                        ELSE IF x = c THEN None ELSE task[x]]
           /\ work' = work \ next
    /\ UNCHANGED <<bounded, disk, phase, attempt, mi, cached, shutdown, interrupted, handler,
                   shas, bad, result>>

\* One that panicked makes none.
CollectPanic(c) ==
    /\ Polls /\ task[c] = "panic"
    /\ task' = [task EXCEPT ![c] = None]
    /\ UNCHANGED <<bounded, disk, phase, attempt, mi, cached, work, shutdown, interrupted, handler,
                   shas, bad, result>>

\* Mutant: an interrupt leaves the tasks in flight to themselves.
DrainedAtOnce ==
    /\ Polls /\ (interrupted \/ InFlight = {})
    /\ IF interrupted /\ ~ bounded
       THEN End("err") /\ UNCHANGED mi
       ELSE phase' = "open" /\ mi' = mi + 1 /\ UNCHANGED result
    /\ UNCHANGED <<bounded, disk, attempt, cached, work, task, shutdown, interrupted, handler,
                   shas, bad>>

\* The pipeline is empty: the loop ends.
Drained ==
    /\ Polls /\ InFlight = {}
    /\ IF interrupted /\ ~ bounded
       THEN End("err") /\ UNCHANGED mi
       ELSE phase' = "open" /\ mi' = mi + 1 /\ UNCHANGED result
    /\ UNCHANGED <<bounded, disk, attempt, cached, work, task, shutdown, interrupted, handler,
                   shas, bad>>

\* After the last manifest: a bounded run is over, another verifies.
Verify ==
    /\ phase = "open" /\ mi > Len(Config)
    /\ IF bounded
       THEN End("ok") /\ UNCHANGED shas
       ELSE phase' = "verify" /\ shas' = OnDisk /\ UNCHANGED result
    /\ UNCHANGED <<bounded, disk, attempt, pipe, bad>>

\* verify_one: the SHA-1 of the file's bytes against its name.
VerifyOne(f) == f = "plain"

\* A worker of verify_cache takes a chunk off the channel; a file that
\* cannot be read is as bad as one that does not match.
Judge(c) ==
    /\ phase = "verify" /\ c \in shas
    /\ shas' = shas \ {c}
    /\ bad' = IF VerifyOne(disk[c]) THEN bad ELSE bad \cup {c}
    /\ UNCHANGED <<bounded, disk, phase, attempt, pipe, result>>

Verified ==
    /\ phase = "verify" /\ shas = {}
    /\ IF bad = {} THEN End("ok") ELSE phase' = "delete" /\ UNCHANGED result
    /\ UNCHANGED <<bounded, disk, attempt, pipe, shas, bad>>

Delete(c) ==
    /\ phase = "delete" /\ c \in bad
    /\ bad' = bad \ {c}
    /\ \/ disk' = [disk EXCEPT ![c] = None]
       \/ "io" \in Faults /\ UNCHANGED disk
    /\ UNCHANGED <<bounded, phase, attempt, pipe, shas, result>>

\* Mutant: passes without end.
NextPassAlways ==
    /\ phase = "delete" /\ bad = {}
    /\ phase' = "scan"
    /\ UNCHANGED <<bounded, disk, attempt, pipe, shas, bad, result>>

NextPass ==
    /\ phase = "delete" /\ bad = {}
    /\ IF attempt = MaxAttempts
       THEN End("err") /\ UNCHANGED attempt
       ELSE phase' = "scan" /\ attempt' = attempt + 1 /\ UNCHANGED result
    /\ UNCHANGED <<bounded, disk, pipe, shas, bad>>

-----------------------------------------------------------------------------

\* A signal kills the process until the first pipeline waits for one; from
\* then on it is seen by a pipeline that runs, and otherwise lost.
Signal ==
    /\ "signal" \in Faults
    /\ \/ /\ ~ handler /\ phase # "ended"
          /\ End("killed")
          /\ UNCHANGED shutdown
       \/ /\ handler /\ phase = "drain"
          /\ shutdown' = TRUE
          /\ UNCHANGED <<phase, result>>
    /\ UNCHANGED <<bounded, disk, attempt, mi, cached, work, task, interrupted, handler, shas, bad>>

\* The timer of this manifest's pipeline runs out.
Deadline ==
    /\ bounded /\ phase = "drain" /\ ~ shutdown
    /\ shutdown' = TRUE
    /\ UNCHANGED <<bounded, disk, phase, attempt, mi, cached, work, task, interrupted, handler,
                   shas, bad, result>>

\* prune, or a user, deletes a chunk file.
Remove(c) ==
    /\ "remove" \in Faults /\ disk[c] # None
    /\ disk' = [disk EXCEPT ![c] = None]
    /\ UNCHANGED <<bounded, phase, attempt, pipe, shas, bad, result>>

Step == \/ Scan \/ Fails \/ Open \/ Interrupt \/ Drained
        \/ Verify \/ Verified \/ NextPass
        \/ \E c \in Chunks : Collect(c) \/ CollectPanic(c) \/ Judge(c) \/ Delete(c)

Next == \/ Step
        \/ Signal \/ Deadline
        \/ \E c \in Chunks : Ensure(c) \/ Remove(c)

Spec == Init /\ [][Next]_vars

\* The run goes on while it can, and every ensure answers.
Fairness == WF_vars(Step) /\ \A c \in Chunks : WF_vars(Ensure(c))

FairSpec == Spec /\ Fairness

-----------------------------------------------------------------------------

Submitted == \E c \in Chunks : task'[c] = "running" /\ task[c] # "running"

\* Without --seconds nothing more is submitted once an interrupt was seen:
\* not from this manifest, and not from the next.
InterruptStopsSubmitting == [][interrupted /\ ~ bounded => ~ Submitted]_vars

\* Whatever ends a pipeline, the fetches in flight are waited for, so that
\* their writes are over when the next thing happens (prefetch.rs:260).
NothingLeftInFlight == phase # "drain" => InFlight = {}

\* The run ends, however many chunks stay bad.
RunEnds == <>(phase = "ended")

\* Verify finds no fault with a chunk the cache would serve.
GoodFramesVerify == \A c \in bad : disk[c] # "frame"

=============================================================================
