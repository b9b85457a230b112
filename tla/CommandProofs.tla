---------------------------- MODULE CommandProofs ----------------------------
(***************************************************************************)
(* Proofs about the two things that a command does beside the stores.      *)
(*                                                                         *)
(* Login: the file of refresh tokens, for any number of processes and      *)
(* accounts, keeps the token saved last, and a deferred login finds one.   *)
(*                                                                         *)
(* Prefetch, for every configuration, parallelism and fault: no fetch      *)
(* outlives its pipeline, and an interrupt stops the run.                  *)
(***************************************************************************)
EXTENDS Login, Prefetch, TLAPS

\* The types of the variables, which hold by the shape of the steps.
LEMMA Types == LoginSpec => []LoginTypeOK
<1> USE LoginAssumption DEF LoginTypeOK, Tokens, Nothing, Readings, Resting, PCs
<1>1. LoginInit => LoginTypeOK
  BY DEF LoginInit
<1>2. LoginTypeOK /\ [LoginNext]_loginVars => LoginTypeOK'
  <2> SUFFICES ASSUME LoginTypeOK, [LoginNext]_loginVars PROVE LoginTypeOK'
    OBVIOUS
  <2> USE DEF Goto, saveVars, historyVars, Fail, AllExcused
  <2>1. ASSUME NEW p \in Procs, Prepare(p) \/ Resolve(p) \/ Discover(p) PROVE LoginTypeOK'
    BY <2>1 DEF Prepare, Resolve, Discover
  <2>2. ASSUME NEW p \in Procs, Accepted(p) \/ Rejected(p) \/ LoggedInWithout(p) \/ Up(p)
        PROVE LoginTypeOK'
    BY <2>2 DEF Accepted, Rejected, LoggedInWithout, Up
  <2>3. ASSUME NEW p \in Procs, LoggedIn(p) PROVE LoginTypeOK'
    BY <2>3 DEF LoggedIn
  <2>4. ASSUME NEW p \in Procs, LoginFails(p) PROVE LoginTypeOK'
    BY <2>4 DEF LoginFails
  <2>5. ASSUME NEW p \in Procs, ReadMap(p) PROVE LoginTypeOK'
    BY <2>5 DEF ReadMap
  <2>6. ASSUME NEW p \in Procs, Truncate(p) PROVE LoginTypeOK'
    BY <2>6 DEF Truncate
  <2>7. ASSUME NEW p \in Procs, Write(p) PROVE LoginTypeOK'
    BY <2>7 DEF Write
  <2>8. ASSUME NEW p \in Procs, SaveFails(p) PROVE LoginTypeOK'
    BY <2>8 DEF SaveFails
  <2>9. ASSUME NEW p \in Procs, Exit(p) PROVE LoginTypeOK'
    BY <2>9 DEF Exit
  <2>10. ASSUME UNCHANGED loginVars PROVE LoginTypeOK'
    BY <2>10 DEF loginVars
  <2> QED
    BY <2>1, <2>2, <2>3, <2>4, <2>5, <2>6, <2>7, <2>8, <2>9, <2>10 DEF LoginNext, LoginStep
<1> QED
  BY <1>1, <1>2, PTL DEF LoginSpec

-----------------------------------------------------------------------------

Writing(p) == pc[p] = "write"

\* What a process is about to write.
MapHasToken ==
    \A p \in Procs : Saves(p) => map[p][AccountOf[p]] = token[p]

\* The other accounts' tokens in it are those that were saved last, unless
\* it could not read them, or another process is in its write: when that ends,
\* whatever its end, every account is excused.
MapIsCurrent ==
    \A p \in Procs, a \in Accounts :
        Saves(p) /\ a # AccountOf[p] /\ ~ excused[a]
            => map[p][a] = last[a] \/ unread[p] \/ \E q \in Procs \ {p} : Writing(q)

KeepInv == TokensAreKept /\ MapHasToken /\ MapIsCurrent

\* A process that goes on outside of a save changes nothing of them.
LEMMA OutsideOfSaves ==
    ASSUME NEW p \in Procs, NEW from \in PCs \ {"open", "write"},
           NEW to \in PCs \ {"open", "write"},
           LoginTypeOK, pc[p] = from, Goto(p, to)
    PROVE  \A q \in Procs : /\ Saves(q)' <=> Saves(q)
                            /\ Writing(q)' <=> Writing(q)
BY DEF LoginTypeOK, Saves, Writing, Goto, PCs, Resting

\* Every step keeps the three together.
LEMMA KeepInvStep ==
    LoginTypeOK /\ KeepInv /\ [LoginNext]_loginVars => KeepInv'
<1> SUFFICES ASSUME LoginTypeOK, KeepInv, [LoginNext]_loginVars PROVE KeepInv'
  OBVIOUS
<1>1. ASSUME NEW p \in Procs,
             \/ Prepare(p) \/ Resolve(p) \/ Discover(p)
             \/ Accepted(p) \/ Rejected(p) \/ LoggedInWithout(p) \/ Up(p)
      PROVE  KeepInv'
  <2>1. UNCHANGED <<file, saveVars, historyVars>>
    BY <1>1 DEF Prepare, Resolve, Discover, Accepted, Rejected, LoggedInWithout, Up
  <2>4. \A q \in Procs : Saves(q) => unread'[q] = unread[q]
    BY <1>1 DEF Prepare, Resolve, Discover, Accepted, Rejected, LoggedInWithout, Up, Saves,
                LoginTypeOK
  <2>2. PICK from, to \in PCs \ {"open", "write"} : pc[p] = from /\ Goto(p, to)
    BY <1>1 DEF Prepare, Resolve, Discover, Accepted, Rejected, LoggedInWithout, Up, PCs, Resting
  <2>3. \A q \in Procs : (Saves(q)' <=> Saves(q)) /\ (Writing(q)' <=> Writing(q))
    BY <2>2, OutsideOfSaves
  <2> QED
    BY <2>1, <2>3, <2>4 DEF KeepInv, TokensAreKept, MapHasToken, MapIsCurrent, saveVars, historyVars,
                      Writing
<1> USE LoginAssumption DEF LoginTypeOK, KeepInv, TokensAreKept, MapHasToken, MapIsCurrent,
        Writing, Saves, Goto, saveVars, historyVars
<1>2. ASSUME NEW p \in Procs, LoggedIn(p) PROVE KeepInv'
  BY <1>2 DEF LoggedIn
<1>3. ASSUME NEW p \in Procs, LoginFails(p) PROVE KeepInv'
  BY <1>3 DEF LoginFails, Fail
<1>4. ASSUME NEW p \in Procs, ReadMap(p) PROVE KeepInv'
  <2>1. PICK f \in Readings :
             /\ unread' = [unread EXCEPT ![p] = f # file]
             /\ map' = [map EXCEPT ![p] = [f EXCEPT ![AccountOf[p]] = token[p]]]
    BY <1>4 DEF ReadMap
  <2>2. f \in [Accounts -> Tokens]
    BY DEF Readings, Nothing, Tokens
  <2>3. pc[p] = "read" /\ pc' = [pc EXCEPT ![p] = "open"]
        /\ UNCHANGED <<file, token, issued, last, excused>>
    BY <1>4 DEF ReadMap
  <2>4. TokensAreKept'
    BY <2>3
  <2>5. MapHasToken'
    BY <2>1, <2>2, <2>3
  <2>6. MapIsCurrent'
    <3> SUFFICES ASSUME NEW q \in Procs, NEW a \in Accounts, Saves(q)', a # AccountOf[q],
                        ~ excused[a]
                 PROVE  map'[q][a] = last[a] \/ unread'[q] \/ \E r \in Procs \ {q} : Writing(r)'
      BY <2>3
    <3>1. CASE q = p /\ f = file
      BY <2>1, <2>2, <2>3, <3>1
    <3>2. CASE q = p /\ f # file
      BY <2>1, <2>3, <3>2
    <3>3. CASE q # p
      BY <2>1, <2>3, <3>3
    <3> QED
      BY <3>1, <3>2, <3>3
  <2> QED
    BY <2>4, <2>5, <2>6
<1>5. ASSUME NEW p \in Procs, Truncate(p) PROVE KeepInv'
  BY <1>5 DEF Truncate
<1>6. ASSUME NEW p \in Procs, Write(p) PROVE KeepInv'
  BY <1>6 DEF Write, Overlaps, AllExcused
<1>7. ASSUME NEW p \in Procs, SaveFails(p) PROVE KeepInv'
  BY <1>7 DEF SaveFails, Fail, AllExcused
<1>8. ASSUME NEW p \in Procs, Exit(p) PROVE KeepInv'
  BY <1>8 DEF Exit, AllExcused
<1>9. ASSUME UNCHANGED loginVars PROVE KeepInv'
  BY <1>9 DEF loginVars
<1> QED
  BY <1>1, <1>2, <1>3, <1>4, <1>5, <1>6, <1>7, <1>8, <1>9 DEF LoginNext, LoginStep

\* The invariant holds throughout.
LEMMA Keeps == LoginSpec => []KeepInv
<1>1. LoginInit => KeepInv
  BY DEF LoginInit, KeepInv, TokensAreKept, MapHasToken, MapIsCurrent, Saves, Nothing
<1> QED
  BY <1>1, KeepInvStep, Types, PTL DEF LoginSpec

\* However many processes save tokens of however many accounts and die or
\* fail on the way, the file keeps what was saved last for an account that no
\* overlapping or broken save excuses, and none that could not read it.
THEOREM SavedTokensAreKept == LoginSpec => []TokensAreKept
<1>1. KeepInv => TokensAreKept
  BY DEF KeepInv
<1> QED
  BY <1>1, Keeps, PTL

-----------------------------------------------------------------------------

\* A token in the file or about to be written to it is one that was saved, or
\* is p's own.
OnceSaved ==
    /\ \A a \in Accounts : file[a] # 0 => last[a] # 0
    /\ \A p \in Procs, a \in Accounts :
          Saves(p) /\ a # AccountOf[p] /\ map[p][a] # 0 => last[a] # 0
    /\ \A p \in Procs : Saves(p) \/ pc[p] = "read" => token[p] # 0

\* Who has deferred his login has seen a token of his account.
DeferredHasSeen ==
    \A p \in Procs : pc[p] # "down" /\ ~ eager[p] => last[AccountOf[p]] # 0

SeenInv == OnceSaved /\ DeferredHasSeen

LEMMA SeenInvStep ==
    LoginTypeOK /\ KeepInv /\ SeenInv /\ [LoginNext]_loginVars => SeenInv'
<1> SUFFICES ASSUME LoginTypeOK, KeepInv, SeenInv, [LoginNext]_loginVars PROVE SeenInv'
  OBVIOUS
<1> USE LoginAssumption DEF LoginTypeOK, SeenInv, OnceSaved, DeferredHasSeen, Saves, Goto,
        saveVars, historyVars, Tokens
<1>1. ASSUME NEW p \in Procs, Prepare(p) PROVE SeenInv'
  <2>1. PICK f \in Readings :
             /\ eager' = [eager EXCEPT ![p] = Load(p, f) = 0]
             /\ pc[p] = "down"
             /\ pc' = [pc EXCEPT ![p] = IF Load(p, f) = 0 THEN "discover" ELSE "lazy"]
    BY <1>1 DEF Prepare
  <2>2. Load(p, f) # 0 => last[AccountOf[p]] # 0
    BY DEF Load, Readings, Nothing
  <2>3. UNCHANGED <<file, token, map, issued, last, excused>>
    BY <1>1 DEF Prepare
  <2> QED
    BY <2>1, <2>2, <2>3
<1>2. ASSUME NEW p \in Procs, Resolve(p) \/ Discover(p) PROVE SeenInv'
  BY <1>2 DEF Resolve, Discover
<1>3. ASSUME NEW p \in Procs, Accepted(p) \/ Rejected(p) \/ LoggedInWithout(p) \/ Up(p)
      PROVE SeenInv'
  BY <1>3 DEF Accepted, Rejected, LoggedInWithout, Up
<1>4. ASSUME NEW p \in Procs, LoggedIn(p) PROVE SeenInv'
  BY <1>4 DEF LoggedIn
<1>5. ASSUME NEW p \in Procs, LoginFails(p) PROVE SeenInv'
  BY <1>5 DEF LoginFails, Fail
<1>6. ASSUME NEW p \in Procs, ReadMap(p) PROVE SeenInv'
  BY <1>6 DEF ReadMap, Readings, Nothing
<1>7. ASSUME NEW p \in Procs, Truncate(p) PROVE SeenInv'
  BY <1>7 DEF Truncate, Nothing
<1>8. ASSUME NEW p \in Procs, Write(p) PROVE SeenInv'
  BY <1>8 DEF Write, Nothing, KeepInv, MapHasToken
<1>9. ASSUME NEW p \in Procs, SaveFails(p) PROVE SeenInv'
  BY <1>9 DEF SaveFails, Fail
<1>10. ASSUME NEW p \in Procs, Exit(p) PROVE SeenInv'
  BY <1>10 DEF Exit
<1>11. ASSUME UNCHANGED loginVars PROVE SeenInv'
  BY <1>11 DEF loginVars
<1> QED
  BY <1>1, <1>2, <1>3, <1>4, <1>5, <1>6, <1>7, <1>8, <1>9, <1>10, <1>11 DEF LoginNext, LoginStep

\* A login deferred because there was a token finds one, however many others
\* have logged in since, unless it cannot read the file, or the file is being
\* written or has lost it.
THEOREM DeferredLoginFindsAToken == LoginSpec => DeferredFindsItsToken
<1> DEFINE Finds ==
      \A p \in Procs :
        pc[p] = "discover" /\ pc'[p] = "password" /\ ~ eager[p]
            => \/ unread'[p]
               \/ excused[AccountOf[p]]
               \/ \E q \in Procs : pc[q] = "write"
<1>1. LoginInit => SeenInv
  BY DEF LoginInit, SeenInv, OnceSaved, DeferredHasSeen, Saves, Nothing
<1>2. LoginSpec => []SeenInv
  BY <1>1, SeenInvStep, Types, Keeps, PTL DEF LoginSpec
<1>3. LoginTypeOK /\ KeepInv /\ SeenInv /\ [LoginNext]_loginVars => [Finds]_loginVars
  <2> SUFFICES ASSUME LoginTypeOK, KeepInv, SeenInv, LoginNext,
                      NEW p \in Procs, pc[p] = "discover", pc'[p] = "password", ~ eager[p],
                      ~ unread'[p], ~ excused[AccountOf[p]], ~ \E q \in Procs : pc[q] = "write"
               PROVE  FALSE
    BY DEF Finds
  <2>1. file[AccountOf[p]] # 0
    BY LoginAssumption DEF KeepInv, TokensAreKept, SeenInv, DeferredHasSeen
  <2> QED
    BY <2>1 DEF LoginTypeOK, LoginNext, LoginStep, Prepare, Resolve, Discover, Load,
                Accepted, Rejected,
        LoggedIn, LoggedInWithout, LoginFails, Fail, Up, ReadMap, Truncate, Write, SaveFails,
        Exit, Goto, Saves
<1> QED
  BY <1>2, <1>3, Types, Keeps, PTL DEF LoginSpec, DeferredFindsItsToken

-----------------------------------------------------------------------------
(* Prefetch. *)

\* Tasks are in flight only while a pipeline runs, which has taken over the
\* signals, and without --seconds an interrupt is never left standing for
\* the next pipeline.
PipelineInv ==
    /\ task \in [Chunks -> {None, "running", "ok", "err", "panic"}]
    /\ phase = "drain" => handler
    /\ phase # "drain" => InFlight = {}
    /\ ~ bounded /\ phase \notin {"drain", "ended"} => ~ interrupted

LEMMA PipelineInvInit == Init => PipelineInv
  BY DEF Init, PipelineInv, InFlight

LEMMA PipelineInvStep ==
    ASSUME PipelineInv, [Next]_vars
    PROVE  PipelineInv'
<1> USE DEF PipelineInv, InFlight
<1>1. CASE Scan
  BY <1>1 DEF Scan
<1>2. CASE Fails
  BY <1>2 DEF Fails, End, pipe
<1>3. CASE Open
  BY <1>3, ConstantsAssumption DEF Open
<1>4. CASE Interrupt
  BY <1>4 DEF Interrupt
<1>5. CASE Drained
  BY <1>5 DEF Drained, Polls, End
<1>6. CASE Verify
  BY <1>6 DEF Verify, End, pipe
<1>7. CASE Verified
  BY <1>7 DEF Verified, End, pipe
<1>8. CASE NextPass
  BY <1>8 DEF NextPass, End, pipe
<1>9. ASSUME NEW c \in Chunks, Collect(c) PROVE PipelineInv'
  BY <1>9 DEF Collect, Polls
<1>10. ASSUME NEW c \in Chunks, CollectPanic(c) PROVE PipelineInv'
  BY <1>10 DEF CollectPanic, Polls
<1>11. ASSUME NEW c \in Chunks, Judge(c) PROVE PipelineInv'
  BY <1>11 DEF Judge, pipe
<1>12. ASSUME NEW c \in Chunks, Delete(c) PROVE PipelineInv'
  BY <1>12 DEF Delete, pipe
<1>13. CASE Signal
  BY <1>13 DEF Signal, End
<1>14. CASE Deadline
  BY <1>14 DEF Deadline
<1>15. ASSUME NEW c \in Chunks, Ensure(c) PROVE PipelineInv'
  <2>1. phase = "drain" /\ phase' = "drain"
    BY <1>15, ConstantsAssumption DEF Ensure
  <2> QED
    BY <1>15, <2>1 DEF Ensure
<1>16. ASSUME NEW c \in Chunks, Remove(c) PROVE PipelineInv'
  BY <1>16 DEF Remove, pipe
<1>17. CASE UNCHANGED vars
  BY <1>17 DEF vars, pipe
<1> QED
  BY <1>1, <1>2, <1>3, <1>4, <1>5, <1>6, <1>7, <1>8, <1>9, <1>10, <1>11, <1>12, <1>13,
     <1>14, <1>15, <1>16, <1>17 DEF Next, Step

LEMMA PipelineInvAlways == Spec => []PipelineInv
<1>1. PipelineInv /\ [Next]_vars => PipelineInv'
  BY PipelineInvStep
<1> QED
  BY <1>1, PipelineInvInit, PTL DEF Spec

\* No fetch outlives the pipeline it was submitted to, whether that ran dry,
\* was interrupted, or lost tasks to panics, and whatever failed around it.
THEOREM NoFetchOutlivesItsPipeline == Spec => []NothingLeftInFlight
<1>1. PipelineInv => NothingLeftInFlight
  BY DEF PipelineInv, NothingLeftInFlight
<1> QED
  BY <1>1, PipelineInvAlways, PTL

LEMMA InterruptedStep ==
    ASSUME PipelineInv, [Next]_vars, interrupted, ~ bounded
    PROVE  ~ Submitted
<1> USE DEF PipelineInv, Submitted
<1>1. CASE Open
  BY <1>1 DEF Open
<1>2. ASSUME NEW c \in Chunks, Collect(c) PROVE ~ Submitted
  BY <1>2, ConstantsAssumption DEF Collect
<1>3. ASSUME NEW c \in Chunks, CollectPanic(c) PROVE ~ Submitted
  BY <1>3, ConstantsAssumption DEF CollectPanic
<1>4. ASSUME NEW c \in Chunks, Ensure(c) PROVE ~ Submitted
  BY <1>4 DEF Ensure
<1>5. CASE UNCHANGED task
  BY <1>5
<1>6. \/ UNCHANGED task \/ Open
      \/ \E c \in Chunks : Collect(c) \/ CollectPanic(c) \/ Ensure(c)
  BY DEF Next, Step, vars, pipe, Scan, Fails, Interrupt,
         Drained, Verify, Verified, NextPass, Judge, Delete, Signal, Deadline, Remove
<1> QED
  BY <1>1, <1>2, <1>3, <1>4, <1>5, <1>6

\* Without --seconds, once an interrupt is seen no fetch is submitted any
\* more: the pipelines of later manifests never start.
THEOREM InterruptStopsTheRun == Spec => InterruptStopsSubmitting
<1>1. PipelineInv /\ [Next]_vars => [interrupted /\ ~ bounded => ~ Submitted]_vars
  BY InterruptedStep
<1> QED
  BY <1>1, PipelineInvAlways, PTL DEF Spec, InterruptStopsSubmitting
=============================================================================
