-------------------------- MODULE ChunkCacheProofs --------------------------
(***************************************************************************)
(* ChunkCache for every set of chunks, processes and tasks, every capacity *)
(* and every combination of faults: what the operators of LruCache return, *)
(* the types, the bytes handed out, one loader per chunk and process, that *)
(* it implements ChunkStore, and last the cache of one process that alone  *)
(* deletes from its directory and whose disk answers.                      *)
(***************************************************************************)
EXTENDS ChunkCache, SequenceTheorems, TLAPS

\* A cache over keys K and values V holds no key twice.
IsCache(s, K, V) ==
    /\ s \in Seq([key : K, value : V])
    /\ \A m, n \in 1..Len(s) : s[m].key = s[n].key => m = n

\* The shape of ToFront: the new entry is first, every other entry was there
\* before, at another index than the one that goes.
LEMMA ToFrontShape ==
    ASSUME NEW E, NEW s \in Seq(E), NEW e \in E, NEW i \in 1..(Len(s) + 1)
    PROVE  LET r == ToFront(s, e, i)
           IN  /\ r \in Seq(E)
               /\ Len(r) = IF i <= Len(s) THEN Len(s) ELSE Len(s) + 1
               /\ r[1] = e
               /\ \A j \in 2..Len(r) :
                     r[j] = s[IF j <= i THEN j - 1 ELSE j]
  <1> DEFINE n == IF i <= Len(s) THEN Len(s) ELSE Len(s) + 1
             r == ToFront(s, e, i)
  <1>1. Len(s) \in Nat /\ \A j \in 1..Len(s) : s[j] \in E
    BY ElementOfSeq, LenProperties
  <1>2. n \in Nat /\ n >= 1 /\ i <= n
    BY <1>1
  <1>3. r = [j \in 1..n |-> IF j = 1 THEN e ELSE IF j <= i THEN s[j - 1] ELSE s[j]]
    BY DEF ToFront
  <1>4. ASSUME NEW j \in 1..n
        PROVE  (IF j = 1 THEN e ELSE IF j <= i THEN s[j - 1] ELSE s[j]) \in E
    BY <1>1, <1>2
  <1>5. r \in [1..n -> E]
    BY <1>3, <1>4
  <1>6. r \in Seq(E)
    BY <1>2, <1>5, SeqDef
  <1>7. Len(r) = n
    BY <1>2, <1>5, <1>6, LenProperties
  <1>8. QED
    BY <1>2, <1>3, <1>6, <1>7

\* Moving an entry to the front keeps keys distinct when its key is either
\* new or the key of the entry that goes.
LEMMA ToFrontIsCache ==
    ASSUME NEW K, NEW V, NEW s, IsCache(s, K, V),
           NEW k \in K, NEW v \in V, NEW i \in 1..(Len(s) + 1),
           \A j \in 1..Len(s) : s[j].key = k => j = i
    PROVE  IsCache(ToFront(s, Entry(k, v), i), K, V)
  <1> DEFINE r == ToFront(s, Entry(k, v), i)
             from(j) == IF j <= i THEN j - 1 ELSE j
  <1>1. s \in Seq([key : K, value : V]) /\ Len(s) \in Nat
    BY LenProperties DEF IsCache
  <1>2. Entry(k, v) \in [key : K, value : V] /\ Entry(k, v).key = k
    BY DEF Entry
  <1>3. /\ r \in Seq([key : K, value : V])
        /\ Len(r) = IF i <= Len(s) THEN Len(s) ELSE Len(s) + 1
        /\ r[1] = Entry(k, v)
        /\ \A j \in 2..Len(r) : r[j] = s[from(j)]
    <2> DEFINE E == [key : K, value : V]
               e == Entry(k, v)
    <2>1. s \in Seq(E) /\ e \in E
      BY <1>1, <1>2
    <2> HIDE DEF E, e
    <2>2. LET f == ToFront(s, e, i)
          IN  /\ f \in Seq(E)
              /\ Len(f) = IF i <= Len(s) THEN Len(s) ELSE Len(s) + 1
              /\ f[1] = e
              /\ \A j \in 2..Len(f) : f[j] = s[IF j <= i THEN j - 1 ELSE j]
      BY <2>1, ToFrontShape, SMTT(20)
    <2>3. QED
      BY <2>2 DEF E, e
  <1>4. ASSUME NEW j \in 2..Len(r)
        PROVE  from(j) \in 1..Len(s) /\ from(j) # i
    BY <1>1, <1>3
  <1>5. ASSUME NEW m \in 1..Len(r), NEW n \in 1..Len(r), r[m].key = r[n].key
        PROVE  m = n
    <2>1. Len(r) \in Nat
      BY <1>3, LenProperties
    <2>2. CASE m = 1 /\ n # 1
      BY <2>1, <2>2, <1>2, <1>3, <1>4, <1>5
    <2>3. CASE m # 1 /\ n = 1
      BY <2>1, <2>3, <1>2, <1>3, <1>4, <1>5
    <2>4. CASE m # 1 /\ n # 1
      <3>1. m \in 2..Len(r) /\ n \in 2..Len(r)
        BY <2>1, <2>4
      <3>2. from(m) = from(n)
        BY <3>1, <1>3, <1>4, <1>5 DEF IsCache
      <3>3. QED
        BY <3>1, <3>2, <1>1
    <2>5. QED
      BY <2>2, <2>3, <2>4
  <1>6. QED
    BY <1>3, <1>5 DEF IsCache

LEMMA IndexOfHolds ==
    ASSUME NEW s, NEW k, Holds(s, k)
    PROVE  IndexOf(s, k) \in 1..Len(s) /\ s[IndexOf(s, k)].key = k
  BY DEF Holds, IndexOf

\* put into a cache of at most cap entries yields such a cache, that holds
\* the new entry and entries it held before.
THEOREM PutResult ==
    ASSUME NEW K, NEW V, NEW s, IsCache(s, K, V), NEW k \in K, NEW v \in V,
           NEW cap \in Nat \ {0}, Len(s) <= cap
    PROVE  LET r == Put(s, k, v, cap)
           IN  /\ IsCache(r, K, V)
               /\ Len(r) <= cap
               /\ \A j \in 1..Len(r) :
                     r[j] = Entry(k, v) \/ \E i \in 1..Len(s) : r[j] = s[i]
  <1> DEFINE at == IF Holds(s, k) THEN IndexOf(s, k)
                   ELSE IF Len(s) < cap THEN Len(s) + 1 ELSE Len(s)
             r == Put(s, k, v, cap)
  <1>1. s \in Seq([key : K, value : V]) /\ Len(s) \in Nat
    BY LenProperties DEF IsCache
  <1>2. Entry(k, v) \in [key : K, value : V]
    BY DEF Entry
  <1>3. /\ at \in 1..(Len(s) + 1)
        /\ Len(s) = cap => at <= Len(s)
        /\ \A j \in 1..Len(s) : s[j].key = k => j = at
    <2>1. CASE Holds(s, k)
      BY <2>1, <1>1, IndexOfHolds DEF IsCache
    <2>2. CASE ~ Holds(s, k)
      BY <2>2, <1>1 DEF Holds
    <2>3. QED
      BY <2>1, <2>2
  <1>4. r = ToFront(s, Entry(k, v), at)
    BY DEF Put
  <1>5. IsCache(r, K, V)
    BY <1>3, <1>4, ToFrontIsCache
  <1>6. /\ Len(r) = IF at <= Len(s) THEN Len(s) ELSE Len(s) + 1
        /\ r[1] = Entry(k, v)
        /\ \A j \in 2..Len(r) : r[j] = s[IF j <= at THEN j - 1 ELSE j]
    <2> DEFINE E == [key : K, value : V]
               e == Entry(k, v)
    <2>1. s \in Seq(E) /\ e \in E
      BY <1>1, <1>2
    <2> HIDE DEF at, E, e
    <2>2. LET f == ToFront(s, e, at)
          IN  /\ Len(f) = IF at <= Len(s) THEN Len(s) ELSE Len(s) + 1
              /\ f[1] = e
              /\ \A j \in 2..Len(f) : f[j] = s[IF j <= at THEN j - 1 ELSE j]
      BY <1>3, <2>1, ToFrontShape
    <2>3. QED
      BY <1>4, <2>2 DEF e
  <1>7. QED
    BY <1>1, <1>3, <1>5, <1>6

\* get of a held key reorders the cache and changes no entry.
THEOREM PromoteResult ==
    ASSUME NEW K, NEW V, NEW s, IsCache(s, K, V), NEW k \in K, Holds(s, k)
    PROVE  LET r == Promote(s, k)
           IN  /\ IsCache(r, K, V)
               /\ Len(r) = Len(s)
               /\ \A j \in 1..Len(r) : \E i \in 1..Len(s) : r[j] = s[i]
  <1> DEFINE at == IndexOf(s, k)
             e == Entry(k, Lookup(s, k))
             r == Promote(s, k)
  <1>1. s \in Seq([key : K, value : V]) /\ Len(s) \in Nat
    BY LenProperties DEF IsCache
  <1>2. at \in 1..Len(s) /\ s[at].key = k /\ s[at] \in [key : K, value : V]
    BY <1>1, IndexOfHolds, ElementOfSeq
  <1>3. Lookup(s, k) \in V /\ e = s[at]
    BY <1>2 DEF Lookup, Entry
  <1>4. at \in 1..(Len(s) + 1) /\ \A j \in 1..Len(s) : s[j].key = k => j = at
    BY <1>1, <1>2 DEF IsCache
  <1>5. r = ToFront(s, e, at)
    BY DEF Promote
  <1>6. IsCache(r, K, V)
    BY <1>3, <1>4, <1>5, ToFrontIsCache
  <1>7. /\ Len(r) = Len(s)
        /\ r[1] = e
        /\ \A j \in 2..Len(r) : r[j] = s[IF j <= at THEN j - 1 ELSE j]
    BY <1>1, <1>2, <1>3, <1>4, <1>5, ToFrontShape
  <1>8. QED
    BY <1>1, <1>2, <1>3, <1>6, <1>7

-----------------------------------------------------------------------------

\* One process's decoded cache as DecodedOK and DecodedRight ask for it.
GoodCache(s) ==
    /\ IsCache(s, Chunks, Contents)
    /\ Len(s) <= Capacity
    /\ \A i \in 1..Len(s) : s[i].value = s[i].key

LEMMA GoodCaches ==
    DecodedOK /\ DecodedRight
        <=> /\ decoded = [p \in Procs |-> decoded[p]]
            /\ \A p \in Procs : GoodCache(decoded[p])
  BY DEF DecodedOK, DecodedRight, GoodCache, IsCache

LEMMA EmptyIsGood == GoodCache(<< >>)
  BY ConstantsAssumption, EmptySeq DEF GoodCache, IsCache

LEMMA PutIsGood ==
    ASSUME NEW s, GoodCache(s), NEW c \in Chunks
    PROVE  GoodCache(Put(s, c, c, Capacity))
  <1> DEFINE r == Put(s, c, c, Capacity)
  <1>1. Capacity \in Nat \ {0} /\ c \in Contents /\ IsCache(s, Chunks, Contents) /\ Len(s) <= Capacity
    BY ConstantsAssumption DEF GoodCache, Contents
  <1>2. /\ IsCache(r, Chunks, Contents)
        /\ Len(r) <= Capacity
        /\ \A j \in 1..Len(r) :
              r[j] = Entry(c, c) \/ \E i \in 1..Len(s) : r[j] = s[i]
    BY <1>1, PutResult
  <1>3. QED
    BY <1>2 DEF GoodCache, Entry

LEMMA PromoteIsGood ==
    ASSUME NEW s, GoodCache(s), NEW c \in Chunks, Holds(s, c)
    PROVE  GoodCache(Promote(s, c)) /\ Lookup(s, c) = c
  <1> DEFINE r == Promote(s, c)
  <1>1. /\ IsCache(r, Chunks, Contents)
        /\ Len(r) = Len(s)
        /\ \A j \in 1..Len(r) : \E i \in 1..Len(s) : r[j] = s[i]
    BY PromoteResult DEF GoodCache
  <1>2. Lookup(s, c) = c
    BY IndexOfHolds DEF GoodCache, Lookup
  <1>3. QED
    BY <1>1, <1>2 DEF GoodCache

-----------------------------------------------------------------------------

DataInv == TypeOK /\ OnlyRightBytes

LEMMA DataInit == Init => DataInv
  <1> SUFFICES ASSUME Init PROVE DataInv
    OBVIOUS
  <1>1. FilesOK
    BY DEF Init, FilesOK, File, Torn, Whole, Contents
  <1>2. DecodedOK /\ DecodedRight
    BY EmptyIsGood, GoodCaches DEF Init
  <1>3. TasksOK /\ CarriedRight
    BY DEF Init, TasksOK, CarriedRight, PCs
  <1>4. QED
    BY <1>1, <1>2, <1>3 DEF DataInv, TypeOK, OnlyRightBytes

\* A task in a call has a chunk.
LEMMA InCall ==
    ASSUME TasksOK, NEW t \in Tasks, pc[t] # "idle"
    PROVE  call[t] \in Callable /\ Sha(t) \in Chunks /\ ProcOf[t] \in Procs
  BY ConstantsAssumption DEF TasksOK, Callable, Sha

LEMMA FilesStep ==
    ASSUME DataInv, [Next]_vars
    PROVE  FilesOK'
  <1> USE DEF DataInv, TypeOK
  <1>1. CASE UNCHANGED <<disk, tmp>>
    BY <1>1 DEF FilesOK
  <1>2. ASSUME NEW t \in Tasks, DeleteCorrupt(t) PROVE FilesOK'
    BY <1>2 DEF FilesOK, DeleteCorrupt
  <1>3. ASSUME NEW t \in Tasks, Create(t) PROVE FilesOK'
    <2>1. got[t] \in Contents /\ ProcOf[t] \in Procs
      BY <1>3, InCall DEF Create, At, OnlyRightBytes, CarriedRight, Contents
    <2>2. QED
      BY <1>3, <2>1 DEF FilesOK, Create, File
  <1>4. ASSUME NEW t \in Tasks, Rename(t) PROVE FilesOK'
    BY <1>4 DEF FilesOK, Rename
  <1>5. ASSUME NEW t \in Tasks, WriteFails(t) PROVE FilesOK'
    BY <1>5 DEF FilesOK, WriteFails
  <1>6. ASSUME NEW t \in Tasks, FinishTmp(t) PROVE FilesOK'
    BY <1>6 DEF FilesOK, FinishTmp, Outcomes, Due, File, Whole, Torn, Contents
  <1>7. ASSUME NEW c \in Chunks, FinishPublished(c) PROVE FilesOK'
    BY <1>7 DEF FilesOK, FinishPublished, Outcomes, Due, File, Whole, Torn, Contents
  <1>8. ASSUME NEW p \in Procs, Crash(p) PROVE FilesOK'
    BY <1>8 DEF FilesOK, Crash, File, Torn, Contents
  <1>9. ASSUME NEW c \in Chunks, Damage(c) PROVE FilesOK'
    BY <1>9 DEF FilesOK, Damage, File, Torn, Whole, Contents
  <1>10. QED
    BY <1>1, <1>2, <1>3, <1>4, <1>5, <1>6, <1>7, <1>8, <1>9
       DEF Next, Step, Call, Hit, Miss, Exists, Absent, ChunkLock, Acquire, Read,
           Fetch, FetchFails, CacheDecoded, vars

LEMMA DecodedStep ==
    ASSUME DataInv, [Next]_vars
    PROVE  (DecodedOK /\ DecodedRight)'
  <1> USE DEF DataInv, TypeOK, OnlyRightBytes
  <1> DEFINE Good == /\ decoded' = [p \in Procs |-> decoded'[p]]
                     /\ \A p \in Procs : GoodCache(decoded'[p])
  <1>0. /\ decoded = [p \in Procs |-> decoded[p]]
        /\ \A p \in Procs : GoodCache(decoded[p])
    BY GoodCaches
  <1>1. ASSUME UNCHANGED decoded PROVE Good
    BY <1>0, <1>1
  <1>2. ASSUME NEW t \in Tasks, Hit(t) PROVE Good
    <2>1. Sha(t) \in Chunks /\ ProcOf[t] \in Procs
      BY <1>2, InCall DEF Hit
    <2>2. GoodCache(Promote(Cache(t), Sha(t)))
      BY <1>0, <1>2, <2>1, PromoteIsGood DEF Hit, Cache
    <2>3. decoded' = [decoded EXCEPT ![ProcOf[t]] = Promote(Cache(t), Sha(t))]
      BY <1>2 DEF Hit, Cache
    <2>4. QED
      BY <1>0, <2>1, <2>2, <2>3
  <1>3. ASSUME NEW t \in Tasks, CacheDecoded(t) PROVE Good
    <2>1. Sha(t) \in Chunks /\ ProcOf[t] \in Procs /\ got[t] = Sha(t)
      BY <1>3, InCall DEF CacheDecoded, At, CarriedRight
    <2>2. GoodCache(Put(Cache(t), Sha(t), got[t], Capacity))
      BY <1>0, <2>1, PutIsGood DEF Cache
    <2>3. decoded' = [decoded EXCEPT ![ProcOf[t]] = Put(Cache(t), Sha(t), got[t], Capacity)]
      BY <1>3 DEF CacheDecoded, Cache
    <2>4. QED
      BY <1>0, <2>1, <2>2, <2>3
  <1>4. ASSUME NEW p \in Procs, Crash(p) PROVE Good
    BY <1>0, <1>4, EmptyIsGood DEF Crash
  <1>5. Good
    BY <1>1, <1>2, <1>3, <1>4
       DEF Next, Step, Call, Miss, Exists, Absent, ChunkLock, Acquire, Read,
           DeleteCorrupt, Fetch, FetchFails, Create, Rename, WriteFails,
           FinishTmp, FinishPublished, Damage, vars
  <1>6. QED
    BY <1>5 DEF DecodedOK, DecodedRight, GoodCache, IsCache

LEMMA TasksStep ==
    ASSUME DataInv, [Next]_vars
    PROVE  (TasksOK /\ CarriedRight)'
  <1> USE DEF DataInv, TypeOK, OnlyRightBytes
  <1> DEFINE Goal == (TasksOK /\ CarriedRight)'
  \* A step of t within its call, that moves it to l.
  <1>1. ASSUME NEW t \in Tasks, pc[t] # "idle", NEW l \in PCs \ {"idle"}, Goto(t, l),
               UNCHANGED <<loading, arc, call, ret>>,
               \/ /\ UNCHANGED got
                  /\ l \in {"create", "rename", "cache"} => got[t] = Sha(t)
               \/ got' = [got EXCEPT ![t] = Sha(t)]
        PROVE  Goal
    <2>1. Sha(t) \in Chunks
      BY <1>1, InCall
    <2>2. TasksOK'
      BY <1>1, <2>1 DEF TasksOK, Goto, Contents
    <2>3. CarriedRight'
      BY <1>1, <2>1 DEF TasksOK, CarriedRight, Goto, Sha
    <2>4. QED
      BY <2>2, <2>3
  \* The return of t.
  <1>2. ASSUME NEW t \in Tasks, NEW r \in Contents \cup {Done, Err}, Return(t, r),
               UNCHANGED loading
        PROVE  Goal
    <2>1. TasksOK'
      BY <1>2 DEF TasksOK, Return, Goto, PCs
    <2>2. CarriedRight'
      BY <1>2 DEF TasksOK, CarriedRight, Return, Goto, Sha
    <2>3. QED
      BY <2>1, <2>2
  <1>3. ASSUME UNCHANGED <<loading, arc, pc, call, got, ret>>
        PROVE  Goal
    BY <1>3 DEF TasksOK, CarriedRight, Sha
  <1>4. ASSUME NEW t \in Tasks, NEW k \in Callable, Call(t, k)
        PROVE  Goal
    <2>1. TasksOK'
      BY <1>4, ConstantsAssumption DEF TasksOK, Call, Goto, At, PCs, Callable
    <2>2. CarriedRight'
      BY <1>4 DEF TasksOK, CarriedRight, Call, Goto, Sha
    <2>3. QED
      BY <2>1, <2>2
  <1>5. ASSUME NEW t \in Tasks, Step(t)
        PROVE  Goal
    <2> USE DEF At, PCs, Locked
    <2>1. CASE Hit(t)
      <3>1. Lookup(Cache(t), Sha(t)) \in Contents
        BY <2>1, InCall, GoodCaches, PromoteIsGood DEF Hit, Cache, Contents
      <3>2. QED
        BY <2>1, <3>1, <1>2 DEF Hit
    <2>2. CASE Miss(t)
      BY <2>2, <1>1 DEF Miss
    <2>3. CASE Exists(t)
      BY <2>3, <1>2 DEF Exists
    <2>4. CASE Absent(t)
      BY <2>4, <1>1 DEF Absent
    <2>5. CASE ChunkLock(t)
      <3>1. Sha(t) \in Chunks /\ ProcOf[t] \in Procs
        BY <2>5, InCall DEF ChunkLock
      <3>2. ASSUME NEW l \in Locks \cup {None},
                   arc' = [arc EXCEPT ![t] = l],
                   \/ UNCHANGED loading
                   \/ loading' = [loading EXCEPT ![ProcOf[t]][Sha(t)] = l]
            PROVE  /\ loading' \in [Procs -> [Chunks -> Locks \cup {None}]]
                   /\ arc' \in [Tasks -> Locks \cup {None}]
        <4>1. loading[ProcOf[t]] \in [Chunks -> Locks \cup {None}]
          BY <3>1 DEF TasksOK
        <4>2. [loading[ProcOf[t]] EXCEPT ![Sha(t)] = l] \in [Chunks -> Locks \cup {None}]
          BY <4>1
        <4>3. loading' \in [Procs -> [Chunks -> Locks \cup {None}]]
          BY <3>2, <4>2 DEF TasksOK
        <4>4. QED
          BY <3>2, <4>3 DEF TasksOK
      <3>3. /\ loading' \in [Procs -> [Chunks -> Locks \cup {None}]]
            /\ arc' \in [Tasks -> Locks \cup {None}]
        <4>1. loading[ProcOf[t]][Sha(t)] \in Locks \cup {None}
          BY <3>1 DEF TasksOK
        <4>2. QED
          BY <2>5, <3>2, <4>1 DEF ChunkLock
      <3>4. pc' = [pc EXCEPT ![t] = "wait"] /\ UNCHANGED <<call, got, ret>>
        BY <2>5 DEF ChunkLock, Goto
      <3>5. TasksOK'
        BY <2>5, <3>3, <3>4 DEF TasksOK, ChunkLock
      <3>6. CarriedRight'
        BY <3>4 DEF TasksOK, CarriedRight, Sha
      <3>7. QED
        BY <3>5, <3>6
    <2>6. CASE Acquire(t)
      BY <2>6, <1>1 DEF Acquire
    <2>7. CASE Read(t)
      BY <2>7, <1>1 DEF Read, Verifies
    <2>8. CASE DeleteCorrupt(t)
      BY <2>8, <1>1 DEF DeleteCorrupt
    <2>9. CASE Fetch(t)
      BY <2>9, <1>1 DEF Fetch, HashesTo
    <2>10. CASE FetchFails(t)
      BY <2>10, <1>2 DEF FetchFails
    <2>11. CASE Create(t)
      BY <2>11, <1>1 DEF Create, CarriedRight
    <2>12. CASE Rename(t)
      BY <2>12, <1>1 DEF Rename, CarriedRight
    <2>13. CASE WriteFails(t)
      BY <2>13, <1>2 DEF WriteFails
    <2>14. CASE CacheDecoded(t)
      <3>1. got[t] \in Contents
        BY <2>14, InCall DEF CacheDecoded, CarriedRight, Contents
      <3>2. QED
        BY <2>14, <3>1, <1>2 DEF CacheDecoded
    <2>15. QED
      BY <1>5, <2>1, <2>2, <2>3, <2>4, <2>5, <2>6, <2>7, <2>8, <2>9, <2>10,
         <2>11, <2>12, <2>13, <2>14 DEF Step
  <1>6. ASSUME NEW p \in Procs, Crash(p)
        PROVE  Goal
    <2>1. TasksOK'
      BY <1>6 DEF TasksOK, Crash, PCs
    <2>2. CarriedRight'
      BY <1>6 DEF TasksOK, CarriedRight, Crash, Sha
    <2>3. QED
      BY <2>1, <2>2
  <1>7. QED
    BY <1>3, <1>4, <1>5, <1>6 DEF Next, FinishTmp, FinishPublished, Damage, vars

\* The types hold, and the cache keeps and carries the right bytes only: torn,
\* rotten and misfiled files, wrong answers, failures and crashes included.
THEOREM TypeAndBytes == Spec => [](TypeOK /\ OnlyRightBytes)
  <1>1. Init => DataInv
    BY DataInit
  <1>2. DataInv /\ [Next]_vars => DataInv'
    BY FilesStep, DecodedStep, TasksStep DEF DataInv, TypeOK, OnlyRightBytes
  <1>3. QED
    BY <1>1, <1>2, PTL DEF Spec, DataInv

-----------------------------------------------------------------------------

\* A tokio mutex has one holder.
OneHolder ==
    \A t, u \in Tasks :
        t # u /\ pc[t] \in Locked /\ pc[u] \in Locked => arc[t] # arc[u]

LockInv == LocksAgree /\ OneHolder

LEMMA LockInit == Init => LockInv
  BY DEF Init, LockInv, LocksAgree, OneHolder, Locked

LEMMA LockStep ==
    ASSUME DataInv, LockInv, [Next]_vars
    PROVE  LockInv'
  <1> USE DEF DataInv, TypeOK
  <1> DEFINE Waiting == Locked \cup {"wait"}
  \* A step of t that leaves it as interested in its lock as before.
  <1>1. ASSUME NEW t \in Tasks, NEW l \in PCs, Goto(t, l),
               pc[t] \in Waiting <=> l \in Waiting,
               l \in Locked => pc[t] \in Locked,
               UNCHANGED <<loading, arc, call>>
        PROVE  LockInv'
    <2>1. pc'[t] = l /\ \A u \in Tasks : u # t => pc'[u] = pc[u]
      BY <1>1 DEF Goto, TasksOK
    <2>2. LocksAgree'
      BY <1>1, <2>1 DEF LockInv, LocksAgree, Sha
    <2>3. OneHolder'
      BY <1>1, <2>1 DEF LockInv, OneHolder
    <2>4. QED
      BY <2>2, <2>3 DEF LockInv
  \* The return of t.
  <1>2. ASSUME NEW t \in Tasks, NEW r, Return(t, r), UNCHANGED loading
        PROVE  LockInv'
    <2>1. /\ pc'[t] = "idle" /\ arc'[t] = None
          /\ \A u \in Tasks : u # t => pc'[u] = pc[u] /\ call'[u] = call[u] /\ arc'[u] = arc[u]
      BY <1>2 DEF Return, Goto, TasksOK
    <2>2. QED
      BY <1>2, <2>1 DEF LockInv, LocksAgree, OneHolder, Sha, Locked
  <1>3. ASSUME UNCHANGED <<loading, arc, pc, call>>
        PROVE  LockInv'
    BY <1>3 DEF LockInv, LocksAgree, OneHolder, Sha
  <1>4. ASSUME NEW t \in Tasks, ChunkLock(t)
        PROVE  LockInv'
    <2> DEFINE c == Sha(t)
               p == ProcOf[t]
    <2>1. /\ pc[t] = "lock" /\ pc'[t] = "wait" /\ UNCHANGED call
          /\ \A u \in Tasks : u # t => pc'[u] = pc[u] /\ arc'[u] = arc[u]
          /\ c \in Chunks /\ p \in Procs
      BY <1>4, InCall DEF ChunkLock, At, Goto, TasksOK
    <2>2. OneHolder'
      BY <2>1 DEF LockInv, OneHolder, Locked
    <2>3. ASSUME loading' = loading, arc'[t] = loading[p][c], arc'[t] # None
          PROVE  LocksAgree'
      BY <2>1, <2>3 DEF LockInv, LocksAgree, Sha, Locked
    <2>4. ASSUME NEW l \in Locks, loading' = [loading EXCEPT ![p][c] = l], arc'[t] = l,
                 loading[p][c] = None \/ ~ Live(loading[p][c])
          PROVE  LocksAgree'
      <3>1. l # None
        BY ConstantsAssumption
      <3>2. loading'[p][c] = l
        BY <2>1, <2>4 DEF TasksOK
      <3>3. \A q \in Procs, d \in Chunks :
                q # p \/ d # c => loading'[q][d] = loading[q][d]
        BY <2>1, <2>4 DEF TasksOK
      <3>4. ASSUME NEW u \in Tasks, u # t, pc[u] \in Waiting
            PROVE  ProcOf[u] # p \/ Sha(u) # c
        BY <2>4, <3>4 DEF LockInv, LocksAgree, Live
      <3>5. ASSUME NEW u \in Tasks, pc[u] \in Waiting
            PROVE  Sha(u) \in Chunks /\ ProcOf[u] \in Procs
        BY <3>5, InCall DEF Locked
      <3>6. QED
        BY <2>1, <2>4, <3>1, <3>2, <3>3, <3>4, <3>5 DEF LockInv, LocksAgree, Sha, Locked
    <2>5. LocksAgree'
      BY <1>4, <2>1, <2>3, <2>4 DEF ChunkLock, TasksOK, LockInv
    <2>6. QED
      BY <2>2, <2>5 DEF LockInv
  <1>5. ASSUME NEW t \in Tasks, Acquire(t)
        PROVE  LockInv'
    <2>1. /\ pc[t] = "wait" /\ pc'[t] \in Locked /\ UNCHANGED <<loading, arc, call>>
          /\ \A u \in Tasks : u # t => pc'[u] = pc[u]
          /\ ~ \E u \in Tasks : arc[u] = arc[t] /\ pc[u] \in Locked
      BY <1>5 DEF Acquire, At, Goto, TasksOK, Locked
    <2>2. QED
      BY <2>1 DEF LockInv, LocksAgree, OneHolder, Sha
  <1>6. ASSUME NEW t \in Tasks, NEW k \in Callable, Call(t, k)
        PROVE  LockInv'
    <2>1. /\ pc[t] = "idle" /\ pc'[t] \in {"hit", "stat"} /\ UNCHANGED <<loading, arc>>
          /\ \A u \in Tasks : u # t => pc'[u] = pc[u] /\ call'[u] = call[u]
      BY <1>6 DEF Call, At, Goto, TasksOK
    <2>2. QED
      BY <2>1 DEF LockInv, LocksAgree, OneHolder, Sha, Locked
  <1>7. ASSUME NEW t \in Tasks, Step(t)
        PROVE  LockInv'
    <2> USE DEF At, PCs, Locked
    <2>1. CASE Hit(t)
      BY <2>1, <1>2 DEF Hit
    <2>2. CASE Miss(t)
      BY <2>2, <1>1 DEF Miss
    <2>3. CASE Exists(t)
      BY <2>3, <1>2 DEF Exists
    <2>4. CASE Absent(t)
      BY <2>4, <1>1 DEF Absent
    <2>5. CASE Read(t)
      BY <2>5, <1>1 DEF Read
    <2>6. CASE DeleteCorrupt(t)
      BY <2>6, <1>1 DEF DeleteCorrupt
    <2>7. CASE Fetch(t)
      BY <2>7, <1>1 DEF Fetch
    <2>8. CASE FetchFails(t)
      BY <2>8, <1>2 DEF FetchFails
    <2>9. CASE Create(t)
      BY <2>9, <1>1 DEF Create
    <2>10. CASE Rename(t)
      BY <2>10, <1>1 DEF Rename
    <2>11. CASE WriteFails(t)
      BY <2>11, <1>2 DEF WriteFails
    <2>12. CASE CacheDecoded(t)
      BY <2>12, <1>2 DEF CacheDecoded
    <2>13. QED
      BY <1>4, <1>5, <1>7, <2>1, <2>2, <2>3, <2>4, <2>5, <2>6, <2>7, <2>8,
         <2>9, <2>10, <2>11, <2>12 DEF Step
  <1>8. ASSUME NEW p \in Procs, Crash(p)
        PROVE  LockInv'
    <2>1. \A u \in Tasks :
              IF ProcOf[u] = p
              THEN pc'[u] = "idle" /\ arc'[u] = None
              ELSE /\ pc'[u] = pc[u] /\ arc'[u] = arc[u] /\ call'[u] = call[u]
                   /\ loading'[ProcOf[u]] = loading[ProcOf[u]]
      BY <1>8, ConstantsAssumption DEF Crash, TasksOK
    <2>2. QED
      BY <2>1 DEF LockInv, LocksAgree, OneHolder, Sha, Locked
  <1>9. QED
    BY <1>3, <1>6, <1>7, <1>8 DEF Next, FinishTmp, FinishPublished, Damage, vars

\* The load locks agree, and with one holder per lock no two tasks of a
\* process ever read, delete, fetch or publish the same chunk at a time.
THEOREM OneLoaderPerChunk == Spec => [](LocksAgree /\ SingleLoader)
  <1>1. Init => DataInv /\ LockInv
    BY DataInit, LockInit
  <1>2. DataInv /\ LockInv /\ [Next]_vars => DataInv' /\ LockInv'
    BY FilesStep, DecodedStep, TasksStep, LockStep DEF DataInv, TypeOK, OnlyRightBytes
  <1>3. LockInv => SingleLoader
    BY DEF LockInv, LocksAgree, OneHolder, SingleLoader
  <1>4. QED
    BY <1>1, <1>2, <1>3, PTL DEF Spec, LockInv

-----------------------------------------------------------------------------

\* Which labels belong to get and which to ensure.
OpInv ==
    \A t \in Tasks :
        /\ pc[t] \in {"hit", "recheck", "read", "delete"} => IsGet(t)
        /\ pc[t] \in {"stat", "restat"} => ~ IsGet(t)

LEMMA OpStep ==
    ASSUME DataInv, OpInv, [Next]_vars
    PROVE  OpInv'
  <1> USE DEF DataInv, TypeOK
  <1>1. ASSUME NEW t \in Tasks, NEW l, Goto(t, l), UNCHANGED call,
               l \in {"hit", "recheck", "read", "delete"} => IsGet(t),
               l \in {"stat", "restat"} => ~ IsGet(t)
        PROVE  OpInv'
    BY <1>1 DEF OpInv, Goto, IsGet, TasksOK
  <1>2. ASSUME NEW t \in Tasks, NEW r, Return(t, r)
        PROVE  OpInv'
    BY <1>2 DEF OpInv, Return, Goto, IsGet, TasksOK
  <1>3. ASSUME UNCHANGED <<pc, call>>
        PROVE  OpInv'
    BY <1>3 DEF OpInv, IsGet
  <1>4. ASSUME NEW t \in Tasks, NEW k \in Callable, Call(t, k)
        PROVE  OpInv'
    BY <1>4 DEF OpInv, Call, Goto, IsGet, TasksOK
  <1>5. ASSUME NEW t \in Tasks, Step(t)
        PROVE  OpInv'
    <2> USE DEF At
    <2>1. CASE Hit(t) \/ Exists(t) \/ FetchFails(t) \/ WriteFails(t) \/ CacheDecoded(t)
      BY <2>1, <1>2 DEF Hit, Exists, FetchFails, WriteFails, CacheDecoded
    <2>2. CASE Miss(t) \/ Absent(t)
      BY <2>2, <1>1 DEF Miss, Absent, OpInv
    <2>3. CASE ChunkLock(t) \/ Acquire(t)
      BY <2>3, <1>1 DEF ChunkLock, Acquire
    <2>4. CASE Read(t)
      BY <2>4, <1>1 DEF Read, OpInv
    <2>5. CASE DeleteCorrupt(t) \/ Fetch(t) \/ Create(t) \/ Rename(t)
      BY <2>5, <1>1 DEF DeleteCorrupt, Fetch, Create, Rename
    <2>6. QED
      BY <1>5, <2>1, <2>2, <2>3, <2>4, <2>5 DEF Step
  <1>6. ASSUME NEW p \in Procs, Crash(p)
        PROVE  OpInv'
    BY <1>6 DEF OpInv, Crash, IsGet
  <1>7. QED
    BY <1>3, <1>4, <1>5, <1>6 DEF Next, FinishTmp, FinishPublished, Damage, vars

LEMMA StepRefines ==
    ASSUME DataInv, OpInv, [Next]_vars
    PROVE  [Store!Next]_(Store!vars)
  <1> USE DEF DataInv, TypeOK
  <1> DEFINE Goal == [Store!Next]_(Store!vars)
  <1>1. ASSUME NEW t \in Tasks, pc[t] # "idle",
               NEW r, r = Err \/ r = (IF IsGet(t) THEN Sha(t) ELSE Done), Return(t, r)
        PROVE  Goal
    <2>1. call[t] # None
      BY <1>1 DEF TasksOK
    <2>2. r \in Store!Answers(call[t])
      BY <1>1 DEF Store!Answers, IsGet, Sha
    <2>3. Store!Answer(t)
      BY <1>1, <2>1, <2>2 DEF Store!Answer, Return
    <2>4. QED
      BY <2>3 DEF Store!Next
  <1>2. ASSUME UNCHANGED <<call, ret>>
        PROVE  Goal
    BY <1>2 DEF Store!vars
  <1>3. ASSUME NEW t \in Tasks, NEW k \in Callable, Call(t, k)
        PROVE  Goal
    <2>1. call[t] = None
      BY <1>3 DEF Call, At, TasksOK
    <2>2. k \in Store!Calls
      BY DEF Store!Calls, Store!Ops, Callable
    <2>3. Store!Call(t, k)
      BY <1>3, <2>1 DEF Call, Store!Call
    <2>4. QED
      BY <2>2, <2>3 DEF Store!Next
  <1>4. ASSUME NEW t \in Tasks, Step(t)
        PROVE  Goal
    <2> USE DEF At
    <2>1. CASE Hit(t)
      <3>1. Lookup(Cache(t), Sha(t)) = Sha(t) /\ IsGet(t)
        BY <2>1, InCall, GoodCaches, PromoteIsGood DEF Hit, Cache, OnlyRightBytes, OpInv
      <3>2. QED
        BY <2>1, <3>1, <1>1 DEF Hit
    <2>2. CASE Exists(t)
      BY <2>2, <1>1 DEF Exists, OpInv
    <2>3. CASE FetchFails(t) \/ WriteFails(t)
      BY <2>3, <1>1 DEF FetchFails, WriteFails
    <2>4. CASE CacheDecoded(t)
      BY <2>4, <1>1 DEF CacheDecoded, OnlyRightBytes, CarriedRight
    <2>5. CASE \/ Miss(t) \/ Absent(t) \/ ChunkLock(t) \/ Acquire(t) \/ Read(t)
               \/ DeleteCorrupt(t) \/ Fetch(t) \/ Create(t) \/ Rename(t)
      BY <2>5, <1>2 DEF Miss, Absent, ChunkLock, Acquire, Read, DeleteCorrupt,
                        Fetch, Create, Rename
    <2>6. QED
      BY <1>4, <2>1, <2>2, <2>3, <2>4, <2>5 DEF Step
  <1>5. ASSUME NEW p \in Procs, Crash(p)
        PROVE  Goal
    <2>1. Store!Abort({t \in Tasks : ProcOf[t] = p})
      BY <1>5 DEF Crash, Store!Abort
    <2>2. QED
      BY <2>1 DEF Store!Next
  <1>6. QED
    BY <1>2, <1>3, <1>4, <1>5 DEF Next, FinishTmp, FinishPublished, Damage, vars

\* The cache implements the ChunkStore trait: whatever happens on disk, on the
\* network and to the processes, a get answers with the named bytes or Err.
THEOREM ImplementsChunkStore == Spec => IsChunkStore
  <1>1. Init => DataInv /\ OpInv /\ Store!Init
    BY DataInit DEF Init, OpInv, Store!Init
  <1>2. DataInv /\ OpInv /\ [Next]_vars
            => DataInv' /\ OpInv' /\ [Store!Next]_(Store!vars)
    BY FilesStep, DecodedStep, TasksStep, OpStep, StepRefines
       DEF DataInv, TypeOK, OnlyRightBytes
  <1>3. QED
    BY <1>1, <1>2, PTL DEF Spec, IsChunkStore, Store!Spec

-----------------------------------------------------------------------------
(* One process that alone deletes from its cache directory: what it holds  *)
(* decoded is on disk and is not loaded again.  With a second process, or  *)
(* with prune, either may have the file deleted at any time.               *)

Alone == /\ \A p, q \in Procs : p = q
         /\ Faults \subseteq {"fetch", "write", "rot", "crash"}

\* A load that has its bytes on the way to the decoded cache has filed them.
Filed ==
    \A t \in Tasks :
        /\ pc[t] = "rename" => tmp[t] # None
        /\ pc[t] = "cache" => disk[Sha(t)] # None

PersistInv == WriteThrough /\ NoRedundantLoad /\ Filed

LEMMA PersistInit == Init => PersistInv
  BY DEF Init, PersistInv, WriteThrough, NoRedundantLoad, Filed, Holds

\* What a put and a hit leave in the decoded cache.
LEMMA HeldAfterPut ==
    ASSUME NEW s, GoodCache(s), NEW c \in Chunks, NEW k, Holds(Put(s, c, c, Capacity), k)
    PROVE  k = c \/ Holds(s, k)
  <1>1. Capacity \in Nat \ {0} /\ c \in Contents /\ IsCache(s, Chunks, Contents) /\ Len(s) <= Capacity
    BY ConstantsAssumption DEF GoodCache, Contents
  <1> DEFINE r == Put(s, c, c, Capacity)
  <1>2. /\ IsCache(r, Chunks, Contents)
        /\ Len(r) <= Capacity
        /\ \A j \in 1..Len(r) : r[j] = Entry(c, c) \/ \E i \in 1..Len(s) : r[j] = s[i]
    BY <1>1, PutResult
  <1> QED
    BY <1>2 DEF Holds, Entry

LEMMA HeldAfterHit ==
    ASSUME NEW s, GoodCache(s), NEW c \in Chunks, Holds(s, c), NEW k, Holds(Promote(s, c), k)
    PROVE  Holds(s, k)
  <1> DEFINE r == Promote(s, c)
  <1>1. /\ IsCache(r, Chunks, Contents)
        /\ Len(r) = Len(s)
        /\ \A j \in 1..Len(r) : \E i \in 1..Len(s) : r[j] = s[i]
    BY PromoteResult DEF GoodCache
  <1> QED
    BY <1>1 DEF Holds

\* Only the end of a load brings a chunk into a decoded cache.
LEMMA HeldStep ==
    ASSUME DataInv, [Next]_vars, NEW p \in Procs, NEW c \in Chunks, Holds(decoded'[p], c)
    PROVE  \/ Holds(decoded[p], c)
           \/ \E t \in Tasks : CacheDecoded(t) /\ ProcOf[t] = p /\ Sha(t) = c
  <1>0. \A q \in Procs : GoodCache(decoded[q])
    BY GoodCaches DEF DataInv, TypeOK, OnlyRightBytes
  <1>1. decoded = [q \in Procs |-> decoded[q]]
    BY GoodCaches DEF DataInv, TypeOK, OnlyRightBytes
  <1>2. CASE UNCHANGED decoded
    BY <1>2
  <1>3. ASSUME NEW t \in Tasks, Hit(t) PROVE Holds(decoded[p], c)
    <2>1. Sha(t) \in Chunks /\ ProcOf[t] \in Procs
      BY <1>3, InCall DEF Hit, DataInv, TypeOK
    <2>2. decoded' = [decoded EXCEPT ![ProcOf[t]] = Promote(decoded[ProcOf[t]], Sha(t))]
      BY <1>3 DEF Hit
    <2>3. CASE p = ProcOf[t]
      <3>1. decoded'[p] = Promote(decoded[p], Sha(t))
        BY <1>1, <2>2, <2>3
      <3>2. Holds(decoded[p], Sha(t)) /\ GoodCache(decoded[p])
        BY <1>0, <1>3, <2>3 DEF Hit, Cache
      <3> QED
        BY <2>1, <3>1, <3>2, HeldAfterHit
    <2>4. CASE p # ProcOf[t]
      BY <1>1, <2>2, <2>4
    <2> QED
      BY <2>3, <2>4
  <1>4. ASSUME NEW t \in Tasks, CacheDecoded(t)
        PROVE  Holds(decoded[p], c) \/ (ProcOf[t] = p /\ Sha(t) = c)
    <2>1. Sha(t) \in Chunks /\ ProcOf[t] \in Procs /\ got[t] = Sha(t)
      BY <1>4, InCall DEF CacheDecoded, At, DataInv, TypeOK, OnlyRightBytes, CarriedRight
    <2>2. decoded' = [decoded EXCEPT ![ProcOf[t]] =
                          Put(decoded[ProcOf[t]], Sha(t), Sha(t), Capacity)]
      BY <1>4, <2>1 DEF CacheDecoded
    <2>3. CASE p = ProcOf[t]
      <3>1. decoded'[p] = Put(decoded[p], Sha(t), Sha(t), Capacity)
        BY <1>1, <2>2, <2>3
      <3> QED
        BY <1>0, <2>1, <2>3, <3>1, HeldAfterPut
    <2>4. CASE p # ProcOf[t]
      BY <1>1, <2>2, <2>4
    <2> QED
      BY <2>3, <2>4
  <1>5. ASSUME NEW q \in Procs, Crash(q) PROVE Holds(decoded[p], c)
    <2>1. decoded'[p] = << >> \/ decoded'[p] = decoded[p]
      BY <1>1, <1>5 DEF Crash
    <2> QED
      BY <2>1 DEF Holds
  <1> QED
    BY <1>2, <1>3, <1>4, <1>5
       DEF Next, Step, Call, Miss, Exists, Absent, ChunkLock, Acquire, Read,
           DeleteCorrupt, Fetch, FetchFails, Create, Rename, WriteFails,
           FinishTmp, FinishPublished, Damage, vars

\* Only the deletion of what did not verify takes a chunk's file away.
LEMMA DiskStep ==
    ASSUME Alone, DataInv, PersistInv, [Next]_vars, NEW c \in Chunks, disk[c] # None
    PROVE  \/ disk'[c] # None
           \/ \E t \in Tasks : DeleteCorrupt(t) /\ Sha(t) = c
  <1> USE DEF DataInv, TypeOK, FilesOK
  <1>1. CASE UNCHANGED disk
    BY <1>1
  <1>2. ASSUME NEW t \in Tasks, DeleteCorrupt(t), Sha(t) # c PROVE disk'[c] # None
    BY <1>2 DEF DeleteCorrupt
  <1>3. ASSUME NEW t \in Tasks, Rename(t) PROVE disk'[c] # None
    BY <1>3 DEF Rename, At, PersistInv, Filed
  <1>4. None \notin File /\ Torn \in File /\ \A b \in Contents : Whole(b) \in File
    BY ConstantsAssumption DEF File, Contents, Torn, Whole
  <1>5. ASSUME NEW d \in Chunks, FinishPublished(d) PROVE disk'[c] # None
    <2>1. disk[d].frame \in Contents
      BY <1>5 DEF FinishPublished, Due, File
    <2> QED
      BY <1>4, <1>5, <2>1 DEF FinishPublished, Outcomes
  <1>6. ASSUME NEW p \in Procs, Crash(p) PROVE disk'[c] # None
    BY <1>4, <1>6 DEF Crash
  <1>7. ASSUME NEW d \in Chunks, Damage(d) PROVE disk'[c] # None
    <2>1. "remove" \notin Faults
      BY DEF Alone
    <2> QED
      BY <1>4, <1>7, <2>1 DEF Damage
  <1> QED
    BY <1>1, <1>2, <1>3, <1>5, <1>6, <1>7
       DEF Next, Step, Call, Hit, Miss, Exists, Absent, ChunkLock, Acquire, Read,
           Fetch, FetchFails, Create, WriteFails, CacheDecoded, FinishTmp, vars

LEMMA WriteThroughStep ==
    ASSUME Alone, DataInv, PersistInv, [Next]_vars
    PROVE  WriteThrough'
  <1> SUFFICES ASSUME NEW p \in Procs, NEW c \in Chunks, Holds(decoded'[p], c)
               PROVE  disk'[c] # None
    BY DEF WriteThrough
  <1>1. ASSUME NEW t \in Tasks, CacheDecoded(t), Sha(t) = c PROVE disk'[c] # None
    BY <1>1 DEF CacheDecoded, At, PersistInv, Filed
  <1>2. CASE Holds(decoded[p], c)
    <2>1. disk[c] # None
      BY <1>2 DEF PersistInv, WriteThrough
    <2>2. ASSUME NEW t \in Tasks, DeleteCorrupt(t), Sha(t) = c PROVE FALSE
      <3>1. pc[t] = "delete" /\ ProcOf[t] = p
        BY <2>2, ConstantsAssumption DEF DeleteCorrupt, At, Alone
      <3> QED
        BY <1>2, <2>2, <3>1 DEF PersistInv, NoRedundantLoad, Cache
    <2> QED
      BY <2>1, <2>2, DiskStep
  <1> QED
    BY <1>1, <1>2, HeldStep

\* Where a task's step may take it, as far as loading goes.
LEMMA LoadingStep ==
    ASSUME DataInv, [Next]_vars, NEW u \in Tasks, pc'[u] \in {"read", "delete", "fetch"}
    PROVE  /\ Sha(u)' = Sha(u)
           /\ pc[u] \in Locked
           /\ \/ pc[u] \in {"read", "delete", "fetch"}
              \/ Miss(u) /\ pc[u] = "recheck"
              \/ Absent(u) /\ pc[u] = "restat"
  <1> USE DEF DataInv, TypeOK, TasksOK, Locked, Sha, At, Goto
  <1>1. ASSUME NEW t \in Tasks, Step(t)
        PROVE  /\ Sha(u)' = Sha(u)
               /\ \/ pc[u] \in {"read", "delete", "fetch"}
                  \/ Miss(u) /\ pc[u] = "recheck"
                  \/ Absent(u) /\ pc[u] = "restat"
    <2>1. CASE u # t
      BY <1>1, <2>1 DEF Step, Hit, Miss, Exists, Absent, ChunkLock, Acquire, Read, DeleteCorrupt,
         Fetch, FetchFails, Create, Rename, WriteFails, CacheDecoded, Return
    <2>2. CASE u = t
      <3>1. Miss(t) \/ Absent(t) \/ Read(t) \/ DeleteCorrupt(t)
        BY <1>1, <2>2 DEF Step, Hit, Exists, ChunkLock, Acquire, Fetch, FetchFails, Create,
           Rename, WriteFails, CacheDecoded, Return
      <3> QED
        BY <2>2, <3>1 DEF Miss, Absent, Read, DeleteCorrupt
    <2> QED
      BY <2>1, <2>2
  <1>2. ASSUME NEW t \in Tasks, NEW k \in Callable, Call(t, k)
        PROVE  Sha(u)' = Sha(u) /\ pc[u] \in {"read", "delete", "fetch"}
    BY <1>2 DEF Call
  <1>3. ASSUME NEW p \in Procs, Crash(p)
        PROVE  Sha(u)' = Sha(u) /\ pc[u] \in {"read", "delete", "fetch"}
    BY <1>3 DEF Crash
  <1>4. CASE UNCHANGED <<pc, call>>
    BY <1>4
  <1> QED
    BY <1>1, <1>2, <1>3, <1>4 DEF Next, FinishTmp, FinishPublished, Damage, vars

LEMMA NoRedundantLoadStep ==
    ASSUME Alone, DataInv, SingleLoader, PersistInv, [Next]_vars
    PROVE  NoRedundantLoad'
  <1> SUFFICES ASSUME NEW u \in Tasks, pc'[u] \in {"read", "delete", "fetch"},
                      Holds(decoded'[ProcOf[u]], Sha(u)')
               PROVE  FALSE
    BY DEF NoRedundantLoad, Cache
  <1> DEFINE p == ProcOf[u]
             c == Sha(u)
  <1>1. /\ Sha(u)' = c /\ pc[u] \in Locked
        /\ \/ pc[u] \in {"read", "delete", "fetch"}
           \/ Miss(u) /\ pc[u] = "recheck"
           \/ Absent(u) /\ pc[u] = "restat"
    BY LoadingStep
  <1>2. p \in Procs /\ c \in Chunks
    BY <1>1, InCall DEF DataInv, TypeOK, Locked
  <1>3. ~ Holds(decoded[p], c)
    <2>1. CASE pc[u] \in {"read", "delete", "fetch"}
      BY <2>1 DEF PersistInv, NoRedundantLoad, Cache
    <2>2. CASE Miss(u)
      BY <2>2 DEF Miss, Cache
    <2>3. CASE Absent(u)
      <3>1. disk[c] = None
        BY <2>3 DEF Absent, Alone
      <3> QED
        BY <1>2, <3>1 DEF PersistInv, WriteThrough
    <2> QED
      BY <1>1, <2>1, <2>2, <2>3
  <1>4. PICK t \in Tasks : CacheDecoded(t) /\ ProcOf[t] = p /\ Sha(t) = c
    BY <1>1, <1>2, <1>3, HeldStep
  <1>5. pc[t] = "cache" /\ pc'[t] = "idle" /\ u # t
    BY <1>4 DEF CacheDecoded, At, Return, Goto, DataInv, TypeOK, TasksOK
  <1> QED
    BY <1>1, <1>4, <1>5 DEF SingleLoader, Locked

LEMMA FiledStep ==
    ASSUME Alone, DataInv, SingleLoader, PersistInv, [Next]_vars
    PROVE  Filed'
  <1> SUFFICES ASSUME NEW u \in Tasks
               PROVE  /\ pc'[u] = "rename" => tmp'[u] # None
                      /\ pc'[u] = "cache" => disk'[Sha(u)'] # None
    BY DEF Filed
  <1>1. None \notin File /\ Torn \in File /\ \A b \in Contents : Whole(b) \in File
    BY ConstantsAssumption DEF File, Contents, Torn, Whole
  <1>2. ASSUME pc'[u] = "rename" PROVE tmp'[u] # None
    <2> USE DEF DataInv, TypeOK, TasksOK, FilesOK, At, Goto
    <2>1. CASE Create(u)
      <3>1. got[u] \in Contents /\ ProcOf[u] \in Procs
        BY <2>1, ConstantsAssumption DEF Create, OnlyRightBytes, CarriedRight, Sha, Callable, Contents
      <3>2. tmp'[u] \in File
        BY <2>1, <3>1 DEF Create, File
      <3> QED
        BY <1>1, <3>2
    <2>2. CASE pc[u] = "rename" /\ tmp'[u] = tmp[u]
      BY <2>2 DEF PersistInv, Filed
    <2>3. CASE pc[u] = "rename" /\ FinishTmp(u)
      <3>1. tmp[u] \in File /\ tmp[u].frame \in Contents
        BY <2>3 DEF FinishTmp, Due, File
      <3> QED
        BY <1>1, <2>3, <3>1 DEF FinishTmp, Outcomes
    <2>4. ASSUME NEW t \in Tasks, Step(t) PROVE Create(u) \/ (pc[u] = "rename" /\ tmp'[u] = tmp[u])
      BY <1>2, <2>4 DEF Step, Hit, Miss, Exists, Absent, ChunkLock, Acquire, Read, DeleteCorrupt,
         Fetch, FetchFails, Create, Rename, WriteFails, CacheDecoded, Return
    <2>5. ASSUME NEW t \in Tasks, NEW k \in Callable, Call(t, k)
          PROVE  pc[u] = "rename" /\ tmp'[u] = tmp[u]
      BY <1>2, <2>5 DEF Call
    <2>6. ASSUME NEW p \in Procs, Crash(p) PROVE pc[u] = "rename" /\ tmp'[u] = tmp[u]
      BY <1>2, <2>6 DEF Crash
    <2>7. ASSUME NEW t \in Tasks, FinishTmp(t)
          PROVE  pc[u] = "rename" /\ (tmp'[u] = tmp[u] \/ FinishTmp(u))
      BY <1>2, <2>7 DEF FinishTmp
    <2> QED
      BY <1>2, <2>1, <2>2, <2>3, <2>4, <2>5, <2>6, <2>7 DEF Next, FinishPublished, Damage, vars
  <1>3. ASSUME pc'[u] = "cache" PROVE disk'[Sha(u)'] # None
    <2> USE DEF DataInv, TypeOK, TasksOK, At, Goto
    <2>1. /\ Sha(u)' = Sha(u)
          /\ (pc[u] = "cache" \/ Read(u) \/ Rename(u))
      <3>1. ASSUME NEW t \in Tasks, Step(t), u # t PROVE pc[u] = "cache" /\ Sha(u)' = Sha(u)
        BY <1>3, <3>1 DEF Step, Hit, Miss, Exists, Absent, ChunkLock, Acquire, Read, DeleteCorrupt,
           Fetch, FetchFails, Create, Rename, WriteFails, CacheDecoded, Return, Sha
      <3>2. ASSUME Step(u) PROVE (Read(u) \/ Rename(u)) /\ Sha(u)' = Sha(u)
        BY <1>3, <3>2 DEF Step, Hit, Miss, Exists, Absent, ChunkLock, Acquire, Read, DeleteCorrupt,
           Fetch, FetchFails, Create, Rename, WriteFails, CacheDecoded, Return, Sha
      <3>3. ASSUME NEW t \in Tasks, NEW k \in Callable, Call(t, k)
            PROVE  pc[u] = "cache" /\ Sha(u)' = Sha(u)
        BY <1>3, <3>3 DEF Call, Sha
      <3>4. ASSUME NEW p \in Procs, Crash(p) PROVE pc[u] = "cache" /\ Sha(u)' = Sha(u)
        BY <1>3, <3>4 DEF Crash, Sha
      <3> QED
        BY <1>3, <3>1, <3>2, <3>3, <3>4 DEF Next, FinishTmp, FinishPublished, Damage, vars, Sha
    <2>2. CASE Read(u)
      BY <1>3, <2>1, <2>2 DEF Read
    <2>3. CASE Rename(u)
      <3>1. Sha(u) \in Chunks
        BY <2>3, InCall DEF Rename
      <3> QED
        BY <2>1, <2>3, <3>1 DEF Rename, FilesOK, PersistInv, Filed
    <2>4. CASE pc[u] = "cache"
      <3>1. Sha(u) \in Chunks /\ disk[Sha(u)] # None
        BY <2>4, InCall DEF PersistInv, Filed
      <3>2. ASSUME NEW t \in Tasks, DeleteCorrupt(t), Sha(t) = Sha(u) PROVE FALSE
        <4>1. pc[t] = "delete" /\ ProcOf[t] = ProcOf[u]
          BY <3>2, ConstantsAssumption DEF DeleteCorrupt, Alone
        <4> QED
          BY <2>4, <3>2, <4>1 DEF SingleLoader, Locked
      <3> QED
        BY <2>1, <3>1, <3>2, DiskStep
    <2> QED
      BY <2>1, <2>2, <2>3, <2>4
  <1> QED
    BY <1>2, <1>3

\* One process that nobody deletes files from under keeps what it decoded on
\* disk and never reads or fetches it again, however its tasks interleave,
\* whatever is torn, rotten or wrongly delivered, and whenever it dies.
THEOREM OneProcessLoadsOnce ==
    ASSUME Alone
    PROVE  Spec => [](WriteThrough /\ NoRedundantLoad)
  <1>1. Init => PersistInv
    BY PersistInit
  <1>2. DataInv /\ SingleLoader /\ PersistInv /\ [Next]_vars => PersistInv'
    <2> SUFFICES ASSUME DataInv, SingleLoader, PersistInv, [Next]_vars PROVE PersistInv'
      OBVIOUS
    <2>1. WriteThrough'
      BY WriteThroughStep
    <2>2. NoRedundantLoad'
      BY NoRedundantLoadStep
    <2>3. Filed'
      BY FiledStep
    <2> QED
      BY <2>1, <2>2, <2>3 DEF PersistInv
  <1>3. TypeOK /\ OnlyRightBytes => DataInv
    BY DEF DataInv
  <1>4. PersistInv => WriteThrough /\ NoRedundantLoad
    BY DEF PersistInv
  <1> QED
    BY <1>1, <1>2, <1>3, <1>4, TypeAndBytes, OneLoaderPerChunk, PTL DEF Spec
=============================================================================
