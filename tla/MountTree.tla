----------------------------- MODULE MountTree ------------------------------
(***************************************************************************)
(* The tree a mount serves: synthetic /app/depot directories, snapshot     *)
(* slots below them, and the lookups of the FUSE, NFS and ProjFS workers,  *)
(* which open a lazily registered snapshot on first use while snapshots    *)
(* are added and removed.                                                  *)
(*                                                                         *)
(* A snapshot is identified with the <<app, depot, gid>> it was loaded     *)
(* for.  A step is one hold of the tree's RwLock, or one of the OnceCell.  *)
(***************************************************************************)
EXTENDS Inode, Sequences, Functions

CONSTANTS Apps, Depots, Gids,  \* names
          Workers,             \* tasks serving file system requests
          None, ENOENT, EIO

Manifests == Apps \X Depots \X Gids
Names == Apps \cup Depots \cup Gids

\* What a request comes to, and "nothing", are told from node ids and manifests.
ASSUME AnswersAssumption ==
    /\ {None, ENOENT, EIO} \cap (Nat \cup Manifests) = {}
    /\ None \notin [manifest : Manifests, entry : Manifests \cup {None}]

VARIABLES synthetic,   \* synthetic directories; their index is their node id's
          synthByPath, \* paths of the app and depot directories
          slots,       \* indexed by snapshot id
          cells,       \* the OnceCell of each slot's LazyEntry
          added,       \* what the last add came back with
          pc, sid,     \* a worker's place, and the snapshot id of its request
          asked, ret   \* the manifest the id was looked up for; what is served

treeVars == <<synthetic, synthByPath, slots>>
vars == <<synthetic, synthByPath, slots, cells, added, pc, sid, asked, ret>>

Init ==
    /\ synthetic = << [parent |-> None, name |-> None, children |-> << >>] >>
    /\ synthByPath = << >>
    /\ slots = << >>
    /\ cells = << >>
    /\ added = None
    /\ pc = [w \in Workers |-> "idle"]
    /\ sid = [w \in Workers |-> None]
    /\ asked = [w \in Workers |-> None]
    /\ ret = [w \in Workers |-> None]

-----------------------------------------------------------------------------

Bind(f, x, y) == [z \in DOMAIN f \cup {x} |-> IF z = x THEN y ELSE f[z]]
Unbind(f, x) == Restrict(f, DOMAIN f \ {x})

\* Mutant: a path is made of the last name only.
PathToName(d, parent, name) == <<name>>

\* The path of a child, by path_of_synthetic of its parent, which is the root
\* or an app's directory in it.
PathTo(d, parent, name) ==
    IF parent = ROOT THEN <<name>> ELSE <<d[parent].name, name>>

\* ensure_synthetic: the directory `name` below dir number `parent`, made if
\* it is not there, in directories d and paths m.
Ensured(d, m, parent, name) ==
    IF name \in DOMAIN d[parent].children
    THEN [dirs |-> d, paths |-> m, at |-> IndexIn(d[parent].children[name])]
    ELSE LET n == Len(d) + 1
             ino == pack(SYNTHETIC, n)
             new == [parent |-> pack(SYNTHETIC, parent), name |-> name, children |-> << >>]
         IN  [dirs |-> Append([d EXCEPT ![parent].children = Bind(@, name, ino)], new),
              paths |-> Bind(m, PathTo(d, parent, name), ino),
              at |-> n]

\* The synthetic directories as an add of m leaves them, and the number of
\* the depot directory: they stay even when the add then fails.
WithDirs(m) ==
    LET app == Ensured(synthetic, synthByPath, ROOT, m[1])
    IN  Ensured(app.dirs, app.paths, app.at, m[2])

\* Mutants: a manifest is mounted over itself; one id too many is given out.
AlreadyMountedUnchecked(d, m) == m \notin Manifests

AlreadyMounted(d, m) == m[3] \in DOMAIN d.dirs[d.at].children
NextId == Len(slots) + 1
TooManySnapshots == NextId > MaxSnapshot

\* Mutant: an add takes the slot of a snapshot that was removed.
AddInFreeSlot(m, lazy) ==
    LET d == WithDirs(m)
        free == {i \in 1..Len(slots) : slots[i] = None}
        id == IF free = {} THEN NextId ELSE CHOOSE i \in free : TRUE
        At(s, v) == [i \in DOMAIN s \cup {id} |-> IF i = id THEN v ELSE s[i]]
    IN  /\ ~ AlreadyMounted(d, m) /\ id <= MaxSnapshot
        /\ added' = "ok"
        /\ slots' = At(slots, [manifest |-> m, entry |-> IF lazy THEN None ELSE m])
        /\ cells' = At(cells, [opens |-> m, state |-> "empty"])
        /\ synthetic' = [d.dirs EXCEPT ![d.at].children = Bind(@, m[3], pack(id, 0))]
        /\ synthByPath' = d.paths
        /\ UNCHANGED <<pc, sid, asked, ret>>

\* reserve_slot, for add, which has the snapshot, and for add_lazy, which
\* has an opener for it.
Add(m, lazy) ==
    LET d == WithDirs(m)
    IN  /\ IF AlreadyMounted(d, m) \/ TooManySnapshots
           THEN /\ added' = IF AlreadyMounted(d, m) THEN "AlreadyMounted" ELSE "TooManySnapshots"
                /\ synthetic' = d.dirs
                /\ UNCHANGED <<slots, cells>>
           ELSE /\ added' = "ok"
                /\ slots' = Append(slots, [manifest |-> m, entry |-> IF lazy THEN None ELSE m])
                /\ cells' = Append(cells, [opens |-> m, state |-> "empty"])
                /\ synthetic' = [d.dirs EXCEPT ![d.at].children =
                                     Bind(@, m[3], pack(NextId, 0))]
        /\ synthByPath' = d.paths
        /\ UNCHANGED <<pc, sid, asked, ret>>

\* remove: the slot goes for good, and its entry in the depot directory.
Remove(id) ==
    /\ slots[id] # None
    /\ LET m == slots[id].manifest
           dir == IndexIn(synthByPath[<<m[1], m[2]>>])
       IN  synthetic' = [synthetic EXCEPT ![dir].children = Unbind(@, m[3])]
    /\ slots' = [slots EXCEPT ![id] = None]
    /\ UNCHANGED <<synthByPath, cells, added, pc, sid, asked, ret>>

-----------------------------------------------------------------------------

Goto(w, l) == pc' = [pc EXCEPT ![w] = l]

\* The child inode that walking the tree by name comes to, or None.
Walk(m) ==
    LET Child(ino, name) ==
            IF ino = None \/ name \notin DOMAIN synthetic[IndexIn(ino)].children
            THEN None ELSE synthetic[IndexIn(ino)].children[name]
    IN  Child(Child(Child(ROOT, m[1]), m[2]), m[3])

\* The client walks to a snapshot's root (synthetic_child, find) and keeps
\* the node id; the request that uses it may come any time later.
Lookup(w, m) ==
    /\ pc[w] = "idle"
    /\ Walk(m) # None
    /\ sid' = [sid EXCEPT ![w] = SnapshotOf(Walk(m))]
    /\ asked' = [asked EXCEPT ![w] = m]
    /\ ret' = [ret EXCEPT ![w] = None]
    /\ Goto(w, "request")
    /\ UNCHANGED <<treeVars, cells, added>>

\* A request is answered, and the node id stays with the client.
Reply(w, r) ==
    /\ ret' = [ret EXCEPT ![w] = r]
    /\ Goto(w, "served")

\* A further request on the same node id, or the client forgets it.
Again(w) ==
    /\ pc[w] = "served"
    /\ \/ Goto(w, "request") /\ UNCHANGED <<sid, asked>>
       \/ /\ Goto(w, "idle")
          /\ sid' = [sid EXCEPT ![w] = None]
          /\ asked' = [asked EXCEPT ![w] = None]
    /\ ret' = [ret EXCEPT ![w] = None]
    /\ UNCHANGED <<treeVars, cells, added>>

\* slot_lookup of a snapshot that is open, of one that is gone, and of one
\* that waits to be opened.
Serve(w) ==
    /\ pc[w] = "request"
    /\ slots[sid[w]] # None /\ slots[sid[w]].entry # None
    /\ Reply(w, slots[sid[w]].entry)
    /\ UNCHANGED <<treeVars, cells, added, sid, asked>>

Missing(w) ==
    /\ pc[w] = "request" /\ slots[sid[w]] = None
    /\ Reply(w, ENOENT)
    /\ UNCHANGED <<treeVars, cells, added, sid, asked>>

Pending(w) ==
    /\ pc[w] = "request"
    /\ slots[sid[w]] # None /\ slots[sid[w]].entry = None
    /\ Goto(w, "resolve")
    /\ UNCHANGED <<treeVars, cells, added, sid, asked, ret>>

\* resolve: get_or_init runs the opener for the first caller, makes the
\* others wait for it, and hands its outcome, good or bad, to all of them.
Open(w) ==
    /\ pc[w] = "resolve" /\ cells[sid[w]].state = "empty"
    /\ cells' = [cells EXCEPT ![sid[w]].state = "opening"]
    /\ Goto(w, "open")
    /\ UNCHANGED <<treeVars, added, sid, asked, ret>>

Opened(w) ==
    /\ pc[w] = "open"
    /\ \E r \in {"ok", "err"} : cells' = [cells EXCEPT ![sid[w]].state = r]
    /\ Goto(w, "resolve")
    /\ UNCHANGED <<treeVars, added, sid, asked, ret>>

\* Mutant: the panic leaves its waiters with an opener that nobody runs.
OpenPanicsHeld(w) ==
    /\ pc[w] = "open"
    /\ Reply(w, EIO)
    /\ UNCHANGED <<treeVars, cells, added, sid, asked>>

\* The opener panics: the cell stays empty, for one of those that wait to
\* run it again, and the request that ran it comes to an I/O error (caught
\* in nfs, catch_unwind in projfs, the dropped reply in fuse).
OpenPanics(w) ==
    /\ pc[w] = "open"
    /\ cells' = [cells EXCEPT ![sid[w]].state = "empty"]
    /\ Reply(w, EIO)
    /\ UNCHANGED <<treeVars, added, sid, asked>>

Failed(w) ==
    /\ pc[w] = "resolve" /\ cells[sid[w]].state = "err"
    /\ Reply(w, EIO)
    /\ UNCHANGED <<treeVars, cells, added, sid, asked>>

\* Mutant: the opened snapshot is filed whatever became of its slot.
PromoteBlindly(w) ==
    LET id == sid[w]
    IN  /\ pc[w] = "resolve" /\ cells[id].state = "ok"
        /\ slots' = [slots EXCEPT ![id] = [manifest |-> cells[id].opens, entry |-> cells[id].opens]]
        /\ Reply(w, cells[id].opens)
        /\ UNCHANGED <<synthetic, synthByPath, cells, added, sid, asked>>

\* promote, unless the slot is gone or was promoted by another caller; the
\* snapshot is served either way.
Promote(w) ==
    LET id == sid[w]
    IN  /\ pc[w] = "resolve" /\ cells[id].state = "ok"
        /\ slots' = IF slots[id] = None \/ slots[id].entry # None THEN slots
                    ELSE [slots EXCEPT ![id].entry = cells[id].opens]
        /\ Reply(w, cells[id].opens)
        /\ UNCHANGED <<synthetic, synthByPath, cells, added, sid, asked>>

Step(w) == \/ Serve(w) \/ Missing(w) \/ Pending(w)
           \/ Open(w) \/ Opened(w) \/ OpenPanics(w)
           \/ Failed(w) \/ Promote(w)

Next == \/ \E m \in Manifests, lazy \in BOOLEAN : Add(m, lazy)
        \/ \E id \in 1..Len(slots) : Remove(id)
        \/ \E w \in Workers : \/ \E m \in Manifests : Lookup(w, m)
                              \/ Again(w)
                              \/ Step(w)

Spec == Init /\ [][Next]_vars

\* The runtime polls every request, the opener comes to an end, and the cell's
\* semaphore lets those in that wait for it in turn.
Fairness == \A w \in Workers : WF_vars(Step(w)) /\ SF_vars(Open(w))

FairSpec == Spec /\ Fairness

-----------------------------------------------------------------------------

\* The values of the variables; a cell per slot, and ids within the limit.
TypeOK ==
    /\ \A i \in 1..Len(synthetic) :
          /\ synthetic[i].parent \in Nat \cup {None}
          /\ synthetic[i].name \in Names \cup {None}
          /\ DOMAIN synthetic[i].children \subseteq Names
    /\ DOMAIN synthByPath \subseteq {<<x>> : x \in Apps} \cup (Apps \X Depots)
    /\ slots \in Seq([manifest : Manifests, entry : Manifests \cup {None}] \cup {None})
    /\ cells \in Seq([opens : Manifests, state : {"empty", "opening", "ok", "err"}])
    /\ Len(cells) = Len(slots) /\ Len(slots) <= MaxSnapshot
    /\ added \in {None, "ok", "AlreadyMounted", "TooManySnapshots"}
    /\ pc \in [Workers -> {"idle", "request", "resolve", "open", "served"}]
    /\ sid \in [Workers -> (1..Len(slots)) \cup {None}]
    /\ asked \in [Workers -> Manifests \cup {None}]
    /\ ret \in [Workers -> Manifests \cup {None, ENOENT, EIO}]

Live(m) == {i \in 1..Len(slots) : slots[i] # None /\ slots[i].manifest = m}

\* Walking the directories by name finds a manifest exactly when a slot of
\* it is mounted, and finds the root of that one slot: across adds, failed
\* adds, removals and re-adds of the same manifest no slot is left
\* unreachable and no name leads to a slot that is gone.
TreeLeadsToSlots ==
    \A m \in Manifests :
        IF Walk(m) = None THEN Live(m) = {}
        ELSE Live(m) = {SnapshotOf(Walk(m))} /\ IndexIn(Walk(m)) = 0

\* synth_by_path, which remove and ProjFS go by, names the directories that
\* walking from the root by name comes to.
PathsLeadToDirs ==
    \A path \in DOMAIN synthByPath :
        LET dir == IndexIn(synthByPath[path])
            name == path[Len(path)]
            parent == IF Len(path) = 1 THEN ROOT ELSE synthByPath[<<path[1]>>]
        IN  /\ synthetic[dir].name = name /\ synthetic[dir].parent = parent
            /\ name \in DOMAIN synthetic[IndexIn(parent)].children
            /\ synthetic[IndexIn(parent)].children[name] = synthByPath[path]

\* A node id the client kept is answered from the manifest it was looked up
\* for or not at all, whatever was removed, added or opened since.
StaleIdsServeNoOther ==
    \A w \in Workers : ret[w] \in Manifests => ret[w] = asked[w]

\* A snapshot id that was removed stays removed, and one in use is never
\* given to another manifest: an opener that finishes late revives nothing.
IdsAreNeverReused ==
    [][\A i \in 1..Len(slots) :
          slots'[i] # None => slots[i] # None /\ slots'[i].manifest = slots[i].manifest]_vars

\* Every request is answered, also when the opener fails or panics while
\* others wait for it, and when the snapshot is removed while it is opened.
EveryRequestIsAnswered ==
    \A w \in Workers : pc[w] = "request" ~> pc[w] = "served"
=============================================================================
