-------------------------- MODULE MountTreeProofs ---------------------------
(***************************************************************************)
(* Proofs about MountTree for any names, any number of workers and any     *)
(* size of the id space: what a snapshot id stands for never changes, and  *)
(* a node id a client kept is served the manifest it was looked up for or  *)
(* nothing.                                                                *)
(***************************************************************************)
EXTENDS MountTree, SequenceTheorems, TLAPS

Slot == [manifest : Manifests, entry : Manifests \cup {None}]
Cell == [opens : Manifests, state : {"empty", "opening", "ok", "err"}]

\* Every slot that was ever given out has its cell.
SlotsInv ==
    /\ slots \in Seq(Slot \cup {None})
    /\ cells \in Seq(Cell)
    /\ Len(cells) = Len(slots)

WorkersInv ==
    /\ pc = [w \in Workers |-> pc[w]]
    /\ sid = [w \in Workers |-> sid[w]]

SlotTypes == SlotsInv /\ WorkersInv

LEMMA SlotTypesInit == Init => SlotTypes
  BY EmptySeq DEF Init, SlotTypes, SlotsInv, WorkersInv

LEMMA AddSlots ==
    ASSUME SlotsInv, NEW m \in Manifests, NEW lazy \in BOOLEAN, Add(m, lazy)
    PROVE  \/ UNCHANGED <<slots, cells>>
           \/ \E s \in Slot, c \in Cell :
                 slots' = Append(slots, s) /\ cells' = Append(cells, c) /\ c.state = "empty"
  <1> DEFINE s == [manifest |-> m, entry |-> IF lazy THEN None ELSE m]
             c == [opens |-> m, state |-> "empty"]
  <1>1. s \in Slot /\ c \in Cell /\ c.state = "empty"
    BY DEF Slot, Cell
  <1>2. UNCHANGED <<slots, cells>> \/ (slots' = Append(slots, s) /\ cells' = Append(cells, c))
    BY DEF Add
  <1> QED
    BY <1>1, <1>2

\* An update in place, or of nothing when there is no such place.
LEMMA UpdatedSeq ==
    ASSUME NEW S, NEW s \in Seq(S), NEW i, NEW e, i \in 1..Len(s) => e \in S
    PROVE  /\ [s EXCEPT ![i] = e] \in Seq(S)
           /\ Len([s EXCEPT ![i] = e]) = Len(s)
<1>1. CASE i \in 1..Len(s)
  BY <1>1, ExceptSeq
<1>2. CASE i \notin 1..Len(s)
  <2>1. [s EXCEPT ![i] = e] = s
    BY <1>2
  <2> QED
    BY <2>1
<1> QED
  BY <1>1, <1>2

LEMMA SlotTypesStep == SlotTypes /\ [Next]_vars => SlotTypes'
<1> SUFFICES ASSUME SlotTypes, [Next]_vars PROVE SlotTypes'
  OBVIOUS
<1> USE DEF SlotTypes, SlotsInv
<1>1. SlotsInv'
  <2>1. CASE UNCHANGED <<slots, cells>>
    BY <2>1
  <2>2. ASSUME NEW m \in Manifests, NEW lazy \in BOOLEAN, Add(m, lazy) PROVE SlotsInv'
    <3>1. ASSUME NEW s \in Slot, NEW c \in Cell,
                 slots' = Append(slots, s), cells' = Append(cells, c)
          PROVE  SlotsInv'
      <4>1. /\ slots' \in Seq(Slot \cup {None}) /\ Len(slots') = Len(slots) + 1
            /\ cells' \in Seq(Cell) /\ Len(cells') = Len(cells) + 1
        BY <3>1, AppendProperties
      <4> QED
        BY <4>1
    <3> QED
      BY <2>1, <2>2, <3>1, AddSlots
  <2>3. ASSUME NEW id \in 1..Len(slots), Remove(id) PROVE SlotsInv'
    BY <2>3, UpdatedSeq, SMTT(20) DEF Remove
  <2>4. ASSUME NEW w \in Workers, Open(w) \/ Opened(w) \/ OpenPanics(w) PROVE SlotsInv'
    <3>1. PICK r \in {"empty", "opening", "ok", "err"} :
              cells' = [cells EXCEPT ![sid[w]] = [cells[sid[w]] EXCEPT !.state = r]]
      BY <2>4 DEF Open, Opened, OpenPanics
    <3>2. ASSUME sid[w] \in 1..Len(cells)
          PROVE  [cells[sid[w]] EXCEPT !.state = r] \in Cell
      <4>1. cells[sid[w]] \in Cell
        BY <3>2
      <4> QED
        BY <4>1 DEF Cell
    <3>3. cells' \in Seq(Cell) /\ Len(cells') = Len(cells)
      BY <3>1, <3>2, UpdatedSeq
    <3> QED
      BY <2>4, <3>3 DEF Open, Opened, OpenPanics, treeVars
  <2>5. ASSUME NEW w \in Workers, Promote(w) PROVE SlotsInv'
    <3>1. CASE UNCHANGED slots
      BY <2>5, <3>1 DEF Promote
    <3>2. CASE slots' = [slots EXCEPT ![sid[w]] =
                            [slots[sid[w]] EXCEPT !.entry = cells[sid[w]].opens]]
               /\ slots[sid[w]] # None
      <4>1. ASSUME sid[w] \in 1..Len(slots)
            PROVE  [slots[sid[w]] EXCEPT !.entry = cells[sid[w]].opens] \in Slot
        <5>1. cells[sid[w]] \in Cell
          BY <4>1
        <5>2. slots[sid[w]] \in Slot
          BY <3>2, <4>1
        <5> QED
          BY <5>1, <5>2 DEF Cell, Slot
      <4>2. slots' \in Seq(Slot \cup {None}) /\ Len(slots') = Len(slots)
        BY <3>2, <4>1, UpdatedSeq
      <4> QED
        BY <2>5, <4>2 DEF Promote
    <3> QED
      BY <2>5, <3>1, <3>2 DEF Promote
  <2> QED
    BY <2>1, <2>2, <2>3, <2>4, <2>5
    DEF Next, Step, Lookup, Again, Serve, Missing, Pending, Failed, treeVars, vars
<1>2. WorkersInv'
  BY DEF WorkersInv, Next, Step, Add, Remove, Lookup, Again, Serve, Missing, Pending, Open, Opened, OpenPanics,
     Failed, Promote, Reply, Goto, vars
<1> QED
  BY <1>1, <1>2

-----------------------------------------------------------------------------

LEMMA IdsStep ==
    ASSUME SlotTypes, [Next]_vars, NEW i \in 1..Len(slots), slots'[i] # None
    PROVE  slots[i] # None /\ slots'[i].manifest = slots[i].manifest
<1> USE DEF SlotTypes, SlotsInv
<1>1. CASE UNCHANGED slots
  BY <1>1
<1>2. ASSUME NEW m \in Manifests, NEW lazy \in BOOLEAN, Add(m, lazy) PROVE slots'[i] = slots[i]
  BY <1>2, AddSlots
<1>3. ASSUME NEW id \in 1..Len(slots), Remove(id) PROVE slots'[i] = slots[i]
  BY <1>3, SMTT(20) DEF Remove
<1>4. ASSUME NEW w \in Workers, Promote(w)
      PROVE  slots[i] # None /\ slots'[i].manifest = slots[i].manifest
  <2>1. CASE sid[w] = i /\ slots[i] # None
    <3>1. slots[i] \in Slot
      BY <2>1
    <3> QED
      BY <1>4, <2>1, <3>1 DEF Promote, Slot
  <2>2. CASE sid[w] # i \/ slots[i] = None
    BY <1>4, <2>2 DEF Promote
  <2> QED
    BY <2>1, <2>2
<1> QED
  BY <1>1, <1>2, <1>3, <1>4
  DEF Next, Step, Lookup, Again, Serve, Missing, Pending, Open, Opened, OpenPanics, Failed, treeVars, vars

\* A snapshot id names one manifest from its add to its removal and nothing
\* afterwards, whichever openers end late and whatever is added meanwhile.
THEOREM IdsStandForOneSnapshot == Spec => IdsAreNeverReused
<1>1. SlotTypes /\ [Next]_vars
          => [\A i \in 1..Len(slots) :
                 slots'[i] # None => slots[i] # None /\ slots'[i].manifest = slots[i].manifest]_vars
  BY IdsStep
<1> QED
  BY <1>1, SlotTypesInit, SlotTypesStep, PTL DEF Spec, IdsAreNeverReused

-----------------------------------------------------------------------------

\* Node ids of directories and of snapshot roots are unpacked to what was packed.
LEMMA Packing ==
    /\ \A i \in Nat : pack(SYNTHETIC, i) = i
    /\ \A i \in 0..(IndexSpan - 1) : IndexIn(i) = i
    /\ \A id \in 0..MaxSnapshot : SnapshotOf(pack(id, 0)) = id
<1>1. \A i \in Nat : pack(SYNTHETIC, i) = i
  BY InodeAssumption DEF pack, SYNTHETIC
<1>2. \A i \in 0..(IndexSpan - 1) : i % IndexSpan = i
  BY InodeAssumption
<1>3. ASSUME NEW id \in 0..MaxSnapshot PROVE SnapshotOf(pack(id, 0)) = id
  <2>1. (id * IndexSpan) \div IndexSpan = id
    BY InodeAssumption, SMTT(30)
  <2>2. id % (MaxSnapshot + 1) = id
    BY InodeAssumption
  <2>3. id * IndexSpan + 0 = id * IndexSpan
    BY InodeAssumption
  <2> QED
    BY <2>1, <2>2, <2>3 DEF SnapshotOf, pack
<1> QED
  BY <1>1, <1>2, <1>3 DEF IndexIn

Dir == [parent : Nat \cup {None}, name : Names \cup {None},
        children : UNION {[S -> Nat] : S \in SUBSET Names}]

\* In directories d a child of the root or of an app's directory is a directory
\* that knows its parent and its name.
KidsKnowTheirPlace(d) ==
    \A i \in 1..Len(d) : i = ROOT \/ d[i].parent = ROOT =>
        \A name \in DOMAIN d[i].children :
            LET kid == d[i].children[name]
            IN  kid \in 2..Len(d) /\ d[kid].parent = i /\ d[kid].name = name

\* One of a depot's directory is the root of a snapshot that was added, with
\* cells c, under the three names.
LeavesAreAdded(d, c) ==
    \A i \in 1..Len(d) : i # ROOT /\ d[i].parent # ROOT =>
        \A name \in DOMAIN d[i].children :
            \E id \in 1..Len(c) :
                /\ d[i].children[name] = pack(id, 0)
                /\ c[id].opens = <<d[d[i].parent].name, d[i].name, name>>

\* Every directory but the root has a parent.
ParentsExist(d) == \A i \in 2..Len(d) : d[i].parent \in 1..Len(d)

DirsOK(d, c) ==
    /\ d \in Seq(Dir) /\ Len(d) > 0
    /\ ParentsExist(d)
    /\ KidsKnowTheirPlace(d)
    /\ LeavesAreAdded(d, c)

LEMMA BindChildren ==
    ASSUME NEW r \in Dir, NEW name \in Names, NEW ino \in Nat
    PROVE  /\ [r EXCEPT !.children = Bind(@, name, ino)] \in Dir
           /\ DOMAIN Bind(r.children, name, ino) = DOMAIN r.children \cup {name}
           /\ \A x \in DOMAIN r.children \cup {name} :
                 Bind(r.children, name, ino)[x] = IF x = name THEN ino ELSE r.children[x]
<1>1. PICK S \in SUBSET Names : r.children \in [S -> Nat]
  BY DEF Dir
<1>2. Bind(r.children, name, ino) \in [S \cup {name} -> Nat]
  BY <1>1 DEF Bind
<1>3. Bind(r.children, name, ino) \in UNION {[T -> Nat] : T \in SUBSET Names}
  BY <1>2
<1>4. [r EXCEPT !.children = Bind(@, name, ino)] \in Dir
  BY <1>3 DEF Dir
<1> QED
  BY <1>4 DEF Bind

\* Directories D are d with a new one at the end, listed in its parent, and
\* nothing else changed.
Grown(d, D, parent, name) ==
    LET n == Len(d) + 1
    IN  /\ D \in Seq(Dir) /\ Len(D) = n
        /\ D[n].parent = parent /\ D[n].name = name /\ DOMAIN D[n].children = {}
        /\ \A i \in 1..Len(d) :
              /\ D[i].parent = d[i].parent /\ D[i].name = d[i].name
              /\ i # parent => D[i].children = d[i].children
        /\ DOMAIN D[parent].children = DOMAIN d[parent].children \cup {name}
        /\ \A x \in DOMAIN D[parent].children :
              D[parent].children[x] = IF x = name THEN n ELSE d[parent].children[x]

LEMMA EnsuredShape ==
    ASSUME NEW d, d \in Seq(Dir), NEW paths,
           NEW parent \in 1..Len(d), NEW name \in Names,
           name \notin DOMAIN d[parent].children
    PROVE  LET e == Ensured(d, paths, parent, name)
           IN  /\ e.at = Len(d) + 1 /\ e.paths = Bind(paths, PathTo(d, parent, name), Len(d) + 1)
               /\ Grown(d, e.dirs, parent, name)
<1> DEFINE n == Len(d) + 1
           kids == Bind(d[parent].children, name, n)
           mid == [d EXCEPT ![parent] = [d[parent] EXCEPT !.children = kids]]
           new == [parent |-> parent, name |-> name, children |-> << >>]
           D == Append(mid, new)
<1>1. n \in Nat /\ parent \in Nat /\ pack(SYNTHETIC, n) = n /\ pack(SYNTHETIC, parent) = parent
  BY Packing
<1>2. LET e == Ensured(d, paths, parent, name)
      IN  e.dirs = D /\ e.at = n /\ e.paths = Bind(paths, PathTo(d, parent, name), n)
  BY <1>1 DEF Ensured
<1>3. new \in Dir /\ DOMAIN new.children = {}
  <2>1. << >> \in [{} -> Nat] /\ DOMAIN << >> = {}
    OBVIOUS
  <2> QED
    BY <1>1, <2>1 DEF Dir
<1>4. d[parent] \in Dir
  OBVIOUS
<1>5. [d[parent] EXCEPT !.children = kids] \in Dir
  BY <1>1, <1>4, BindChildren
<1>6. mid \in Seq(Dir) /\ Len(mid) = Len(d)
  BY <1>5, UpdatedSeq
<1>7. D \in Seq(Dir) /\ Len(D) = n /\ D[n] = new /\ \A i \in 1..Len(d) : D[i] = mid[i]
  BY <1>3, <1>6, AppendProperties
<1>8. \A i \in 1..Len(d) :
        /\ D[i].parent = d[i].parent /\ D[i].name = d[i].name
        /\ D[i].children = IF i = parent THEN kids ELSE d[i].children
  BY <1>4, <1>7 DEF Dir
<1>9. /\ DOMAIN kids = DOMAIN d[parent].children \cup {name}
      /\ \A x \in DOMAIN kids : kids[x] = IF x = name THEN n ELSE d[parent].children[x]
  <2> DEFINE r == d[parent]
  <2>1. r \in Dir
    BY <1>4
  <2> HIDE DEF r
  <2>2. /\ DOMAIN Bind(r.children, name, n) = DOMAIN r.children \cup {name}
        /\ \A x \in DOMAIN r.children \cup {name} :
              Bind(r.children, name, n)[x] = IF x = name THEN n ELSE r.children[x]
    BY <1>1, <2>1, BindChildren
  <2> QED
    BY <2>2 DEF r
<1> HIDE DEF kids, mid, D
<1>10. D[n].parent = parent /\ D[n].name = name /\ DOMAIN D[n].children = {}
  BY <1>3, <1>7
<1>11. D[parent].children = kids
  BY <1>8
<1> HIDE DEF new
<1>12. Grown(d, D, parent, name)
  BY <1>7, <1>8, <1>9, <1>10, <1>11 DEF Grown
<1> QED
  BY <1>2, <1>12

\* ensure_synthetic returns a directory of the name below the parent, and moves
\* nothing.
LEMMA EnsuredDirs ==
    ASSUME NEW d, NEW c, DirsOK(d, c), Len(d) < IndexSpan, NEW paths,
           NEW parent \in 1..Len(d), parent = ROOT \/ d[parent].parent = ROOT,
           NEW name \in Names
    PROVE  LET e == Ensured(d, paths, parent, name)
           IN  /\ DirsOK(e.dirs, c) /\ Len(e.dirs) \in Len(d)..(Len(d) + 1) /\ e.at \in 2..Len(e.dirs)
               /\ e.dirs[e.at].parent = parent /\ e.dirs[e.at].name = name
               /\ \A i \in 1..Len(d) :
                     e.dirs[i].parent = d[i].parent /\ e.dirs[i].name = d[i].name
<1> USE DEF DirsOK
<1>1. CASE name \in DOMAIN d[parent].children
  <2>1. LET kid == d[parent].children[name]
        IN  kid \in 2..Len(d) /\ d[kid].parent = parent /\ d[kid].name = name
    BY <1>1 DEF KidsKnowTheirPlace
  <2>2. IndexIn(d[parent].children[name]) = d[parent].children[name]
    BY <2>1, Packing, InodeAssumption
  <2> QED
    BY <1>1, <2>1, <2>2 DEF Ensured
<1>2. CASE name \notin DOMAIN d[parent].children
  <2> DEFINE e == Ensured(d, paths, parent, name)
             n == Len(d) + 1
             D == e.dirs
             kids == D[parent].children
  <2>1. n \in Nat /\ parent \in Nat
    OBVIOUS
  <2>2. d \in Seq(Dir)
    OBVIOUS
  <2>3. e.at = n /\ Grown(d, D, parent, name)
    <3> HIDE DEF DirsOK
    <3> QED
      BY <1>2, <2>2, EnsuredShape
  <2>4. D \in Seq(Dir) /\ Len(D) = n
    BY <2>3 DEF Grown
  <2> HIDE DEF e, D
  <2>7. D[n].parent = parent /\ D[n].name = name /\ DOMAIN D[n].children = {}
    BY <2>3 DEF Grown
  <2>8. \A i \in 1..Len(d) :
          /\ D[i].parent = d[i].parent /\ D[i].name = d[i].name
          /\ D[i].children = IF i = parent THEN kids ELSE d[i].children
    BY <2>3 DEF Grown
  <2>9. /\ DOMAIN kids = DOMAIN d[parent].children \cup {name}
        /\ \A x \in DOMAIN kids : kids[x] = IF x = name THEN n ELSE d[parent].children[x]
    BY <2>3 DEF Grown
  <2> HIDE DEF kids
  <2>10. ParentsExist(D)
    BY <2>4, <2>7, <2>8 DEF ParentsExist
  <2>11. KidsKnowTheirPlace(D)
    <3> SUFFICES ASSUME NEW i \in 1..Len(D), i = ROOT \/ D[i].parent = ROOT,
                        NEW x \in DOMAIN D[i].children
                 PROVE  LET kid == D[i].children[x]
                        IN  kid \in 2..Len(D) /\ D[kid].parent = i /\ D[kid].name = x
      BY DEF KidsKnowTheirPlace
    <3>1. i \in 1..Len(d)
      BY <2>4, <2>7
    <3>2. CASE i = parent /\ x = name
      BY <2>4, <2>7, <2>8, <2>9, <3>1, <3>2
    <3>3. CASE ~ (i = parent /\ x = name)
      <4>1. x \in DOMAIN d[i].children /\ D[i].children[x] = d[i].children[x]
        BY <2>8, <2>9, <3>1, <3>3
      <4>2. LET kid == d[i].children[x]
            IN  kid \in 2..Len(d) /\ d[kid].parent = i /\ d[kid].name = x
        BY <2>8, <3>1, <4>1 DEF KidsKnowTheirPlace
      <4> QED
        BY <2>4, <2>7, <2>8, <4>1, <4>2
    <3> QED
      BY <3>2, <3>3
  <2>12. LeavesAreAdded(D, c)
    <3> SUFFICES ASSUME NEW i \in 1..Len(D), i # ROOT, D[i].parent # ROOT,
                        NEW x \in DOMAIN D[i].children
                 PROVE  \E id \in 1..Len(c) :
                           /\ D[i].children[x] = pack(id, 0)
                           /\ c[id].opens = <<D[D[i].parent].name, D[i].name, x>>
      BY DEF LeavesAreAdded
    <3>1. i \in 1..Len(d)
      BY <2>4, <2>7
    <3>2. i # parent /\ D[i].children = d[i].children /\ d[i].parent # ROOT
      BY <2>8, <3>1
    <3>3. d[i].parent \in 1..Len(d)
      BY <3>1 DEF ParentsExist, ROOT
    <3>4. PICK id \in 1..Len(c) :
              /\ d[i].children[x] = pack(id, 0)
              /\ c[id].opens = <<d[d[i].parent].name, d[i].name, x>>
      BY <3>1, <3>2 DEF LeavesAreAdded
    <3>5. D[i].parent = d[i].parent /\ D[i].name = d[i].name
          /\ D[d[i].parent].name = d[d[i].parent].name
      BY <2>8, <3>1, <3>3
    <3> QED
      BY <3>2, <3>4, <3>5
  <2> QED
    BY <2>3, <2>4, <2>7, <2>8, <2>10, <2>11, <2>12 DEF D, e
<1> QED
  BY <1>1, <1>2

\* There is room for the directories that an add makes.
Room == Len(synthetic) + 1 < IndexSpan

\* The directories as an add leaves them: the depot's knows its names.
LEMMA WithDirsOK ==
    ASSUME DirsOK(synthetic, cells), Room, NEW m \in Manifests
    PROVE  LET e == WithDirs(m)
               up == e.dirs[e.at].parent
           IN  /\ DirsOK(e.dirs, cells) /\ e.at \in 2..Len(e.dirs)
               /\ up # ROOT /\ up \in 1..Len(e.dirs)
               /\ e.dirs[e.at].name = m[2] /\ e.dirs[up].name = m[1]
<1> DEFINE app == Ensured(synthetic, synthByPath, ROOT, m[1])
           e == Ensured(app.dirs, app.paths, app.at, m[2])
<1>1. m[1] \in Names /\ m[2] \in Names
  BY DEF Manifests, Names
<1>2. ROOT \in 1..Len(synthetic) /\ Len(synthetic) < IndexSpan
  BY InodeAssumption DEF DirsOK, ROOT, Room
<1>3. /\ DirsOK(app.dirs, cells) /\ Len(app.dirs) \in Len(synthetic)..(Len(synthetic) + 1)
      /\ app.at \in 2..Len(app.dirs)
      /\ app.dirs[app.at].parent = ROOT /\ app.dirs[app.at].name = m[1]
  BY <1>1, <1>2, EnsuredDirs
<1>4. Len(app.dirs) < IndexSpan /\ app.at \in 1..Len(app.dirs) /\ app.at # ROOT
  BY <1>2, <1>3, InodeAssumption DEF Room, DirsOK, ROOT
<1> DEFINE D == app.dirs
           at == app.at
<1>5. e = Ensured(D, app.paths, at, m[2])
  OBVIOUS
<1>6. /\ DirsOK(e.dirs, cells) /\ Len(e.dirs) \in Len(D)..(Len(D) + 1) /\ e.at \in 2..Len(e.dirs)
      /\ e.dirs[e.at].parent = at /\ e.dirs[e.at].name = m[2]
      /\ \A i \in 1..Len(D) : e.dirs[i].parent = D[i].parent /\ e.dirs[i].name = D[i].name
  <2> HIDE DEF D, at
  <2>1. DirsOK(D, cells) /\ Len(D) < IndexSpan /\ at \in 1..Len(D)
        /\ (at = ROOT \/ D[at].parent = ROOT)
    BY <1>3, <1>4 DEF D, at
  <2> DEFINE r == Ensured(D, app.paths, at, m[2])
  <2>2. /\ DirsOK(r.dirs, cells) /\ Len(r.dirs) \in Len(D)..(Len(D) + 1) /\ r.at \in 2..Len(r.dirs)
        /\ r.dirs[r.at].parent = at /\ r.dirs[r.at].name = m[2]
        /\ \A i \in 1..Len(D) : r.dirs[i].parent = D[i].parent /\ r.dirs[i].name = D[i].name
    BY <1>1, <2>1, EnsuredDirs, SMTT(20)
  <2>3. e = r
    BY <1>5
  <2> QED
    BY <2>2, <2>3
<1>7. at \in 1..Len(e.dirs) /\ e.dirs[at].name = m[1]
  <2>1. Len(D) \in Nat /\ at \in 1..Len(D) /\ D[at].name = m[1]
    BY <1>3, <1>4 DEF DirsOK
  <2>2. Len(e.dirs) \in Len(D)..(Len(D) + 1) /\ \A i \in 1..Len(D) : e.dirs[i].name = D[i].name
    BY <1>6
  <2> HIDE DEF D, at, e
  <2> QED
    BY <2>1, <2>2
<1>8. WithDirs(m) = e
  BY DEF WithDirs
<1> QED
  BY <1>4, <1>6, <1>7, <1>8

\* What a cell opens stays, and cells are not taken away.
CellsStand ==
    /\ Len(cells') >= Len(cells)
    /\ \A id \in 1..Len(cells) : cells'[id].opens = cells[id].opens

LEMMA CellsStep == SlotTypes /\ [Next]_vars => CellsStand
<1> SUFFICES ASSUME SlotTypes, [Next]_vars PROVE CellsStand
  OBVIOUS
<1> USE DEF SlotTypes, SlotsInv, CellsStand
<1>1. ASSUME NEW m \in Manifests, NEW lazy \in BOOLEAN, Add(m, lazy) PROVE CellsStand
  BY <1>1, AddSlots
<1>2. ASSUME NEW w \in Workers, Open(w) \/ Opened(w) \/ OpenPanics(w) PROVE CellsStand
  <2>1. PICK r : cells' = [cells EXCEPT ![sid[w]] = [cells[sid[w]] EXCEPT !.state = r]]
    BY <1>2 DEF Open, Opened, OpenPanics
  <2>2. \A id \in 1..Len(cells) : cells[id] \in Cell
    OBVIOUS
  <2> QED
    BY <2>1, <2>2 DEF Cell
<1>3. CASE UNCHANGED cells
  BY <1>3
<1> QED
  BY <1>1, <1>2, <1>3
  DEF Next, Step, Remove, Lookup, Again, Serve, Missing, Pending, Failed, Promote, vars

LEMMA LeavesStay ==
    ASSUME NEW d, CellsStand, SlotTypes, SlotTypes', LeavesAreAdded(d, cells)
    PROVE  LeavesAreAdded(d, cells')
<1>1. \A id \in 1..Len(cells) : id \in 1..Len(cells') /\ cells'[id].opens = cells[id].opens
  BY DEF CellsStand, SlotTypes, SlotsInv
<1> QED
  BY <1>1 DEF LeavesAreAdded

\* Children given to a directory leave the tree sound, each of them being there
\* before or being a snapshot's root below a depot's directory.
LEMMA ChildrenChange ==
    ASSUME NEW d, NEW c, DirsOK(d, c), NEW at, NEW kids,
           at \in 1..Len(d) =>
               /\ kids \in UNION {[S -> Nat] : S \in SUBSET Names}
               /\ \A x \in DOMAIN kids :
                     \/ x \in DOMAIN d[at].children /\ kids[x] = d[at].children[x]
                     \/ /\ at # ROOT /\ d[at].parent # ROOT
                        /\ \E id \in 1..Len(c) :
                              /\ kids[x] = pack(id, 0)
                              /\ c[id].opens = <<d[d[at].parent].name, d[at].name, x>>
    PROVE  DirsOK([d EXCEPT ![at] = [d[at] EXCEPT !.children = kids]], c)
<1> USE DEF DirsOK
<1> DEFINE D == [d EXCEPT ![at] = [d[at] EXCEPT !.children = kids]]
<1>1. CASE at \notin 1..Len(d)
  <2>1. D = d
    BY <1>1
  <2> QED
    BY <2>1
<1>2. CASE at \in 1..Len(d)
  <2>1. d[at] \in Dir
    BY <1>2
  <2>2. [d[at] EXCEPT !.children = kids] \in Dir
    BY <1>2, <2>1 DEF Dir
  <2>3. D \in Seq(Dir) /\ Len(D) = Len(d)
    <3> DEFINE r == [d[at] EXCEPT !.children = kids]
    <3>1. r \in Dir
      BY <2>2
    <3> HIDE DEF r
    <3>2. [d EXCEPT ![at] = r] \in Seq(Dir) /\ Len([d EXCEPT ![at] = r]) = Len(d)
      BY <3>1, UpdatedSeq
    <3> QED
      BY <3>2 DEF r
  <2>4. \A i \in 1..Len(d) :
          /\ D[i].parent = d[i].parent /\ D[i].name = d[i].name
          /\ D[i].children = IF i = at THEN kids ELSE d[i].children
    BY <2>1 DEF Dir
  <2> HIDE DEF D
  <2>5. ParentsExist(D)
    BY <2>3, <2>4 DEF ParentsExist
  <2>6. KidsKnowTheirPlace(D)
    <3> SUFFICES ASSUME NEW i \in 1..Len(D), i = ROOT \/ D[i].parent = ROOT,
                        NEW x \in DOMAIN D[i].children
                 PROVE  LET kid == D[i].children[x]
                        IN  kid \in 2..Len(D) /\ D[kid].parent = i /\ D[kid].name = x
      BY DEF KidsKnowTheirPlace
    <3>1. x \in DOMAIN d[i].children /\ D[i].children[x] = d[i].children[x]
      BY <1>2, <2>3, <2>4
    <3>2. LET kid == d[i].children[x]
          IN  kid \in 2..Len(d) /\ d[kid].parent = i /\ d[kid].name = x
      BY <2>3, <2>4, <3>1 DEF KidsKnowTheirPlace
    <3> QED
      BY <2>3, <2>4, <3>1, <3>2
  <2>7. LeavesAreAdded(D, c)
    <3> SUFFICES ASSUME NEW i \in 1..Len(D), i # ROOT, D[i].parent # ROOT,
                        NEW x \in DOMAIN D[i].children
                 PROVE  \E id \in 1..Len(c) :
                           /\ D[i].children[x] = pack(id, 0)
                           /\ c[id].opens = <<D[D[i].parent].name, D[i].name, x>>
      BY DEF LeavesAreAdded
    <3>1. i \in 1..Len(d) /\ d[i].parent # ROOT
      BY <2>3, <2>4
    <3>2. d[i].parent \in 1..Len(d)
      BY <3>1 DEF ParentsExist, ROOT
    <3>3. D[D[i].parent].name = d[d[i].parent].name /\ D[i].name = d[i].name
      BY <2>4, <3>1, <3>2
    <3>4. \E id \in 1..Len(c) :
             /\ D[i].children[x] = pack(id, 0)
             /\ c[id].opens = <<d[d[i].parent].name, d[i].name, x>>
      <4>1. CASE x \in DOMAIN d[i].children /\ D[i].children[x] = d[i].children[x]
        BY <3>1, <4>1 DEF LeavesAreAdded
      <4>2. CASE ~ (x \in DOMAIN d[i].children /\ D[i].children[x] = d[i].children[x])
        BY <1>2, <2>4, <3>1, <4>2
      <4> QED
        BY <4>1, <4>2
    <3> QED
      BY <3>3, <3>4
  <2> QED
    BY <2>3, <2>5, <2>6, <2>7 DEF D
<1> QED
  BY <1>1, <1>2

LEMMA DirsInit == Init => DirsOK(synthetic, cells)
<1> SUFFICES ASSUME Init PROVE DirsOK(synthetic, cells)
  OBVIOUS
<1> DEFINE root == [parent |-> None, name |-> None, children |-> << >>]
<1>1. synthetic = <<root>>
  BY DEF Init
<1>2. << >> \in [{} -> Nat] /\ DOMAIN root.children = {}
  OBVIOUS
<1>3. root \in Dir
  BY <1>2 DEF Dir
<1>4. synthetic \in Seq(Dir) /\ Len(synthetic) = 1 /\ synthetic[1] = root
  BY <1>1, <1>3
<1> QED
  BY <1>2, <1>4 DEF DirsOK, ParentsExist, KidsKnowTheirPlace, LeavesAreAdded

LEMMA DirsStep ==
    ASSUME SlotTypes, SlotTypes', DirsOK(synthetic, cells), Room, [Next]_vars
    PROVE  DirsOK(synthetic', cells')
<1>1. LeavesAreAdded(synthetic, cells')
  BY CellsStep, LeavesStay DEF DirsOK
<1>2. DirsOK(synthetic, cells')
  BY <1>1 DEF DirsOK
<1>3. CASE UNCHANGED synthetic
  BY <1>2, <1>3
<1>4. ASSUME NEW m \in Manifests, NEW lazy \in BOOLEAN, Add(m, lazy)
      PROVE  DirsOK(synthetic', cells')
  <2> DEFINE e == WithDirs(m)
             d == e.dirs
             at == e.at
  <2>1. /\ DirsOK(d, cells) /\ at \in 2..Len(d)
        /\ d[at].parent # ROOT /\ d[at].parent \in 1..Len(d)
        /\ d[at].name = m[2] /\ d[d[at].parent].name = m[1]
    BY WithDirsOK
  <2>2. CASE synthetic' = d /\ cells' = cells
    BY <2>1, <2>2
  <2>3. CASE /\ ~ AlreadyMounted(e, m) /\ ~ TooManySnapshots
    <3> DEFINE ino == pack(NextId, 0)
               kids == Bind(d[at].children, m[3], ino)
    <3>1. /\ cells' = Append(cells, [opens |-> m, state |-> "empty"])
          /\ synthetic' = [d EXCEPT ![at] = [d[at] EXCEPT !.children = kids]]
      BY <1>4, <2>3 DEF Add
    <3>2. NextId \in 1..Len(cells') /\ cells'[NextId].opens = m
      BY <3>1 DEF SlotTypes, SlotsInv, NextId
    <3>3. ino \in Nat
      BY InodeAssumption DEF SlotTypes, SlotsInv, NextId, pack
    <3>4. d[at] \in Dir /\ m[3] \in Names /\ Len(d) \in Nat
      BY <2>1 DEF DirsOK, Manifests, Names
    <3>5. DirsOK(d, cells')
      <4>1. LeavesAreAdded(d, cells')
        BY <2>1, CellsStep, LeavesStay DEF DirsOK
      <4> QED
        BY <2>1, <4>1 DEF DirsOK
    <3>6. m = <<m[1], m[2], m[3]>>
      BY DEF Manifests
    <3> HIDE DEF ino, d, at
    <3>7. /\ kids \in UNION {[S -> Nat] : S \in SUBSET Names}
          /\ DOMAIN kids = DOMAIN d[at].children \cup {m[3]}
          /\ \A x \in DOMAIN kids : kids[x] = IF x = m[3] THEN ino ELSE d[at].children[x]
      <4> DEFINE r == d[at]
                 name == m[3]
      <4>1. r \in Dir /\ name \in Names
        BY <3>4
      <4> HIDE DEF r, name
      <4>2. /\ [r EXCEPT !.children = Bind(@, name, ino)] \in Dir
            /\ DOMAIN Bind(r.children, name, ino) = DOMAIN r.children \cup {name}
            /\ \A x \in DOMAIN r.children \cup {name} :
                  Bind(r.children, name, ino)[x] = IF x = name THEN ino ELSE r.children[x]
        BY <3>3, <4>1, BindChildren
      <4>3. Bind(r.children, name, ino) \in UNION {[S -> Nat] : S \in SUBSET Names}
        <5> DEFINE new == Bind(r.children, name, ino)
        <5>1. [r EXCEPT !.children = new] \in Dir
          BY <4>2
        <5> HIDE DEF new
        <5>2. [r EXCEPT !.children = new].children = new
          BY <4>1 DEF Dir
        <5> QED
          BY <5>1, <5>2 DEF Dir, new
      <4> QED
        BY <4>2, <4>3 DEF r, name
    <3>8. \A x \in DOMAIN kids :
             \/ x \in DOMAIN d[at].children /\ kids[x] = d[at].children[x]
             \/ /\ at # ROOT /\ d[at].parent # ROOT
                /\ \E id \in 1..Len(cells') :
                      /\ kids[x] = pack(id, 0)
                      /\ cells'[id].opens = <<d[d[at].parent].name, d[at].name, x>>
      <4> SUFFICES ASSUME NEW x \in DOMAIN kids,
                          ~ (x \in DOMAIN d[at].children /\ kids[x] = d[at].children[x])
                   PROVE  /\ at # ROOT /\ d[at].parent # ROOT
                          /\ kids[x] = pack(NextId, 0)
                          /\ cells'[NextId].opens = <<d[d[at].parent].name, d[at].name, x>>
        BY <3>2
      <4>1. x = m[3] /\ kids[x] = ino
        BY <3>7
      <4>2. at # ROOT
        BY <2>1, <3>4 DEF ROOT
      <4>3. cells'[NextId].opens = <<m[1], m[2], x>>
        BY <3>2, <3>6, <4>1
      <4> HIDE DEF kids
      <4> QED
        BY <2>1, <4>1, <4>2, <4>3 DEF ino
    <3> HIDE DEF kids
    <3>9. DirsOK([d EXCEPT ![at] = [d[at] EXCEPT !.children = kids]], cells')
      BY <3>5, <3>7, <3>8, ChildrenChange
    <3> QED
      BY <3>1, <3>9
  <2>4. CASE AlreadyMounted(e, m) \/ TooManySnapshots
    BY <1>4, <2>2, <2>4 DEF Add
  <2> QED
    BY <2>3, <2>4
<1>5. ASSUME NEW id \in 1..Len(slots), Remove(id) PROVE DirsOK(synthetic', cells')
  <2> DEFINE m == slots[id].manifest
             at == IndexIn(synthByPath[<<m[1], m[2]>>])
             kids == Unbind(synthetic[at].children, m[3])
  <2>1. synthetic' = [synthetic EXCEPT ![at] = [synthetic[at] EXCEPT !.children = kids]]
    BY <1>5 DEF Remove
  <2> HIDE DEF at
  <2>2. ASSUME at \in 1..Len(synthetic)
        PROVE  /\ kids \in UNION {[S -> Nat] : S \in SUBSET Names}
               /\ \A x \in DOMAIN kids : /\ x \in DOMAIN synthetic[at].children
                                         /\ kids[x] = synthetic[at].children[x]
    <3>1. synthetic[at] \in Dir
      BY <2>2 DEF DirsOK
    <3>2. PICK S \in SUBSET Names : synthetic[at].children \in [S -> Nat]
      BY <3>1 DEF Dir
    <3>3. kids = [x \in S \ {m[3]} |-> synthetic[at].children[x]]
      BY <3>2 DEF Unbind, Restrict
    <3>4. kids \in [S \ {m[3]} -> Nat]
      BY <3>2, <3>3
    <3> QED
      BY <3>2, <3>3, <3>4
  <2> HIDE DEF kids
  <2>3. DirsOK([synthetic EXCEPT ![at] = [synthetic[at] EXCEPT !.children = kids]], cells')
    BY <1>2, <2>2, ChildrenChange
  <2> QED
    BY <2>1, <2>3
<1> QED
  BY <1>3, <1>4, <1>5
  DEF Next, Step, Lookup, Again, Serve, Missing, Pending, Open, Opened, OpenPanics, Failed, Promote, treeVars, vars

\* Walking by name comes to the root of a snapshot that was added under the names.
LEMMA WalkLeads ==
    ASSUME SlotTypes, DirsOK(synthetic, cells), Room, Len(slots) <= MaxSnapshot,
           NEW m \in Manifests, Walk(m) # None
    PROVE  SnapshotOf(Walk(m)) \in 1..Len(cells) /\ cells[SnapshotOf(Walk(m))].opens = m
<1> USE DEF DirsOK, ROOT
<1> DEFINE Child(ino, name) ==
               IF ino = None \/ name \notin DOMAIN synthetic[IndexIn(ino)].children
               THEN None ELSE synthetic[IndexIn(ino)].children[name]
           a == Child(ROOT, m[1])
           b == Child(a, m[2])
<1>1. Walk(m) = Child(b, m[3])
  BY DEF Walk
<1>2. b # None /\ a # None /\ m[3] \in DOMAIN synthetic[IndexIn(b)].children
  BY <1>1
<1>3. \A i \in 1..Len(synthetic) : IndexIn(i) = i
  BY Packing, InodeAssumption DEF Room
<1>4. a \in 2..Len(synthetic) /\ synthetic[a].parent = 1 /\ synthetic[a].name = m[1]
  <2>1. IndexIn(1) = 1
    BY <1>3
  <2>2. a = IF ROOT = None \/ m[1] \notin DOMAIN synthetic[IndexIn(ROOT)].children
            THEN None ELSE synthetic[IndexIn(ROOT)].children[m[1]]
    OBVIOUS
  <2> HIDE DEF a
  <2>3. /\ m[1] \in DOMAIN synthetic[IndexIn(ROOT)].children
        /\ a = synthetic[IndexIn(ROOT)].children[m[1]]
    BY <1>2, <2>2
  <2>4. m[1] \in DOMAIN synthetic[1].children /\ a = synthetic[1].children[m[1]]
    BY <2>1, <2>3
  <2> QED
    BY <2>4 DEF KidsKnowTheirPlace
<1>5. b \in 2..Len(synthetic) /\ synthetic[b].parent = a /\ synthetic[b].name = m[2]
  <2>1. IndexIn(a) = a
    BY <1>3, <1>4
  <2>2. m[2] \in DOMAIN synthetic[a].children /\ b = synthetic[a].children[m[2]]
    BY <1>2, <2>1
  <2> HIDE DEF a, b
  <2> QED
    BY <1>4, <2>2 DEF KidsKnowTheirPlace
<1> HIDE DEF a, b
<1>6. IndexIn(b) = b
  BY <1>3, <1>5
<1>7. m[3] \in DOMAIN synthetic[b].children /\ Walk(m) = synthetic[b].children[m[3]]
  BY <1>1, <1>2, <1>6
<1>8. PICK id \in 1..Len(cells) :
          /\ Walk(m) = pack(id, 0)
          /\ cells[id].opens = <<synthetic[synthetic[b].parent].name, synthetic[b].name, m[3]>>
  <2>1. b \in 1..Len(synthetic) /\ b # 1 /\ synthetic[b].parent # 1
    BY <1>4, <1>5
  <2> QED
    BY <1>7, <2>1 DEF LeavesAreAdded
<1>9. SnapshotOf(Walk(m)) = id
  <2>1. id \in 0..MaxSnapshot
    BY InodeAssumption DEF SlotTypes, SlotsInv
  <2> QED
    BY <1>8, <2>1, Packing
<1>10. m = <<m[1], m[2], m[3]>>
  BY DEF Manifests
<1> QED
  BY <1>4, <1>5, <1>8, <1>9, <1>10

-----------------------------------------------------------------------------

\* A request is about the manifest that the cell of its snapshot id opens, and
\* an open slot holds no other.
RequestsInv ==
    /\ Len(slots) <= MaxSnapshot
    /\ asked = [w \in Workers |-> asked[w]] /\ ret = [w \in Workers |-> ret[w]]
    /\ \A w \in Workers : pc[w] # "idle" =>
          sid[w] \in 1..Len(cells) /\ asked[w] = cells[sid[w]].opens
    /\ \A i \in 1..Len(slots) : slots[i] # None => slots[i].entry \in {None, cells[i].opens}

LEMMA RequestsInit == Init => RequestsInv /\ StaleIdsServeNoOther
  BY InodeAssumption, AnswersAssumption DEF Init, RequestsInv, StaleIdsServeNoOther

LEMMA RequestsStep ==
    ASSUME SlotTypes, SlotTypes', DirsOK(synthetic, cells), Room, RequestsInv, [Next]_vars
    PROVE  RequestsInv'
<1> USE DEF SlotTypes, SlotsInv, WorkersInv, RequestsInv, Goto
<1> DEFINE Asks(w) == pc[w] # "idle" => sid[w] \in 1..Len(cells) /\ asked[w] = cells[sid[w]].opens
           Entries == \A i \in 1..Len(slots) : slots[i] # None => slots[i].entry \in {None, cells[i].opens}
<1>1. CellsStand
  BY CellsStep
<1>2. \A id \in 1..Len(cells) : id \in 1..Len(cells') /\ cells'[id].opens = cells[id].opens
  BY <1>1 DEF CellsStand
<1>3. CASE UNCHANGED slots /\ UNCHANGED <<pc, sid, asked, ret>>
  BY <1>2, <1>3
<1>4. ASSUME NEW m \in Manifests, NEW lazy \in BOOLEAN, Add(m, lazy) PROVE RequestsInv'
  <2>1. UNCHANGED <<pc, sid, asked, ret>>
    BY <1>4 DEF Add
  <2>2. CASE UNCHANGED slots
    BY <1>3, <2>1, <2>2
  <2>3. CASE /\ ~ TooManySnapshots
             /\ slots' = Append(slots, [manifest |-> m, entry |-> IF lazy THEN None ELSE m])
             /\ cells' = Append(cells, [opens |-> m, state |-> "empty"])
    <3>1. Len(slots') = Len(slots) + 1 /\ Len(slots') <= MaxSnapshot
      BY <2>3, InodeAssumption DEF TooManySnapshots, NextId
    <3>2. ASSUME NEW i \in 1..Len(slots'), slots'[i] # None
          PROVE  slots'[i].entry \in {None, cells'[i].opens}
      <4>1. CASE i \in 1..Len(slots)
        BY <1>2, <2>3, <3>2, <4>1
      <4>2. CASE i = Len(slots) + 1
        BY <2>3, <4>2
      <4> QED
        BY <3>1, <4>1, <4>2
    <3> QED
      BY <1>2, <2>1, <3>1, <3>2
  <2> QED
    BY <1>4, <2>2, <2>3 DEF Add
<1>5. ASSUME NEW id \in 1..Len(slots), Remove(id) PROVE RequestsInv'
  BY <1>2, <1>5, SMTT(40) DEF Remove
<1>6. ASSUME NEW w \in Workers, NEW m \in Manifests, Lookup(w, m) PROVE RequestsInv'
  <2>1. sid'[w] \in 1..Len(cells) /\ asked'[w] = cells[sid'[w]].opens
    BY <1>6, WalkLeads DEF Lookup
  <2> QED
    BY <1>6, <2>1 DEF Lookup, treeVars
<1>7. ASSUME NEW w \in Workers, Again(w) PROVE RequestsInv'
  BY <1>7 DEF Again, treeVars
<1>8. ASSUME NEW w \in Workers, Serve(w) \/ Missing(w) \/ Pending(w) \/ Failed(w)
      PROVE  RequestsInv'
  BY <1>8 DEF Serve, Missing, Pending, Failed, Reply, treeVars
<1>9. ASSUME NEW w \in Workers, Open(w) \/ Opened(w) \/ OpenPanics(w) PROVE RequestsInv'
  <2>1. CASE Open(w) \/ Opened(w)
    <3>1. /\ UNCHANGED <<slots, sid, asked, ret>> /\ pc[w] # "idle"
          /\ pc' \in {[pc EXCEPT ![w] = "open"], [pc EXCEPT ![w] = "resolve"]}
      BY <2>1 DEF Open, Opened, treeVars
    <3> QED
      BY <1>2, <3>1
  <2>2. CASE OpenPanics(w)
    <3>1. /\ UNCHANGED <<slots, sid, asked>> /\ pc[w] # "idle"
          /\ pc' = [pc EXCEPT ![w] = "served"] /\ ret' = [ret EXCEPT ![w] = EIO]
      BY <2>2 DEF OpenPanics, Reply, treeVars
    <3> QED
      BY <1>2, <3>1
  <2> QED
    BY <1>9, <2>1, <2>2
<1>10. ASSUME NEW w \in Workers, Promote(w) PROVE RequestsInv'
  <2>1. /\ UNCHANGED <<cells, sid, asked>> /\ pc[w] # "idle"
        /\ pc' = [pc EXCEPT ![w] = "served"] /\ ret' = [ret EXCEPT ![w] = cells[sid[w]].opens]
    BY <1>10 DEF Promote, Reply
  <2>2. ASSUME NEW i \in 1..Len(slots'), slots'[i] # None
        PROVE  slots'[i].entry \in {None, cells'[i].opens}
    <3>1. CASE slots' = slots
      BY <2>1, <2>2, <3>1
    <3>2. CASE /\ slots[sid[w]] # None
               /\ slots' = [slots EXCEPT ![sid[w]] = [slots[sid[w]] EXCEPT !.entry = cells[sid[w]].opens]]
      <4>1. i \in 1..Len(slots) /\ (i # sid[w] => slots'[i] = slots[i])
        BY <3>2
      <4>2. slots[sid[w]] \in Slot
        BY <2>1, <3>2
      <4> QED
        BY <2>1, <2>2, <3>2, <4>1, <4>2 DEF Slot
    <3> QED
      BY <1>10, <3>1, <3>2 DEF Promote
  <2>3. Len(slots') = Len(slots)
    BY <2>1
  <2> QED
    BY <2>1, <2>2, <2>3
<1>11. CASE UNCHANGED vars
  BY <1>3, <1>11 DEF vars
<1> QED
  BY <1>4, <1>5, <1>6, <1>7, <1>8, <1>9, <1>10, <1>11 DEF Next, Step

LEMMA AnswersStep ==
    ASSUME SlotTypes, RequestsInv, StaleIdsServeNoOther, [Next]_vars
    PROVE  StaleIdsServeNoOther'
<1> USE DEF SlotTypes, SlotsInv, WorkersInv, RequestsInv, StaleIdsServeNoOther
<1>1. CASE UNCHANGED <<asked, ret>>
  BY <1>1
<1>2. ASSUME NEW w \in Workers, Serve(w) PROVE StaleIdsServeNoOther'
  BY <1>2 DEF Serve, Reply
<1>3. ASSUME NEW w \in Workers, Missing(w) \/ Failed(w) \/ OpenPanics(w)
      PROVE  StaleIdsServeNoOther'
  BY <1>3, AnswersAssumption DEF Missing, Failed, OpenPanics, Reply
<1>4. ASSUME NEW w \in Workers, Promote(w) PROVE StaleIdsServeNoOther'
  BY <1>4 DEF Promote, Reply
<1>5. ASSUME NEW w \in Workers, NEW m \in Manifests, Lookup(w, m) PROVE StaleIdsServeNoOther'
  BY <1>5, AnswersAssumption DEF Lookup
<1>6. ASSUME NEW w \in Workers, Again(w) PROVE StaleIdsServeNoOther'
  BY <1>6, AnswersAssumption DEF Again
<1> QED
  BY <1>1, <1>2, <1>3, <1>4, <1>5, <1>6
  DEF Next, Step, Add, Remove, Pending, Open, Opened, OpenPanics, vars

\* While the directories do not run out of the indices of a node id, of which
\* there are 2^48, no node id that a client kept is served another manifest than
\* the one it was looked up for, whatever was added, removed, or opened since.
THEOREM StaleIdsAreServedRightly == Spec /\ []Room => []StaleIdsServeNoOther
<1> DEFINE Inv == SlotTypes /\ DirsOK(synthetic, cells) /\ RequestsInv /\ StaleIdsServeNoOther
<1>1. Init => Inv
  BY SlotTypesInit, DirsInit, RequestsInit
<1>2. Inv /\ Room /\ [Next]_vars => Inv'
  BY SlotTypesStep, DirsStep, RequestsStep, AnswersStep
<1>3. Inv => StaleIdsServeNoOther
  OBVIOUS
<1> QED
  BY <1>1, <1>2, <1>3, PTL DEF Spec

-----------------------------------------------------------------------------
(* The names of the directories, the paths and the slots. *)

Paths == {<<a>> : a \in Apps} \cup (Apps \X Depots)

\* Directory i of d lies in `up` under a name, and is listed there.
IsNamed(d, i, up, name) ==
    /\ i \in 2..Len(d) /\ d[i].parent = up /\ d[i].name = name
    /\ name \in DOMAIN d[up].children /\ d[up].children[name] = i

\* The paths p name directories of d.
PathsNameDirs(d, p) ==
    /\ DOMAIN p \subseteq Paths
    /\ \A a \in Apps : <<a>> \in DOMAIN p => IsNamed(d, p[<<a>>], ROOT, a)
    /\ \A a \in Apps, b \in Depots : <<a, b>> \in DOMAIN p =>
          <<a>> \in DOMAIN p /\ IsNamed(d, p[<<a, b>>], p[<<a>>], b)

\* What the root and an app's directory list has a path.
DirsHavePaths(d, p) ==
    /\ \A a \in DOMAIN d[ROOT].children : <<a>> \in DOMAIN p
    /\ \A a \in Apps : <<a>> \in DOMAIN p =>
          \A b \in DOMAIN d[p[<<a>>]].children : <<a, b>> \in DOMAIN p

\* What a depot's directory lists is a slot of that manifest.
LeavesAreSlots(d, p, s) ==
    \A a \in Apps, b \in Depots : <<a, b>> \in DOMAIN p =>
        \A g \in DOMAIN d[p[<<a, b>>]].children :
            \E id \in 1..Len(s) :
                /\ d[p[<<a, b>>]].children[g] = pack(id, 0)
                /\ s[id] # None /\ s[id].manifest = <<a, b, g>>

\* Every slot is listed in its depot's directory.
SlotsAreLeaves(d, p, s) ==
    \A id \in 1..Len(s), a \in Apps, b \in Depots, g \in Gids :
        s[id] # None /\ s[id].manifest = <<a, b, g>> =>
            /\ <<a, b>> \in DOMAIN p
            /\ g \in DOMAIN d[p[<<a, b>>]].children
            /\ d[p[<<a, b>>]].children[g] = pack(id, 0)

TreeOK(d, p, s) ==
    /\ PathsNameDirs(d, p) /\ DirsHavePaths(d, p)
    /\ LeavesAreSlots(d, p, s) /\ SlotsAreLeaves(d, p, s)

\* Directories that lie elsewhere are others.
LEMMA Levels ==
    ASSUME NEW d, NEW p, PathsNameDirs(d, p), NEW a \in Apps, NEW b \in Depots,
           <<a, b>> \in DOMAIN p
    PROVE  /\ p[<<a, b>>] # ROOT
           /\ \A c \in Apps : <<c>> \in DOMAIN p => p[<<a, b>>] # p[<<c>>]
           /\ \A c \in Apps, e \in Depots :
                 <<c, e>> \in DOMAIN p /\ p[<<a, b>>] = p[<<c, e>>] => a = c /\ b = e
  <1>1. IsNamed(d, p[<<a, b>>], p[<<a>>], b) /\ IsNamed(d, p[<<a>>], ROOT, a)
    BY DEF PathsNameDirs
  <1>2. p[<<a, b>>] # ROOT /\ p[<<a>>] # ROOT
    BY <1>1 DEF IsNamed, ROOT
  <1>3. ASSUME NEW c \in Apps, <<c>> \in DOMAIN p PROVE p[<<a, b>>] # p[<<c>>]
    BY <1>1, <1>2, <1>3 DEF PathsNameDirs, IsNamed
  <1>4. ASSUME NEW c \in Apps, NEW e \in Depots, <<c, e>> \in DOMAIN p,
               p[<<a, b>>] = p[<<c, e>>]
        PROVE  a = c /\ b = e
    <2>1. IsNamed(d, p[<<c, e>>], p[<<c>>], e) /\ IsNamed(d, p[<<c>>], ROOT, c)
      BY <1>4 DEF PathsNameDirs
    <2>2. b = e /\ p[<<a>>] = p[<<c>>]
      BY <1>1, <1>4, <2>1 DEF IsNamed
    <2> QED
      BY <1>1, <2>1, <2>2 DEF IsNamed
  <1> QED
    BY <1>2, <1>3, <1>4

\* ensure_synthetic of an app's directory and of a depot's keeps the tree, and
\* the path leads to the directory it returns.
LEMMA EnsuredApp ==
    ASSUME NEW d, d \in Seq(Dir), Len(d) > 0, Len(d) < IndexSpan, NEW p, NEW s,
           TreeOK(d, p, s), NEW a \in Apps
    PROVE  LET e == Ensured(d, p, ROOT, a)
           IN  TreeOK(e.dirs, e.paths, s) /\ <<a>> \in DOMAIN e.paths /\ e.paths[<<a>>] = e.at
  <1> DEFINE e == Ensured(d, p, ROOT, a)
             n == Len(d) + 1
             D == e.dirs
             P == e.paths
  <1>1. a \in Names /\ ROOT \in 1..Len(d) /\ Len(d) \in Nat
    BY DEF Names, ROOT
  <1>2. CASE a \in DOMAIN d[ROOT].children
    <2>1. <<a>> \in DOMAIN p /\ IsNamed(d, p[<<a>>], ROOT, a)
      BY <1>2 DEF TreeOK, DirsHavePaths, PathsNameDirs
    <2>2. d[ROOT].children[a] = p[<<a>>] /\ p[<<a>>] \in 0..(IndexSpan - 1)
      BY <1>1, <2>1, InodeAssumption DEF IsNamed
    <2>3. IndexIn(d[ROOT].children[a]) = p[<<a>>]
      BY <2>2, Packing
    <2>4. D = d /\ P = p /\ e.at = p[<<a>>]
      BY <1>2, <2>3 DEF Ensured
    <2> HIDE DEF e
    <2> QED
      BY <2>1, <2>4 DEF e
  <1>3. CASE a \notin DOMAIN d[ROOT].children
    <2>1. e.at = n /\ P = Bind(p, <<a>>, n) /\ Grown(d, D, ROOT, a)
      <3>1. PathTo(d, ROOT, a) = <<a>>
        BY DEF PathTo
      <3> QED
        BY <1>1, <1>3, <3>1, EnsuredShape
    <2> HIDE DEF e, D, P
    <2>2. /\ DOMAIN P = DOMAIN p \cup {<<a>>} /\ P[<<a>>] = n
          /\ \A y \in DOMAIN p : y # <<a>> => P[y] = p[y]
      <3> DEFINE x == <<a>>
      <3>1. P = Bind(p, x, n)
        BY <2>1
      <3> HIDE DEF n, x
      <3>2. DOMAIN P = DOMAIN p \cup {x} /\ P[x] = n /\ \A y \in DOMAIN p : y # x => P[y] = p[y]
        <4>1. P = [z \in DOMAIN p \cup {x} |-> IF z = x THEN n ELSE p[z]]
          BY <3>1 DEF Bind
        <4> QED
          BY <4>1
      <3> QED
        BY <3>2 DEF x
    <2>3. <<a>> \notin DOMAIN p
      BY <1>3 DEF TreeOK, PathsNameDirs, IsNamed
    <2>4. /\ Len(D) = n /\ D[n].parent = ROOT /\ D[n].name = a /\ DOMAIN D[n].children = {}
          /\ \A i \in 1..Len(d) :
                /\ D[i].parent = d[i].parent /\ D[i].name = d[i].name
                /\ i # ROOT => D[i].children = d[i].children
          /\ DOMAIN D[ROOT].children = DOMAIN d[ROOT].children \cup {a}
          /\ \A x \in DOMAIN D[ROOT].children :
                D[ROOT].children[x] = IF x = a THEN n ELSE d[ROOT].children[x]
      BY <2>1 DEF Grown
    <2>5. \A i \in 2..Len(d) :
             /\ i \in 2..Len(D) /\ D[i].parent = d[i].parent /\ D[i].name = d[i].name
             /\ D[i].children = d[i].children
      BY <1>1, <2>4 DEF ROOT
    <2>6. ASSUME NEW y \in DOMAIN p, p[y] \in 2..Len(d)
          PROVE  /\ P[y] = p[y] /\ P[y] \in 2..Len(D)
                 /\ D[P[y]].parent = d[p[y]].parent /\ D[P[y]].name = d[p[y]].name
                 /\ D[P[y]].children = d[p[y]].children
      <3>1. P[y] = p[y]
        BY <2>2, <2>3, <2>6
      <3> QED
        BY <2>5, <2>6, <3>1
    <2>7. ASSUME NEW c \in Apps, <<c>> \in DOMAIN P, c # a
           PROVE  /\ <<c>> \in DOMAIN p /\ IsNamed(d, p[<<c>>], ROOT, c)
                  /\ P[<<c>>] = p[<<c>>] /\ IsNamed(D, P[<<c>>], ROOT, c)
                  /\ D[P[<<c>>]].children = d[p[<<c>>]].children
      <3>1. <<c>> # <<a>>
        BY <2>7
      <3>2. <<c>> \in DOMAIN p
        BY <2>2, <2>7, <3>1
      <3>3. IsNamed(d, p[<<c>>], ROOT, c)
        BY <3>2 DEF TreeOK, PathsNameDirs
      <3>4. c \in DOMAIN D[ROOT].children /\ D[ROOT].children[c] = p[<<c>>]
        BY <2>4, <2>7, <3>3 DEF IsNamed
      <3> QED
        BY <2>6, <3>2, <3>3, <3>4 DEF IsNamed
    <2>8. ASSUME NEW c \in Apps, NEW b \in Depots, <<c, b>> \in DOMAIN P
           PROVE  /\ <<c, b>> \in DOMAIN p /\ <<c>> \in DOMAIN p
                  /\ P[<<c, b>>] = p[<<c, b>>] /\ P[<<c>>] = p[<<c>>]
                  /\ D[P[<<c, b>>]].children = d[p[<<c, b>>]].children
                  /\ IsNamed(D, P[<<c, b>>], P[<<c>>], b)
      <3>1. <<c, b>> # <<a>>
        OBVIOUS
      <3>2. <<c, b>> \in DOMAIN p
        BY <2>2, <2>8, <3>1
      <3>3. /\ <<c>> \in DOMAIN p /\ IsNamed(d, p[<<c, b>>], p[<<c>>], b)
            /\ IsNamed(d, p[<<c>>], ROOT, c)
        BY <3>2 DEF TreeOK, PathsNameDirs
      <3>4. p[<<c, b>>] \in 2..Len(d) /\ p[<<c>>] \in 2..Len(d)
        BY <3>3 DEF IsNamed
      <3>5. /\ P[<<c>>] = p[<<c>>] /\ D[P[<<c>>]].children = d[p[<<c>>]].children
        BY <2>6, <3>3, <3>4
      <3>6. /\ P[<<c, b>>] = p[<<c, b>>] /\ P[<<c, b>>] \in 2..Len(D)
            /\ D[P[<<c, b>>]].parent = d[p[<<c, b>>]].parent
            /\ D[P[<<c, b>>]].name = d[p[<<c, b>>]].name
            /\ D[P[<<c, b>>]].children = d[p[<<c, b>>]].children
        BY <2>6, <3>2, <3>4
      <3>7. IsNamed(D, P[<<c, b>>], P[<<c>>], b)
        BY <3>3, <3>5, <3>6 DEF IsNamed
      <3> QED
        BY <3>2, <3>3, <3>5, <3>6, <3>7
    <2>9. PathsNameDirs(D, P)
      <3>1. DOMAIN P \subseteq Paths
        BY <2>2 DEF TreeOK, PathsNameDirs, Paths
      <3>2. ASSUME NEW c \in Apps, <<c>> \in DOMAIN P PROVE IsNamed(D, P[<<c>>], ROOT, c)
        <4>1. CASE c = a
          BY <1>1, <2>2, <2>4, <4>1 DEF IsNamed
        <4>2. CASE c # a
          BY <2>7, <3>2, <4>2
        <4> QED
          BY <4>1, <4>2
      <3>3. ASSUME NEW c \in Apps, NEW b \in Depots, <<c, b>> \in DOMAIN P
            PROVE  <<c>> \in DOMAIN P /\ IsNamed(D, P[<<c, b>>], P[<<c>>], b)
        BY <2>2, <2>8, <3>3
      <3> QED
        BY <3>1, <3>2, <3>3 DEF PathsNameDirs
    <2>10. DirsHavePaths(D, P)
      <3>1. \A c \in DOMAIN D[ROOT].children : <<c>> \in DOMAIN P
        BY <2>2, <2>4 DEF TreeOK, DirsHavePaths
      <3>2. ASSUME NEW c \in Apps, <<c>> \in DOMAIN P, NEW b \in DOMAIN D[P[<<c>>]].children
            PROVE  <<c, b>> \in DOMAIN P
        <4>1. c # a
          BY <2>2, <2>4, <3>2
        <4>2. <<c>> \in DOMAIN p /\ b \in DOMAIN d[p[<<c>>]].children
          BY <2>7, <3>2, <4>1
        <4> QED
          BY <2>2, <4>2 DEF TreeOK, DirsHavePaths
      <3> QED
        BY <3>1, <3>2 DEF DirsHavePaths
    <2>11. LeavesAreSlots(D, P, s)
      <3> SUFFICES ASSUME NEW c \in Apps, NEW b \in Depots, <<c, b>> \in DOMAIN P,
                          NEW g \in DOMAIN D[P[<<c, b>>]].children
                   PROVE  \E id \in 1..Len(s) :
                             /\ D[P[<<c, b>>]].children[g] = pack(id, 0)
                             /\ s[id] # None /\ s[id].manifest = <<c, b, g>>
        BY DEF LeavesAreSlots
      <3>1. <<c, b>> \in DOMAIN p /\ D[P[<<c, b>>]].children = d[p[<<c, b>>]].children
        BY <2>8
      <3>2. LeavesAreSlots(d, p, s)
        BY DEF TreeOK
      <3>3. PICK id \in 1..Len(s) :
                /\ d[p[<<c, b>>]].children[g] = pack(id, 0)
                /\ s[id] # None /\ s[id].manifest = <<c, b, g>>
        BY <3>1, <3>2, Zenon DEF LeavesAreSlots
      <3> QED
        BY <3>1, <3>3, Zenon
    <2>12. SlotsAreLeaves(D, P, s)
      <3> SUFFICES ASSUME NEW id \in 1..Len(s), NEW c \in Apps, NEW b \in Depots,
                          NEW g \in Gids, s[id] # None, s[id].manifest = <<c, b, g>>
                   PROVE  /\ <<c, b>> \in DOMAIN P
                          /\ g \in DOMAIN D[P[<<c, b>>]].children
                          /\ D[P[<<c, b>>]].children[g] = pack(id, 0)
        BY DEF SlotsAreLeaves
      <3>1. /\ <<c, b>> \in DOMAIN p
            /\ g \in DOMAIN d[p[<<c, b>>]].children
            /\ d[p[<<c, b>>]].children[g] = pack(id, 0)
        BY DEF TreeOK, SlotsAreLeaves
      <3>2. <<c, b>> \in DOMAIN P
        BY <2>2, <3>1
      <3> QED
        BY <2>8, <3>1, <3>2
    <2> QED
      BY <2>1, <2>2, <2>9, <2>10, <2>11, <2>12 DEF TreeOK, D, P, e
  <1> QED
    BY <1>2, <1>3

LEMMA EnsuredDepot ==
    ASSUME NEW d, d \in Seq(Dir), Len(d) > 0, Len(d) < IndexSpan, NEW p, NEW s,
           TreeOK(d, p, s), NEW a \in Apps, NEW b \in Depots, <<a>> \in DOMAIN p
    PROVE  LET e == Ensured(d, p, p[<<a>>], b)
           IN  /\ TreeOK(e.dirs, e.paths, s)
               /\ <<a, b>> \in DOMAIN e.paths /\ e.paths[<<a, b>>] = e.at
  <1> DEFINE up == p[<<a>>]
             e == Ensured(d, p, up, b)
             n == Len(d) + 1
             D == e.dirs
             P == e.paths
  <1>1. /\ b \in Names /\ ROOT \in 1..Len(d) /\ Len(d) \in Nat
        /\ IsNamed(d, up, ROOT, a) /\ up \in 2..Len(d) /\ up \in 1..Len(d) /\ up # ROOT
    BY DEF Names, ROOT, TreeOK, PathsNameDirs, IsNamed
  <1> HIDE DEF up
  <1>2. CASE b \in DOMAIN d[up].children
    <2>1. <<a, b>> \in DOMAIN p /\ IsNamed(d, p[<<a, b>>], up, b)
      BY <1>2 DEF TreeOK, DirsHavePaths, PathsNameDirs, up
    <2>2. d[up].children[b] = p[<<a, b>>] /\ p[<<a, b>>] \in 0..(IndexSpan - 1)
      BY <1>1, <2>1, InodeAssumption DEF IsNamed
    <2>3. IndexIn(d[up].children[b]) = p[<<a, b>>]
      BY <2>2, Packing
    <2>4. D = d /\ P = p /\ e.at = p[<<a, b>>]
      BY <1>2, <2>3 DEF Ensured
    <2> HIDE DEF e
    <2> QED
      BY <2>1, <2>4 DEF e, up
  <1>3. CASE b \notin DOMAIN d[up].children
    <2>1. e.at = n /\ P = Bind(p, <<a, b>>, n) /\ Grown(d, D, up, b)
      <3>1. PathTo(d, up, b) = <<a, b>>
        BY <1>1 DEF PathTo, IsNamed
      <3> QED
        BY <1>1, <1>3, <3>1, EnsuredShape
    <2> HIDE DEF e, D, P
    <2>2. /\ DOMAIN P = DOMAIN p \cup {<<a, b>>} /\ P[<<a, b>>] = n
          /\ \A y \in DOMAIN p : y # <<a, b>> => P[y] = p[y]
      <3> DEFINE x == <<a, b>>
      <3>1. P = Bind(p, x, n)
        BY <2>1
      <3> HIDE DEF n, x
      <3>2. DOMAIN P = DOMAIN p \cup {x} /\ P[x] = n /\ \A y \in DOMAIN p : y # x => P[y] = p[y]
        <4>1. P = [z \in DOMAIN p \cup {x} |-> IF z = x THEN n ELSE p[z]]
          BY <3>1 DEF Bind
        <4> QED
          BY <4>1
      <3> QED
        BY <3>2 DEF x
    <2>3. <<a, b>> \notin DOMAIN p
      BY <1>3 DEF TreeOK, PathsNameDirs, IsNamed, up
    <2>4. /\ Len(D) = n /\ D[n].parent = up /\ D[n].name = b /\ DOMAIN D[n].children = {}
          /\ \A i \in 1..Len(d) :
                /\ D[i].parent = d[i].parent /\ D[i].name = d[i].name
                /\ i # up => D[i].children = d[i].children
          /\ DOMAIN D[up].children = DOMAIN d[up].children \cup {b}
          /\ \A x \in DOMAIN D[up].children :
                D[up].children[x] = IF x = b THEN n ELSE d[up].children[x]
      BY <2>1 DEF Grown
    <2>5. /\ D[ROOT].children = d[ROOT].children
          /\ \A i \in 2..Len(d) :
                /\ i \in 2..Len(D) /\ D[i].parent = d[i].parent /\ D[i].name = d[i].name
                /\ i # up => D[i].children = d[i].children
      BY <1>1, <2>4
    <2>6. ASSUME NEW y \in DOMAIN p, p[y] \in 2..Len(d)
          PROVE  /\ P[y] = p[y] /\ P[y] \in 2..Len(D)
                 /\ D[P[y]].parent = d[p[y]].parent /\ D[P[y]].name = d[p[y]].name
                 /\ p[y] # up => D[P[y]].children = d[p[y]].children
      <3>1. P[y] = p[y]
        BY <2>2, <2>3, <2>6
      <3> QED
        BY <2>5, <2>6, <3>1
    <2>7. ASSUME NEW c \in Apps, <<c>> \in DOMAIN P
          PROVE  /\ <<c>> \in DOMAIN p /\ P[<<c>>] = p[<<c>>]
                 /\ IsNamed(D, P[<<c>>], ROOT, c)
                 /\ c # a => p[<<c>>] # up /\ D[P[<<c>>]].children = d[p[<<c>>]].children
      <3>1. <<c>> # <<a, b>>
        OBVIOUS
      <3>2. <<c>> \in DOMAIN p
        BY <2>2, <2>7, <3>1
      <3>3. IsNamed(d, p[<<c>>], ROOT, c)
        BY <3>2 DEF TreeOK, PathsNameDirs
      <3>4. c # a => p[<<c>>] # up
        BY <1>1, <3>3 DEF IsNamed
      <3>5. IsNamed(D, P[<<c>>], ROOT, c)
        BY <2>5, <2>6, <3>2, <3>3 DEF IsNamed
      <3> QED
        BY <2>6, <3>2, <3>3, <3>4, <3>5 DEF IsNamed
    <2>8. ASSUME NEW c \in Apps, NEW f \in Depots, <<c, f>> \in DOMAIN P,
                 <<c, f>> # <<a, b>>
          PROVE  /\ <<c, f>> \in DOMAIN p /\ <<c>> \in DOMAIN p
                 /\ P[<<c, f>>] = p[<<c, f>>] /\ P[<<c>>] = p[<<c>>]
                 /\ D[P[<<c, f>>]].children = d[p[<<c, f>>]].children
                 /\ IsNamed(D, P[<<c, f>>], P[<<c>>], f)
      <3>1. <<c, f>> \in DOMAIN p
        BY <2>2, <2>8
      <3>2. /\ <<c>> \in DOMAIN p /\ IsNamed(d, p[<<c, f>>], p[<<c>>], f)
            /\ IsNamed(d, p[<<c>>], ROOT, c)
        BY <3>1 DEF TreeOK, PathsNameDirs
      <3>3. p[<<c, f>>] \in 2..Len(d) /\ p[<<c>>] \in 2..Len(d)
        BY <3>2 DEF IsNamed
      <3>4. p[<<c, f>>] # up
        <4>1. d[p[<<c, f>>]].parent = p[<<c>>] /\ p[<<c>>] # ROOT
          BY <3>2, <3>3 DEF IsNamed, ROOT
        <4> QED
          BY <1>1, <4>1 DEF IsNamed
      <3>5. P[<<c>>] = p[<<c>>]
        BY <2>6, <3>2, <3>3
      <3>6. f \in DOMAIN D[P[<<c>>]].children /\ D[P[<<c>>]].children[f] = p[<<c, f>>]
        <4>1. CASE c # a
          <5>1. <<c>> \in DOMAIN P
            BY <2>2, <3>2
          <5>2. D[P[<<c>>]].children = d[p[<<c>>]].children
            BY <2>7, <4>1, <5>1
          <5> QED
            BY <3>2, <5>2 DEF IsNamed
        <4>2. CASE c = a
          <5>1. f # b /\ P[<<c>>] = up /\ p[<<c>>] = up
            BY <2>8, <3>5, <4>2 DEF up
          <5> QED
            BY <2>4, <3>2, <5>1 DEF IsNamed
        <4> QED
          BY <4>1, <4>2
      <3>7. /\ P[<<c, f>>] = p[<<c, f>>] /\ P[<<c, f>>] \in 2..Len(D)
            /\ D[P[<<c, f>>]].parent = d[p[<<c, f>>]].parent
            /\ D[P[<<c, f>>]].name = d[p[<<c, f>>]].name
            /\ D[P[<<c, f>>]].children = d[p[<<c, f>>]].children
        BY <2>6, <3>1, <3>3, <3>4
      <3>8. IsNamed(D, P[<<c, f>>], P[<<c>>], f)
        BY <3>2, <3>5, <3>6, <3>7 DEF IsNamed
      <3> QED
        BY <3>1, <3>2, <3>5, <3>7, <3>8
    <2>9. <<a>> \in DOMAIN P /\ P[<<a>>] = up
      <3>1. <<a>> \in DOMAIN P
        BY <2>2
      <3> QED
        BY <2>7, <3>1 DEF up
    <2>10. PathsNameDirs(D, P)
      <3>1. DOMAIN P \subseteq Paths
        BY <2>2 DEF TreeOK, PathsNameDirs, Paths
      <3>2. ASSUME NEW c \in Apps, NEW f \in Depots, <<c, f>> \in DOMAIN P
            PROVE  <<c>> \in DOMAIN P /\ IsNamed(D, P[<<c, f>>], P[<<c>>], f)
        <4>1. CASE <<c, f>> = <<a, b>>
          <5>1. c = a /\ f = b
            BY <4>1
          <5>2. IsNamed(D, n, up, b)
            BY <1>1, <2>4 DEF IsNamed
          <5> QED
            BY <2>2, <2>9, <5>1, <5>2
        <4>2. CASE <<c, f>> # <<a, b>>
          BY <2>2, <2>8, <3>2, <4>2
        <4> QED
          BY <4>1, <4>2
      <3> QED
        BY <2>7, <3>1, <3>2 DEF PathsNameDirs
    <2>11. DirsHavePaths(D, P)
      <3>1. \A c \in DOMAIN D[ROOT].children : <<c>> \in DOMAIN P
        BY <2>2, <2>5 DEF TreeOK, DirsHavePaths
      <3>2. ASSUME NEW c \in Apps, <<c>> \in DOMAIN P, NEW f \in DOMAIN D[P[<<c>>]].children
            PROVE  <<c, f>> \in DOMAIN P
        <4>1. CASE c = a /\ f = b
          BY <2>2, <4>1
        <4>2. CASE ~ (c = a /\ f = b)
          <5>1. <<c>> \in DOMAIN p /\ f \in DOMAIN d[p[<<c>>]].children
            <6>1. CASE c # a
              BY <2>7, <3>2, <6>1
            <6>2. CASE c = a
              BY <2>4, <2>9, <3>2, <4>2, <6>2 DEF up
            <6> QED
              BY <6>1, <6>2
          <5> QED
            BY <2>2, <5>1 DEF TreeOK, DirsHavePaths
        <4> QED
          BY <4>1, <4>2
      <3> QED
        BY <3>1, <3>2 DEF DirsHavePaths
    <2>12. LeavesAreSlots(D, P, s)
      <3> SUFFICES ASSUME NEW c \in Apps, NEW f \in Depots, <<c, f>> \in DOMAIN P,
                          NEW g \in DOMAIN D[P[<<c, f>>]].children
                   PROVE  \E id \in 1..Len(s) :
                             /\ D[P[<<c, f>>]].children[g] = pack(id, 0)
                             /\ s[id] # None /\ s[id].manifest = <<c, f, g>>
        BY DEF LeavesAreSlots
      <3>1. <<c, f>> # <<a, b>>
        BY <2>2, <2>4
      <3>2. <<c, f>> \in DOMAIN p /\ D[P[<<c, f>>]].children = d[p[<<c, f>>]].children
        BY <2>8, <3>1
      <3>3. g \in DOMAIN d[p[<<c, f>>]].children
        BY <3>2
      <3>4. \E id \in 1..Len(s) :
               /\ d[p[<<c, f>>]].children[g] = pack(id, 0)
               /\ s[id] # None /\ s[id].manifest = <<c, f, g>>
        BY <3>2, <3>3 DEF TreeOK, LeavesAreSlots
      <3> QED
        BY <3>2, <3>4
    <2>13. SlotsAreLeaves(D, P, s)
      <3> SUFFICES ASSUME NEW id \in 1..Len(s), NEW c \in Apps, NEW f \in Depots,
                          NEW g \in Gids, s[id] # None, s[id].manifest = <<c, f, g>>
                   PROVE  /\ <<c, f>> \in DOMAIN P
                          /\ g \in DOMAIN D[P[<<c, f>>]].children
                          /\ D[P[<<c, f>>]].children[g] = pack(id, 0)
        BY DEF SlotsAreLeaves
      <3>1. /\ <<c, f>> \in DOMAIN p
            /\ g \in DOMAIN d[p[<<c, f>>]].children
            /\ d[p[<<c, f>>]].children[g] = pack(id, 0)
        BY DEF TreeOK, SlotsAreLeaves
      <3>2. <<c, f>> \in DOMAIN P /\ <<c, f>> # <<a, b>>
        BY <2>2, <2>3, <3>1
      <3> QED
        BY <2>8, <3>1, <3>2
    <2> QED
      BY <2>1, <2>2, <2>10, <2>11, <2>12, <2>13 DEF TreeOK, D, P, e, up
  <1> QED
    BY <1>2, <1>3 DEF up

\* The two calls of an add: the depot's directory is there, under its path.
LEMMA WithDirsTree ==
    ASSUME DirsOK(synthetic, cells), Room, NEW s, TreeOK(synthetic, synthByPath, s),
           NEW m \in Manifests
    PROVE  LET e == WithDirs(m)
           IN  /\ TreeOK(e.dirs, e.paths, s)
               /\ <<m[1], m[2]>> \in DOMAIN e.paths /\ e.paths[<<m[1], m[2]>>] = e.at
<1> DEFINE a == m[1]
           b == m[2]
           app == Ensured(synthetic, synthByPath, ROOT, a)
           d == app.dirs
           p == app.paths
           e == Ensured(d, p, p[<<a>>], b)
<1>1. a \in Apps /\ b \in Depots /\ a \in Names
  BY DEF Manifests, Names
<1> HIDE DEF a, b
<1>2. /\ synthetic \in Seq(Dir) /\ Len(synthetic) > 0 /\ Len(synthetic) < IndexSpan
      /\ ROOT \in 1..Len(synthetic)
  BY InodeAssumption DEF DirsOK, Room, ROOT
<1>3. TreeOK(d, p, s) /\ <<a>> \in DOMAIN p /\ p[<<a>>] = app.at
  BY <1>1, <1>2, EnsuredApp
<1>4. DirsOK(d, cells) /\ Len(d) \in Len(synthetic)..(Len(synthetic) + 1)
  BY <1>1, <1>2, EnsuredDirs
<1>5. d \in Seq(Dir) /\ Len(d) > 0 /\ Len(d) < IndexSpan
  BY <1>2, <1>4, InodeAssumption DEF DirsOK, Room
<1>6. WithDirs(m) = e
  BY <1>3 DEF WithDirs, a, b
<1> HIDE DEF d, p
<1>7. TreeOK(e.dirs, e.paths, s) /\ <<a, b>> \in DOMAIN e.paths /\ e.paths[<<a, b>>] = e.at
  BY <1>1, <1>3, <1>5, EnsuredDepot
<1> HIDE DEF e
<1> QED
  BY <1>6, <1>7 DEF a, b

\* Directories D are d but for what directory `at` lists.
SameButFor(d, D, at) ==
    /\ Len(D) = Len(d)
    /\ \A i \in 1..Len(d) :
          /\ D[i].parent = d[i].parent /\ D[i].name = d[i].name
          /\ i # at => D[i].children = d[i].children

\* A leaf of the depot <<a, b>> comes or goes: the other directories list what
\* they did, and have their names.
OthersAlike(d, D, p, a, b) ==
    /\ PathsNameDirs(D, p) /\ DirsHavePaths(D, p)
    /\ \A c \in Apps, f \in Depots : <<c, f>> \in DOMAIN p /\ ~ (c = a /\ f = b) =>
          D[p[<<c, f>>]].children = d[p[<<c, f>>]].children

\* What a depot's directory lists is nobody else's business.
LEMMA DepotAlone ==
    ASSUME NEW d, NEW D, NEW p, Len(d) \in Nat, ROOT \in 1..Len(d),
           PathsNameDirs(d, p), DirsHavePaths(d, p),
           NEW a \in Apps, NEW b \in Depots, <<a, b>> \in DOMAIN p,
           SameButFor(d, D, p[<<a, b>>])
    PROVE  OthersAlike(d, D, p, a, b)
<1> DEFINE at == p[<<a, b>>]
<1>1. /\ at # ROOT
      /\ \A c \in Apps : <<c>> \in DOMAIN p => at # p[<<c>>]
      /\ \A c \in Apps, f \in Depots : <<c, f>> \in DOMAIN p /\ at = p[<<c, f>>] => a = c /\ b = f
  BY Levels
<1>2. /\ Len(D) = Len(d)
      /\ \A i \in 1..Len(d) :
            /\ D[i].parent = d[i].parent /\ D[i].name = d[i].name
            /\ i # at => D[i].children = d[i].children
  BY DEF SameButFor
<1> HIDE DEF at
<1>3. D[ROOT].children = d[ROOT].children
  BY <1>1, <1>2
<1>4. ASSUME NEW c \in Apps, <<c>> \in DOMAIN p
      PROVE  /\ IsNamed(D, p[<<c>>], ROOT, c)
             /\ D[p[<<c>>]].children = d[p[<<c>>]].children
  <2>1. IsNamed(d, p[<<c>>], ROOT, c) /\ p[<<c>>] # at
    BY <1>1, <1>4 DEF PathsNameDirs
  <2> QED
    BY <1>2, <1>3, <2>1 DEF IsNamed
<1>5. ASSUME NEW c \in Apps, NEW f \in Depots, <<c, f>> \in DOMAIN p
      PROVE  /\ <<c>> \in DOMAIN p /\ IsNamed(D, p[<<c, f>>], p[<<c>>], f)
             /\ ~ (c = a /\ f = b) => D[p[<<c, f>>]].children = d[p[<<c, f>>]].children
  <2>1. IsNamed(d, p[<<c, f>>], p[<<c>>], f) /\ <<c>> \in DOMAIN p
    BY <1>5 DEF PathsNameDirs
  <2>2. D[p[<<c>>]].children = d[p[<<c>>]].children
    BY <1>4, <2>1
  <2>3. ~ (c = a /\ f = b) => p[<<c, f>>] # at
    BY <1>1, <1>5
  <2> QED
    BY <1>2, <2>1, <2>2, <2>3 DEF IsNamed
<1>6. PathsNameDirs(D, p)
  <2>1. DOMAIN p \subseteq Paths
    BY DEF PathsNameDirs
  <2> QED
    BY <1>4, <1>5, <2>1 DEF PathsNameDirs
<1>7. DirsHavePaths(D, p)
  BY <1>3, <1>4 DEF DirsHavePaths
<1> QED
  BY <1>5, <1>6, <1>7 DEF OthersAlike

\* A new slot at the end, listed in its depot's directory.
LEMMA LeafAdded ==
    ASSUME NEW d, NEW D, NEW p, NEW s, NEW S, Len(d) \in Nat, Len(s) \in Nat,
           ROOT \in 1..Len(d), TreeOK(d, p, s),
           NEW a \in Apps, NEW b \in Depots, NEW g \in Gids, <<a, b>> \in DOMAIN p,
           SameButFor(d, D, p[<<a, b>>]),
           g \notin DOMAIN d[p[<<a, b>>]].children,
           DOMAIN D[p[<<a, b>>]].children = DOMAIN d[p[<<a, b>>]].children \cup {g},
           \A x \in DOMAIN D[p[<<a, b>>]].children :
               D[p[<<a, b>>]].children[x] = IF x = g THEN pack(Len(s) + 1, 0)
                                            ELSE d[p[<<a, b>>]].children[x],
           Len(S) = Len(s) + 1, \A i \in 1..Len(s) : S[i] = s[i],
           S[Len(s) + 1] # None, S[Len(s) + 1].manifest = <<a, b, g>>
    PROVE  TreeOK(D, p, S)
<1> DEFINE at == p[<<a, b>>]
           n == Len(s) + 1
<1>1. PathsNameDirs(d, p) /\ DirsHavePaths(d, p) /\ LeavesAreSlots(d, p, s) /\ SlotsAreLeaves(d, p, s)
  BY DEF TreeOK
<1>2. /\ PathsNameDirs(D, p) /\ DirsHavePaths(D, p)
      /\ \A c \in Apps, f \in Depots : <<c, f>> \in DOMAIN p /\ ~ (c = a /\ f = b) =>
            D[p[<<c, f>>]].children = d[p[<<c, f>>]].children
  <2>1. OthersAlike(d, D, p, a, b)
    BY <1>1, DepotAlone
  <2> QED
    BY <2>1 DEF OthersAlike
<1> HIDE DEF at, n
<1>3. /\ g \notin DOMAIN d[at].children
      /\ DOMAIN D[at].children = DOMAIN d[at].children \cup {g}
      /\ D[at].children[g] = pack(n, 0)
      /\ \A x \in DOMAIN d[at].children : D[at].children[x] = d[at].children[x]
  BY DEF at, n
<1>4. /\ Len(S) = n /\ n \in 1..n /\ S[n] # None /\ S[n].manifest = <<a, b, g>>
      /\ \A i \in 1..Len(s) : i \in 1..n /\ i # n /\ S[i] = s[i]
      /\ \A i \in 1..n : i = n \/ i \in 1..Len(s)
  BY DEF n
<1>5. LeavesAreSlots(D, p, S)
  <2> SUFFICES ASSUME NEW c \in Apps, NEW f \in Depots, <<c, f>> \in DOMAIN p,
                      NEW h \in DOMAIN D[p[<<c, f>>]].children
               PROVE  \E id \in 1..Len(S) :
                         /\ D[p[<<c, f>>]].children[h] = pack(id, 0)
                         /\ S[id] # None /\ S[id].manifest = <<c, f, h>>
    BY DEF LeavesAreSlots
  <2>1. CASE c = a /\ f = b /\ h = g
    BY <1>3, <1>4, <2>1 DEF at
  <2>2. CASE ~ (c = a /\ f = b /\ h = g)
    <3>1. h \in DOMAIN d[p[<<c, f>>]].children
          /\ D[p[<<c, f>>]].children[h] = d[p[<<c, f>>]].children[h]
      <4>1. CASE c = a /\ f = b
        BY <1>3, <2>2, <4>1 DEF at
      <4>2. CASE ~ (c = a /\ f = b)
        BY <1>2, <4>2
      <4> QED
        BY <4>1, <4>2
    <3>2. PICK id \in 1..Len(s) :
              /\ d[p[<<c, f>>]].children[h] = pack(id, 0)
              /\ s[id] # None /\ s[id].manifest = <<c, f, h>>
      BY <1>1, <3>1 DEF LeavesAreSlots
    <3>3. S[id] = s[id] /\ id \in 1..Len(S)
      BY <1>4
    <3> QED
      BY <3>1, <3>2, <3>3
  <2> QED
    BY <2>1, <2>2
<1>6. SlotsAreLeaves(D, p, S)
  <2> SUFFICES ASSUME NEW id \in 1..Len(S), NEW c \in Apps, NEW f \in Depots,
                      NEW h \in Gids, S[id] # None, S[id].manifest = <<c, f, h>>
               PROVE  /\ <<c, f>> \in DOMAIN p
                      /\ h \in DOMAIN D[p[<<c, f>>]].children
                      /\ D[p[<<c, f>>]].children[h] = pack(id, 0)
    BY DEF SlotsAreLeaves
  <2>1. CASE id = n
    <3>1. c = a /\ f = b /\ h = g
      BY <1>4, <2>1
    <3> QED
      BY <1>3, <2>1, <3>1 DEF at
  <2>2. CASE id \in 1..Len(s)
    <3>1. s[id] # None /\ s[id].manifest = <<c, f, h>>
      BY <1>4, <2>2
    <3>2. /\ <<c, f>> \in DOMAIN p
          /\ h \in DOMAIN d[p[<<c, f>>]].children
          /\ d[p[<<c, f>>]].children[h] = pack(id, 0)
      BY <1>1, <2>2, <3>1 DEF SlotsAreLeaves
    <3>3. CASE c = a /\ f = b
      BY <1>3, <3>2, <3>3 DEF at
    <3>4. CASE ~ (c = a /\ f = b)
      BY <1>2, <3>2, <3>4
    <3> QED
      BY <3>3, <3>4
  <2> QED
    BY <1>4, <2>1, <2>2
<1> QED
  BY <1>2, <1>5, <1>6 DEF TreeOK

\* Snapshot roots of two ids are two.
LEMMA RootsDiffer ==
    ASSUME NEW i \in 0..MaxSnapshot, NEW j \in 0..MaxSnapshot, pack(i, 0) = pack(j, 0)
    PROVE  i = j
<1>1. SnapshotOf(pack(i, 0)) = i /\ SnapshotOf(pack(j, 0)) = j
  BY Packing
<1> QED
  BY <1>1

\* A slot that goes, with its entry in its depot's directory.
LEMMA LeafRemoved ==
    ASSUME NEW d, NEW D, NEW p, NEW s, NEW S, Len(d) \in Nat, Len(s) \in Nat,
           Len(s) <= MaxSnapshot, ROOT \in 1..Len(d), TreeOK(d, p, s),
           NEW id \in 1..Len(s), NEW a \in Apps, NEW b \in Depots, NEW g \in Gids,
           s[id] # None, s[id].manifest = <<a, b, g>>,
           SameButFor(d, D, p[<<a, b>>]),
           DOMAIN D[p[<<a, b>>]].children = DOMAIN d[p[<<a, b>>]].children \ {g},
           \A x \in DOMAIN D[p[<<a, b>>]].children :
               D[p[<<a, b>>]].children[x] = d[p[<<a, b>>]].children[x],
           Len(S) = Len(s), \A i \in 1..Len(s) : S[i] = IF i = id THEN None ELSE s[i]
    PROVE  TreeOK(D, p, S)
<1> DEFINE at == p[<<a, b>>]
<1>1. PathsNameDirs(d, p) /\ DirsHavePaths(d, p) /\ LeavesAreSlots(d, p, s) /\ SlotsAreLeaves(d, p, s)
  BY DEF TreeOK
<1>2. /\ <<a, b>> \in DOMAIN p /\ g \in DOMAIN d[at].children
      /\ d[at].children[g] = pack(id, 0)
  BY <1>1 DEF SlotsAreLeaves
<1>3. /\ PathsNameDirs(D, p) /\ DirsHavePaths(D, p)
      /\ \A c \in Apps, f \in Depots : <<c, f>> \in DOMAIN p /\ ~ (c = a /\ f = b) =>
            D[p[<<c, f>>]].children = d[p[<<c, f>>]].children
  <2>1. OthersAlike(d, D, p, a, b)
    BY <1>1, <1>2, DepotAlone
  <2> QED
    BY <2>1 DEF OthersAlike
<1> HIDE DEF at
<1>4. /\ DOMAIN D[at].children = DOMAIN d[at].children \ {g}
      /\ \A x \in DOMAIN D[at].children : D[at].children[x] = d[at].children[x]
  BY DEF at
<1>5. LeavesAreSlots(D, p, S)
  <2> SUFFICES ASSUME NEW c \in Apps, NEW f \in Depots, <<c, f>> \in DOMAIN p,
                      NEW h \in DOMAIN D[p[<<c, f>>]].children
               PROVE  \E j \in 1..Len(S) :
                         /\ D[p[<<c, f>>]].children[h] = pack(j, 0)
                         /\ S[j] # None /\ S[j].manifest = <<c, f, h>>
    BY DEF LeavesAreSlots
  <2>1. /\ h \in DOMAIN d[p[<<c, f>>]].children /\ ~ (c = a /\ f = b /\ h = g)
        /\ D[p[<<c, f>>]].children[h] = d[p[<<c, f>>]].children[h]
    <3>1. CASE c = a /\ f = b
      BY <1>4, <3>1 DEF at
    <3>2. CASE ~ (c = a /\ f = b)
      BY <1>3, <3>2
    <3> QED
      BY <3>1, <3>2
  <2>2. PICK j \in 1..Len(s) :
            /\ d[p[<<c, f>>]].children[h] = pack(j, 0)
            /\ s[j] # None /\ s[j].manifest = <<c, f, h>>
    BY <1>1, <2>1 DEF LeavesAreSlots
  <2>3. j # id
    BY <2>1, <2>2
  <2>4. S[j] = s[j] /\ j \in 1..Len(S)
    BY <2>3
  <2> QED
    BY <2>1, <2>2, <2>4
<1>6. SlotsAreLeaves(D, p, S)
  <2> SUFFICES \A j \in 1..Len(S), c \in Apps, f \in Depots, h \in Gids :
                   S[j] # None /\ S[j].manifest = <<c, f, h>> =>
                       /\ <<c, f>> \in DOMAIN p
                       /\ h \in DOMAIN D[p[<<c, f>>]].children
                       /\ D[p[<<c, f>>]].children[h] = pack(j, 0)
    BY DEF SlotsAreLeaves
  <2> TAKE j \in 1..Len(S), c \in Apps, f \in Depots, h \in Gids
  <2> HAVE S[j] # None /\ S[j].manifest = <<c, f, h>>
  <2>1. j \in 1..Len(s) /\ j # id /\ S[j] = s[j]
    OBVIOUS
  <2>2. /\ <<c, f>> \in DOMAIN p
        /\ h \in DOMAIN d[p[<<c, f>>]].children
        /\ d[p[<<c, f>>]].children[h] = pack(j, 0)
    BY <1>1, <2>1 DEF SlotsAreLeaves
  <2>3. CASE c = a /\ f = b
    <3>1. id \in 0..MaxSnapshot /\ j \in 0..MaxSnapshot
      BY <2>1, InodeAssumption
    <3>2. h # g
      BY <1>2, <2>1, <2>2, <2>3, <3>1, RootsDiffer DEF at
    <3> QED
      BY <1>4, <2>2, <2>3, <3>2 DEF at
  <2>4. CASE ~ (c = a /\ f = b)
    BY <1>3, <2>2, <2>4
  <2> QED
    BY <2>3, <2>4
<1> QED
  BY <1>3, <1>5, <1>6 DEF TreeOK

\* A snapshot that is opened changes nothing of the names.
LEMMA SlotsAlike ==
    ASSUME NEW d, NEW p, NEW s, NEW S, TreeOK(d, p, s), Len(S) = Len(s),
           \A i \in 1..Len(s) : /\ S[i] # None <=> s[i] # None
                                /\ s[i] # None => S[i].manifest = s[i].manifest
    PROVE  TreeOK(d, p, S)
<1>1. LeavesAreSlots(d, p, S)
  <2> SUFFICES ASSUME NEW c \in Apps, NEW f \in Depots, <<c, f>> \in DOMAIN p,
                      NEW h \in DOMAIN d[p[<<c, f>>]].children
               PROVE  \E j \in 1..Len(S) :
                         /\ d[p[<<c, f>>]].children[h] = pack(j, 0)
                         /\ S[j] # None /\ S[j].manifest = <<c, f, h>>
    BY DEF LeavesAreSlots
  <2>1. PICK j \in 1..Len(s) :
            /\ d[p[<<c, f>>]].children[h] = pack(j, 0)
            /\ s[j] # None /\ s[j].manifest = <<c, f, h>>
    BY DEF TreeOK, LeavesAreSlots
  <2> QED
    BY <2>1
<1>2. SlotsAreLeaves(d, p, S)
  <2> SUFFICES ASSUME NEW j \in 1..Len(S), NEW c \in Apps, NEW f \in Depots,
                      NEW h \in Gids, S[j] # None, S[j].manifest = <<c, f, h>>
               PROVE  /\ <<c, f>> \in DOMAIN p
                      /\ h \in DOMAIN d[p[<<c, f>>]].children
                      /\ d[p[<<c, f>>]].children[h] = pack(j, 0)
    BY DEF SlotsAreLeaves
  <2>1. j \in 1..Len(s) /\ s[j] # None /\ s[j].manifest = <<c, f, h>>
    OBVIOUS
  <2> QED
    BY <2>1 DEF TreeOK, SlotsAreLeaves
<1> QED
  BY <1>1, <1>2 DEF TreeOK

LEMMA TreeInit == Init => TreeOK(synthetic, synthByPath, slots)
<1> SUFFICES ASSUME Init PROVE TreeOK(synthetic, synthByPath, slots)
  OBVIOUS
<1>1. DOMAIN synthByPath = {} /\ Len(slots) = 0
  BY DEF Init
<1>2. DOMAIN synthetic[ROOT].children = {}
  BY DEF Init, ROOT
<1> QED
  BY <1>1, <1>2
  DEF TreeOK, PathsNameDirs, DirsHavePaths, LeavesAreSlots, SlotsAreLeaves

\* The directories an add goes on from, and a path that leads to one of them.
LEMMA TreeAdd ==
    ASSUME SlotTypes, DirsOK(synthetic, cells), Room,
           TreeOK(synthetic, synthByPath, slots),
           NEW m \in Manifests, NEW lazy \in BOOLEAN, Add(m, lazy)
    PROVE  TreeOK(synthetic', synthByPath', slots')
<1> DEFINE e == WithDirs(m)
           d == e.dirs
           p == e.paths
           at == e.at
           x == [manifest |-> m, entry |-> IF lazy THEN None ELSE m]
<1>1. TreeOK(d, p, slots) /\ <<m[1], m[2]>> \in DOMAIN p /\ p[<<m[1], m[2]>>] = at
  BY WithDirsTree
<1>2. synthByPath' = p
  BY DEF Add
<1>3. CASE AlreadyMounted(e, m) \/ TooManySnapshots
  BY <1>1, <1>2, <1>3 DEF Add
<1>4. CASE ~ AlreadyMounted(e, m) /\ ~ TooManySnapshots
  <2> DEFINE ino == pack(NextId, 0)
             kids == Bind(d[at].children, m[3], ino)
             D == [d EXCEPT ![at] = [d[at] EXCEPT !.children = kids]]
  <2>1. slots' = Append(slots, x) /\ synthetic' = D
    BY <1>4 DEF Add
  <2>2. DirsOK(d, cells) /\ at \in 2..Len(d)
    BY WithDirsOK
  <2>3. /\ d \in Seq(Dir) /\ Len(d) \in Nat /\ ROOT \in 1..Len(d) /\ at \in 1..Len(d)
        /\ d[at] \in Dir
    BY <2>2 DEF DirsOK, ROOT
  <2>4. m[3] \notin DOMAIN d[at].children
    BY <1>4 DEF AlreadyMounted
  <2>5. m[1] \in Apps /\ m[2] \in Depots /\ m[3] \in Gids /\ m = <<m[1], m[2], m[3]>>
    BY DEF Manifests
  <2>6. x \in Slot /\ x.manifest = m /\ x # None
    <3>1. x \in [manifest : Manifests, entry : Manifests \cup {None}]
      OBVIOUS
    <3> QED
      BY <3>1, AnswersAssumption DEF Slot
  <2>7. /\ Len(slots) \in Nat /\ Len(slots') = Len(slots) + 1 /\ slots'[Len(slots) + 1] = x
        /\ \A i \in 1..Len(slots) : slots'[i] = slots[i]
    BY <2>1, <2>6, AppendProperties DEF SlotTypes, SlotsInv
  <2> HIDE DEF d, p, at, x, e
  <2>8. /\ DOMAIN kids = DOMAIN d[at].children \cup {m[3]}
        /\ \A y \in DOMAIN kids : kids[y] = IF y = m[3] THEN ino ELSE d[at].children[y]
    <3> DEFINE c == d[at].children
               g == m[3]
    <3> HIDE DEF c, g, ino
    <3>1. Bind(c, g, ino) = [z \in DOMAIN c \cup {g} |-> IF z = g THEN ino ELSE c[z]]
      BY DEF Bind
    <3>2. /\ DOMAIN Bind(c, g, ino) = DOMAIN c \cup {g}
          /\ \A y \in DOMAIN Bind(c, g, ino) : Bind(c, g, ino)[y] = IF y = g THEN ino ELSE c[y]
      BY <3>1
    <3> QED
      BY <3>2 DEF c, g
  <2>9. /\ Len(D) = Len(d) /\ D[at].children = kids
        /\ \A i \in 1..Len(d) :
              /\ D[i].parent = d[i].parent /\ D[i].name = d[i].name
              /\ i # at => D[i].children = d[i].children
    BY <2>3 DEF Dir
  <2> HIDE DEF kids, D
  <2>10. SameButFor(d, D, at)
    BY <2>9 DEF SameButFor
  <2>11. /\ DOMAIN D[at].children = DOMAIN d[at].children \cup {m[3]}
         /\ \A y \in DOMAIN D[at].children :
               D[at].children[y] = IF y = m[3] THEN pack(Len(slots) + 1, 0) ELSE d[at].children[y]
    BY <2>8, <2>9 DEF NextId
  <2> HIDE DEF ino
  <2> DEFINE a == m[1]
             b == m[2]
             g == m[3]
             S == slots'
  <2>12. /\ a \in Apps /\ b \in Depots /\ g \in Gids /\ <<a, b>> \in DOMAIN p /\ p[<<a, b>>] = at
         /\ g \notin DOMAIN d[at].children
         /\ S[Len(slots) + 1] # None /\ S[Len(slots) + 1].manifest = <<a, b, g>>
         /\ Len(S) = Len(slots) + 1 /\ \A i \in 1..Len(slots) : S[i] = slots[i]
    BY <1>1, <2>4, <2>5, <2>6, <2>7
  <2>13. /\ DOMAIN D[at].children = DOMAIN d[at].children \cup {g}
         /\ \A y \in DOMAIN D[at].children :
               D[at].children[y] = IF y = g THEN pack(Len(slots) + 1, 0) ELSE d[at].children[y]
    BY <2>11
  <2> HIDE DEF a, b, g, S
  <2>14. TreeOK(D, p, S)
    BY <1>1, <2>3, <2>7, <2>10, <2>12, <2>13, LeafAdded
  <2> QED
    BY <1>2, <2>1, <2>14 DEF S
<1> QED
  BY <1>3, <1>4

LEMMA TreeRemove ==
    ASSUME SlotTypes, DirsOK(synthetic, cells), Room, RequestsInv,
           TreeOK(synthetic, synthByPath, slots),
           NEW id \in 1..Len(slots), Remove(id)
    PROVE  TreeOK(synthetic', synthByPath', slots')
<1> DEFINE m == slots[id].manifest
           a == m[1]
           b == m[2]
           g == m[3]
           d == synthetic
           p == synthByPath
           at == p[<<a, b>>]
           kids == Unbind(d[at].children, g)
           D == [d EXCEPT ![at] = [d[at] EXCEPT !.children = kids]]
<1>1. slots[id] # None /\ slots[id] \in Slot
  BY SMTT(20) DEF Remove, SlotTypes, SlotsInv
<1>2. a \in Apps /\ b \in Depots /\ g \in Gids /\ m = <<a, b, g>>
  BY <1>1 DEF Slot, Manifests
<1>3. Len(slots) \in Nat /\ Len(slots) <= MaxSnapshot
  BY DEF SlotTypes, SlotsInv, RequestsInv
<1>4. d \in Seq(Dir) /\ Len(d) \in Nat /\ ROOT \in 1..Len(d) /\ Len(d) < IndexSpan
  BY InodeAssumption DEF DirsOK, ROOT, Room
<1>5. synthetic' = [synthetic EXCEPT ![IndexIn(at)].children = Unbind(@, g)]
      /\ slots' = [slots EXCEPT ![id] = None] /\ synthByPath' = p
  BY DEF Remove
<1> HIDE DEF a, b, g, d, at
<1>6. <<a, b>> \in DOMAIN p
  BY <1>1, <1>2 DEF TreeOK, SlotsAreLeaves
<1>7. at \in 2..Len(d)
  BY <1>2, <1>6 DEF TreeOK, PathsNameDirs, IsNamed, at, d
<1>8. IndexIn(at) = at
  BY <1>4, <1>7, Packing, InodeAssumption
<1>9. synthetic' = D
  BY <1>5, <1>8 DEF d
<1>10. d[at] \in Dir /\ at \in 1..Len(d)
  BY <1>4, <1>7
<1>11. /\ Len(D) = Len(d) /\ D[at].children = kids
       /\ \A i \in 1..Len(d) :
             /\ D[i].parent = d[i].parent /\ D[i].name = d[i].name
             /\ i # at => D[i].children = d[i].children
  BY <1>4, <1>10 DEF Dir
<1>12. /\ DOMAIN kids = DOMAIN d[at].children \ {g}
       /\ \A x \in DOMAIN kids : kids[x] = d[at].children[x]
  <2> DEFINE c == d[at].children
  <2> HIDE DEF c
  <2>1. Unbind(c, g) = [x \in DOMAIN c \ {g} |-> c[x]]
    BY DEF Unbind, Restrict
  <2>2. DOMAIN Unbind(c, g) = DOMAIN c \ {g} /\ \A x \in DOMAIN Unbind(c, g) : Unbind(c, g)[x] = c[x]
    BY <2>1
  <2> QED
    BY <2>2 DEF c
<1> HIDE DEF kids, D
<1>13. SameButFor(d, D, at)
  BY <1>11 DEF SameButFor
<1>14. /\ DOMAIN D[at].children = DOMAIN d[at].children \ {g}
       /\ \A x \in DOMAIN D[at].children : D[at].children[x] = d[at].children[x]
  BY <1>11, <1>12
<1> DEFINE S == slots'
<1>15. Len(S) = Len(slots) /\ \A i \in 1..Len(slots) : S[i] = IF i = id THEN None ELSE slots[i]
  BY <1>5 DEF SlotTypes, SlotsInv
<1> HIDE DEF S
<1>16. TreeOK(d, p, slots)
  BY DEF d
<1>17. TreeOK(D, p, S)
  BY <1>1, <1>2, <1>3, <1>4, <1>13, <1>14, <1>15, <1>16, LeafRemoved DEF at
<1> QED
  BY <1>5, <1>9, <1>17 DEF S

LEMMA TreeStep ==
    ASSUME SlotTypes, DirsOK(synthetic, cells), Room, RequestsInv,
           TreeOK(synthetic, synthByPath, slots), [Next]_vars
    PROVE  TreeOK(synthetic', synthByPath', slots')
<1>1. CASE UNCHANGED treeVars
  BY <1>1 DEF treeVars
<1>2. ASSUME NEW w \in Workers, Promote(w) PROVE TreeOK(synthetic', synthByPath', slots')
  <2>1. UNCHANGED <<synthetic, synthByPath>>
    BY <1>2 DEF Promote
  <2>2. /\ Len(slots') = Len(slots)
        /\ \A i \in 1..Len(slots) : /\ slots'[i] # None <=> slots[i] # None
                                    /\ slots[i] # None => slots'[i].manifest = slots[i].manifest
    <3>1. CASE UNCHANGED slots
      BY <3>1
    <3>2. CASE slots[sid[w]] # None
               /\ slots' = [slots EXCEPT ![sid[w]] =
                               [slots[sid[w]] EXCEPT !.entry = cells[sid[w]].opens]]
      <4> DEFINE i == sid[w]
                 new == [slots[i] EXCEPT !.entry = cells[i].opens]
      <4>1. CASE i \in 1..Len(slots)
        <5>1. slots[i] \in Slot /\ cells[i] \in Cell
          BY <3>2, <4>1 DEF SlotTypes, SlotsInv
        <5>2. new \in Slot /\ new.manifest = slots[i].manifest
          BY <5>1 DEF Slot, Cell
        <5>3. new # None
          BY <5>2, AnswersAssumption DEF Slot
        <5> HIDE DEF new
        <5>4. slots' = [slots EXCEPT ![i] = new]
          BY <3>2 DEF new
        <5> QED
          BY <3>2, <4>1, <5>2, <5>3, <5>4 DEF SlotTypes, SlotsInv
      <4>2. CASE i \notin 1..Len(slots)
        BY <3>2, <4>2 DEF SlotTypes, SlotsInv
      <4> QED
        BY <4>1, <4>2
    <3> QED
      BY <1>2, <3>1, <3>2 DEF Promote
  <2> QED
    BY <2>1, <2>2, SlotsAlike
<1> QED
  BY <1>1, <1>2, TreeAdd, TreeRemove
  DEF Next, Step, Lookup, Again, Serve, Missing, Pending, Open, Opened, OpenPanics, Failed, vars

\* Where a walk by name comes to: a path that is not known leads nowhere, and
\* a depot's path to what its directory lists.
LEMMA WalkFollows ==
    ASSUME DirsOK(synthetic, cells), Room, TreeOK(synthetic, synthByPath, slots),
           NEW m \in Manifests, Walk(m) # None
    PROVE  /\ <<m[1], m[2]>> \in DOMAIN synthByPath
           /\ m[3] \in DOMAIN synthetic[synthByPath[<<m[1], m[2]>>]].children
           /\ Walk(m) = synthetic[synthByPath[<<m[1], m[2]>>]].children[m[3]]
<1> DEFINE Child(ino, name) ==
               IF ino = None \/ name \notin DOMAIN synthetic[IndexIn(ino)].children
               THEN None ELSE synthetic[IndexIn(ino)].children[name]
           up == Child(ROOT, m[1])
           at == Child(up, m[2])
           p == synthByPath
<1>1. Walk(m) = Child(at, m[3])
  BY DEF Walk
<1>2. at # None /\ up # None /\ m[3] \in DOMAIN synthetic[IndexIn(at)].children
  BY <1>1
<1>3. \A i \in 1..Len(synthetic) : IndexIn(i) = i
  BY Packing, InodeAssumption DEF Room, DirsOK
<1>4. ROOT \in 1..Len(synthetic) /\ m[1] \in Apps /\ m[2] \in Depots
  BY DEF DirsOK, ROOT, Manifests
<1>5. m[1] \in DOMAIN synthetic[ROOT].children /\ up = synthetic[ROOT].children[m[1]]
  BY <1>2, <1>3, <1>4
<1> HIDE DEF up
<1>6. <<m[1]>> \in DOMAIN p /\ IsNamed(synthetic, p[<<m[1]>>], ROOT, m[1])
  BY <1>4, <1>5 DEF TreeOK, DirsHavePaths, PathsNameDirs
<1>7. up = p[<<m[1]>>] /\ up \in 1..Len(synthetic)
  BY <1>5, <1>6 DEF IsNamed
<1>8. m[2] \in DOMAIN synthetic[up].children /\ at = synthetic[up].children[m[2]]
  BY <1>2, <1>3, <1>7
<1> HIDE DEF at
<1>9. <<m[1], m[2]>> \in DOMAIN p /\ IsNamed(synthetic, p[<<m[1], m[2]>>], p[<<m[1]>>], m[2])
  <2>1. <<m[1], m[2]>> \in DOMAIN p
    BY <1>4, <1>6, <1>7, <1>8 DEF TreeOK, DirsHavePaths
  <2> QED
    BY <1>4, <2>1 DEF TreeOK, PathsNameDirs
<1>10. at = p[<<m[1], m[2]>>] /\ at \in 1..Len(synthetic)
  BY <1>7, <1>8, <1>9 DEF IsNamed
<1>11. IndexIn(at) = at
  BY <1>3, <1>10
<1>12. Walk(m) = synthetic[at].children[m[3]]
  BY <1>1, <1>2, <1>11
<1> QED
  BY <1>2, <1>9, <1>10, <1>11, <1>12

\* And every path is followed by the walk.
LEMMA WalkArrives ==
    ASSUME DirsOK(synthetic, cells), Room, TreeOK(synthetic, synthByPath, slots),
           NEW m \in Manifests, <<m[1], m[2]>> \in DOMAIN synthByPath,
           m[3] \in DOMAIN synthetic[synthByPath[<<m[1], m[2]>>]].children
    PROVE  Walk(m) = synthetic[synthByPath[<<m[1], m[2]>>]].children[m[3]]
<1> DEFINE Child(ino, name) ==
               IF ino = None \/ name \notin DOMAIN synthetic[IndexIn(ino)].children
               THEN None ELSE synthetic[IndexIn(ino)].children[name]
           p == synthByPath
           up == p[<<m[1]>>]
           at == p[<<m[1], m[2]>>]
<1>1. \A i \in 1..Len(synthetic) : IndexIn(i) = i /\ i # None
  BY Packing, InodeAssumption, AnswersAssumption DEF Room, DirsOK
<1>2. ROOT \in 1..Len(synthetic) /\ m[1] \in Apps /\ m[2] \in Depots
  BY DEF DirsOK, ROOT, Manifests
<1>3. IsNamed(synthetic, up, ROOT, m[1]) /\ IsNamed(synthetic, at, up, m[2])
  BY <1>2 DEF TreeOK, PathsNameDirs
<1> HIDE DEF at, up
<1>4. up \in 1..Len(synthetic) /\ at \in 1..Len(synthetic)
  BY <1>3 DEF IsNamed
<1>5. Child(ROOT, m[1]) = up
  BY <1>1, <1>2, <1>3 DEF IsNamed
<1>6. Child(up, m[2]) = at
  BY <1>1, <1>3, <1>4 DEF IsNamed
<1>7. Child(at, m[3]) = synthetic[at].children[m[3]]
  BY <1>1, <1>4 DEF at
<1>8. Walk(m) = Child(Child(Child(ROOT, m[1]), m[2]), m[3])
  BY DEF Walk
<1> HIDE DEF Child
<1> QED
  BY <1>5, <1>6, <1>7, <1>8 DEF at

\* In a tree that is sound names lead to slots, and paths to directories.
LEMMA TreeMeans ==
    ASSUME SlotTypes, DirsOK(synthetic, cells), Room, RequestsInv,
           TreeOK(synthetic, synthByPath, slots)
    PROVE  TreeLeadsToSlots /\ PathsLeadToDirs
<1>1. \A i \in 1..Len(slots) : i \in 0..MaxSnapshot /\ pack(i, 0) \in Nat /\ IndexIn(pack(i, 0)) = 0
  <2> SUFFICES ASSUME NEW i \in 1..Len(slots)
               PROVE  i \in 0..MaxSnapshot /\ pack(i, 0) \in Nat /\ IndexIn(pack(i, 0)) = 0
    OBVIOUS
  <2>1. i \in 0..MaxSnapshot /\ i \in Nat
    BY InodeAssumption DEF SlotTypes, SlotsInv, RequestsInv
  <2>2. pack(i, 0) = i * IndexSpan
    BY <2>1, InodeAssumption DEF pack
  <2>3. (i * IndexSpan) % IndexSpan = 0 /\ i * IndexSpan \in Nat
    BY <2>1, InodeAssumption, SMTT(30)
  <2> QED
    BY <2>1, <2>2, <2>3 DEF IndexIn
<1>2. ASSUME NEW m \in Manifests
      PROVE  IF Walk(m) = None THEN Live(m) = {}
             ELSE Live(m) = {SnapshotOf(Walk(m))} /\ IndexIn(Walk(m)) = 0
  <2> DEFINE a == m[1]
             b == m[2]
             g == m[3]
             at == synthByPath[<<a, b>>]
  <2>1. a \in Apps /\ b \in Depots /\ g \in Gids /\ m = <<a, b, g>>
    BY DEF Manifests
  <2> HIDE DEF a, b, g
  <2>2. ASSUME NEW i \in Live(m)
        PROVE  Walk(m) = pack(i, 0) /\ Walk(m) # None /\ SnapshotOf(Walk(m)) = i
    <3>1. i \in 1..Len(slots) /\ slots[i] # None /\ slots[i].manifest = <<a, b, g>>
      BY <2>1, <2>2 DEF Live
    <3>2. /\ <<a, b>> \in DOMAIN synthByPath /\ g \in DOMAIN synthetic[at].children
          /\ synthetic[at].children[g] = pack(i, 0)
      BY <2>1, <3>1 DEF TreeOK, SlotsAreLeaves
    <3>3. Walk(m) = pack(i, 0)
      BY <3>2, WalkArrives DEF a, b, g
    <3> QED
      BY <1>1, <3>1, <3>3, Packing, AnswersAssumption
  <2>3. CASE Walk(m) = None
    BY <2>2, <2>3
  <2>4. CASE Walk(m) # None
    <3>1. /\ <<a, b>> \in DOMAIN synthByPath /\ g \in DOMAIN synthetic[at].children
          /\ Walk(m) = synthetic[at].children[g]
      BY <2>4, WalkFollows DEF a, b, g
    <3>2. PICK i \in 1..Len(slots) :
              /\ synthetic[at].children[g] = pack(i, 0)
              /\ slots[i] # None /\ slots[i].manifest = <<a, b, g>>
      BY <2>1, <3>1 DEF TreeOK, LeavesAreSlots
    <3>3. i \in Live(m)
      BY <2>1, <3>2 DEF Live
    <3>4. SnapshotOf(Walk(m)) = i /\ IndexIn(Walk(m)) = 0
      BY <1>1, <2>2, <3>3
    <3> QED
      BY <2>2, <2>4, <3>3, <3>4
  <2> QED
    BY <2>3, <2>4
<1>3. \A i \in 1..Len(synthetic) : IndexIn(i) = i
  BY Packing, InodeAssumption DEF Room, DirsOK
<1>4. ASSUME NEW path \in DOMAIN synthByPath
      PROVE  LET dir == IndexIn(synthByPath[path])
                 name == path[Len(path)]
                 parent == IF Len(path) = 1 THEN ROOT ELSE synthByPath[<<path[1]>>]
             IN  /\ synthetic[dir].name = name /\ synthetic[dir].parent = parent
                 /\ name \in DOMAIN synthetic[IndexIn(parent)].children
                 /\ synthetic[IndexIn(parent)].children[name] = synthByPath[path]
  <2>1. path \in Paths /\ PathsNameDirs(synthetic, synthByPath)
    BY DEF TreeOK, PathsNameDirs
  <2>2. ASSUME NEW name, NEW parent, IsNamed(synthetic, synthByPath[path], parent, name),
               parent \in 1..Len(synthetic), name = path[Len(path)],
               parent = IF Len(path) = 1 THEN ROOT ELSE synthByPath[<<path[1]>>]
        PROVE  LET dir == IndexIn(synthByPath[path])
               IN  /\ synthetic[dir].name = name /\ synthetic[dir].parent = parent
                   /\ name \in DOMAIN synthetic[IndexIn(parent)].children
                   /\ synthetic[IndexIn(parent)].children[name] = synthByPath[path]
    BY <1>3, <2>2 DEF IsNamed
  <2>3. ASSUME NEW a \in Apps, path = <<a>>
        PROVE  /\ IsNamed(synthetic, synthByPath[path], ROOT, a)
               /\ ROOT \in 1..Len(synthetic) /\ a = path[Len(path)] /\ Len(path) = 1
    BY <2>1, <2>3 DEF PathsNameDirs, DirsOK, ROOT
  <2>4. ASSUME NEW a \in Apps, NEW b \in Depots, path = <<a, b>>
        PROVE  /\ IsNamed(synthetic, synthByPath[path], synthByPath[<<path[1]>>], b)
               /\ synthByPath[<<path[1]>>] \in 1..Len(synthetic)
               /\ b = path[Len(path)] /\ Len(path) # 1
    <3>1. /\ <<a>> \in DOMAIN synthByPath
          /\ IsNamed(synthetic, synthByPath[<<a, b>>], synthByPath[<<a>>], b)
          /\ IsNamed(synthetic, synthByPath[<<a>>], ROOT, a)
      BY <2>1, <2>4 DEF PathsNameDirs
    <3>2. path[1] = a /\ Len(path) = 2 /\ path[2] = b
      BY <2>4
    <3> QED
      BY <2>4, <3>1, <3>2 DEF IsNamed
  <2>5. (\E a \in Apps : path = <<a>>) \/ (\E a \in Apps, b \in Depots : path = <<a, b>>)
    BY <2>1 DEF Paths
  <2> QED
    BY <2>2, <2>3, <2>4, <2>5
<1> QED
  BY <1>2, <1>4 DEF TreeLeadsToSlots, PathsLeadToDirs

\* Adds, failed or not, removals and openings in any order keep the names true:
\* a walk by name finds a manifest just when one slot holds it, and finds that
\* slot, as long as the directories do not run out of indices.
THEOREM NamesLeadToSlots == Spec /\ []Room => []TreeLeadsToSlots
<1> DEFINE Inv == /\ SlotTypes /\ DirsOK(synthetic, cells) /\ RequestsInv
                  /\ TreeOK(synthetic, synthByPath, slots)
<1>1. Init => Inv
  BY SlotTypesInit, DirsInit, RequestsInit, TreeInit
<1>2. Inv /\ Room /\ [Next]_vars => Inv'
  BY SlotTypesStep, DirsStep, RequestsStep, TreeStep
<1>3. Inv /\ Room => TreeLeadsToSlots
  BY TreeMeans
<1> QED
  BY <1>1, <1>2, <1>3, PTL DEF Spec

\* The paths that remove and ProjFS go by name the directories that a walk from
\* the root comes to.
THEOREM PathsNameTheDirectories == Spec /\ []Room => []PathsLeadToDirs
<1> DEFINE Inv == /\ SlotTypes /\ DirsOK(synthetic, cells) /\ RequestsInv
                  /\ TreeOK(synthetic, synthByPath, slots)
<1>1. Init => Inv
  BY SlotTypesInit, DirsInit, RequestsInit, TreeInit
<1>2. Inv /\ Room /\ [Next]_vars => Inv'
  BY SlotTypesStep, DirsStep, RequestsStep, TreeStep
<1>3. Inv /\ Room => PathsLeadToDirs
  BY TreeMeans
<1> QED
  BY <1>1, <1>2, <1>3, PTL DEF Spec
=============================================================================
