------------------------------- MODULE ReadDir -------------------------------
(***************************************************************************)
(* A directory listed in several calls while snapshots are added and       *)
(* removed under it: readdir of the FUSE back end, which resumes at a      *)
(* position, of the NFS back end, which resumes after a node id, and       *)
(* ProjFS's enumeration sessions, which keep a copy.                       *)
(*                                                                         *)
(* The directory is one of the tree's own, whose children have node ids    *)
(* that are never used twice, or one within a snapshot, which never        *)
(* changes, may have to be opened first, and may go as a whole.  Names are  *)
(* numbered in their order.                                                *)
(***************************************************************************)
EXTENDS Integers, Sequences, FiniteSets, SequencesExt, FiniteSetsExt, Functions

CONSTANTS Names,       \* names a directory may have
          Patterns,    \* sets of names that search expressions of ProjFS match
          MaxIno,      \* bound: node ids given to children
          MaxRestarts, \* bound: restarts of one ProjFS scan
          Rooms,       \* entries a reply has room for
          None

\* EnumSession: the directory when it began, where the scan is in it, and the
\* search expression of its first call.
Sessions == [entries : Seq(Names), index : Nat, search : Patterns \cup {None}]

ASSUME ReadDirAssumption ==
    /\ Names \subseteq Nat \ {0} /\ IsFiniteSet(Names)
    /\ Patterns \subseteq SUBSET Names /\ None \notin Patterns
    /\ None \notin {"fuse", "nfs", "projfs"} /\ None \notin Sessions
    /\ MaxIno \in Nat /\ MaxRestarts \in Nat
    /\ Rooms \subseteq Nat /\ \E room \in Rooms : room > 0

VARIABLES kind,      \* "synthetic" or "snapshot"
          dir,       \* children of the directory: their node ids by name
          gone,      \* its snapshot has been removed
          fresh,     \* the next node id
          loaded,    \* the snapshot it is in has been opened
          by,        \* back end whose client lists, or None
          cookie,    \* where it resumes: FUSE an offset, NFS a node id
          session,   \* ProjFS: the EnumSession, or None
          restarts,  \* of the session
          unread,    \* its list is that of a snapshot that could not be opened
          reply,     \* what the last call came to
          got,       \* names given since the listing began or started again
          must, may, \* names there throughout, and at some time
          changed    \* what happened to the directory: "added", "removed"

treeVars == <<kind, dir, gone, fresh>>
clientVars == <<by, cookie, session, restarts, unread, reply, got>>
vars == <<treeVars, loaded, clientVars, must, may, changed>>

Children == UNION {[S -> 1..MaxIno] : S \in SUBSET Names}

Init ==
    /\ kind \in {"synthetic", "snapshot"}
    /\ \E S \in SUBSET Names :
          /\ dir \in {d \in [S -> 1..Cardinality(S)] : IsInjective(d)}
          /\ fresh = Cardinality(S) + 1
    /\ gone = FALSE /\ loaded \in {kind = "synthetic", TRUE}
    /\ by = None /\ cookie = 0 /\ session = None /\ restarts = 0 /\ unread = FALSE
    /\ reply = "none" /\ got = << >>
    /\ must = {} /\ may = {} /\ changed = {}

-----------------------------------------------------------------------------

Noted(what) ==
    IF by = None THEN UNCHANGED <<must, may, changed>>
    ELSE /\ must' = must \cap DOMAIN dir'
         /\ may' = may \cup DOMAIN dir'
         /\ changed' = changed \cup {what}

Fresh == fresh

\* reserve_slot: the name is bound to an id never used before.
Add(name) ==
    /\ kind = "synthetic" /\ name \notin DOMAIN dir /\ fresh <= MaxIno
    /\ dir' = [n \in DOMAIN dir \cup {name} |-> IF n = name THEN Fresh ELSE dir[n]]
    /\ fresh' = fresh + 1
    /\ Noted("added")
    /\ UNCHANGED <<kind, gone, loaded, clientVars>>

RemoveEntry(name) ==
    /\ kind = "synthetic" /\ name \in DOMAIN dir
    /\ dir' = Restrict(dir, DOMAIN dir \ {name})
    /\ Noted("removed")
    /\ UNCHANGED <<kind, gone, fresh, loaded, clientVars>>

\* The slot of the snapshot the directory is in is cleared.
RemoveSnapshot ==
    /\ kind = "snapshot" /\ ~ gone
    /\ gone' = TRUE /\ dir' = Restrict(dir, {})
    /\ Noted("removed")
    /\ UNCHANGED <<kind, fresh, loaded, clientVars>>

-----------------------------------------------------------------------------

\* The elements of a finite set of numbers in their order, and those elements
\* of a sequence that are in S.  They are SetToSortSeq and SelectSeq, in a form
\* that proofs can use.
Sorted(S) ==
    CHOOSE s \in [1..Cardinality(S) -> S] :
        \A i, j \in 1..Cardinality(S) : i < j => s[i] < s[j]

Select(s, S) ==
    LET hits == {i \in DOMAIN s : s[i] \in S}
    IN  [k \in 1..Cardinality(hits) |-> s[Sorted(hits)[k]]]

\* synthetic_dir, snapshot_dir, and the list ProjFS sorts.
Entries == Sorted(DOMAIN dir)

Begin(b) ==
    /\ by = None
    /\ by' = b /\ reply' = "more"
    /\ must' = DOMAIN dir /\ may' = DOMAIN dir
    /\ UNCHANGED <<treeVars, cookie, restarts, got, changed>>

\* The kernel opens a directory; nothing reaches the back end.
OpenDir == (Begin("fuse") \/ Begin("nfs")) /\ UNCHANGED <<session, unread, loaded>>

\* start_dir_enum: the session has a copy of the list.
StartDirEnum ==
    /\ Begin("projfs")
    /\ session' = [entries |-> Entries, index |-> 0, search |-> None]
    /\ unread' = FALSE /\ loaded' = TRUE

\* start_dir_enum of a snapshot that does not open: list_directory swallows
\* the error, and the session begins, with S_OK, on an empty list.
StartDirEnumUnread ==
    /\ Begin("projfs") /\ ~ gone /\ ~ loaded
    /\ session' = [entries |-> << >>, index |-> 0, search |-> None]
    /\ unread' = TRUE /\ UNCHANGED loaded

\* releasedir, or end_dir_enum.
Close ==
    /\ by # None
    /\ by' = None /\ cookie' = 0 /\ session' = None /\ restarts' = 0 /\ unread' = FALSE
    /\ reply' = "none" /\ got' = << >>
    /\ must' = {} /\ may' = {} /\ changed' = {}
    /\ UNCHANGED <<treeVars, loaded>>

\* The client has a page, and is told whether more is to come.
Replied(page, end) ==
    /\ reply' = IF end THEN "all" ELSE "more"
    /\ got' = got \o page

Failed == reply' = "error" /\ UNCHANGED <<cookie, session, got>>

\* A reply of FUSE and NFS: to the listing, once the snapshot is open, or EIO
\* when it does not open, which the client is told.
Resolved(Answer) == (Answer /\ loaded' = TRUE) \/ (~ loaded /\ Failed /\ UNCHANGED loaded)

\* emit_readdir, with "." and "..": the entries whose next offset the kernel
\* has not seen.  A reply with nothing in it is the end to the kernel.
FuseReadDir(room) ==
    LET stop == Min({cookie + room, Len(Entries) + 2})
        names == SubSeq(Entries, Max({cookie - 1, 1}), stop - 2)
    IN  /\ by = "fuse" /\ reply = "more" /\ room > 0
        /\ IF gone THEN Failed /\ UNCHANGED loaded
           ELSE Resolved(/\ Replied(names, stop <= cookie)
                         /\ cookie' = Max({cookie, stop})
                         /\ UNCHANGED session)

\* Mutant: a cookie nobody has ends the listing.
SkipUnknown(entries) ==
    IF cookie = 0 THEN 0
    ELSE Max({i \in DOMAIN entries : dir[entries[i]] = cookie} \cup
             {IF cookie \in Range(dir) THEN 0 ELSE Len(entries)})

\* Mutant: the listing resumes at the entry of the cookie.
SkipToLast(entries) ==
    Max({i - 1 : i \in {j \in DOMAIN entries : dir[entries[j]] = cookie}} \cup {0})

\* Entries up to that of the cookie; none when the cookie is unknown.
Skip(entries) == Max({i \in DOMAIN entries : dir[entries[i]] = cookie} \cup {0})

\* Mutant: there is more after the last entry.
AtEndLate(n) == n > Cardinality(DOMAIN dir)

AtEnd(n) == n >= Cardinality(DOMAIN dir)

\* An empty directory of a snapshot has no key in `children`.
NfsReadDir(room) ==
    LET skip == Skip(Entries)
        page == SubSeq(Entries, skip + 1, Min({skip + room, Len(Entries)}))
    IN  /\ by = "nfs" /\ reply = "more" /\ room > 0
        /\ IF gone THEN Failed /\ UNCHANGED loaded
           ELSE Resolved(IF kind = "snapshot" /\ Entries = << >> THEN Failed
                         ELSE /\ Replied(page, AtEnd(skip + Len(page)))
                              /\ cookie' = IF page = << >> THEN cookie ELSE dir[Last(page)]
                              /\ UNCHANGED session)

\* Mutant: a restart forgets the search expression only.
RestartedInPlace(s) == [s EXCEPT !.search = None]

Restarted(s) == [s EXCEPT !.index = 0, !.search = None]

\* The index after as many matching entries as there is room for.
Filled(s, room) ==
    LET hits == {i \in s.index + 1 .. Len(s.entries) : s.entries[i] \in s.search}
    IN  IF Cardinality(hits) <= room THEN Len(s.entries)
        ELSE Min({i \in hits : Cardinality({j \in hits : j <= i}) > room}) - 1

\* get_dir_enum: the search expression counts in a scan's first call.  When
\* not one entry fits, the client is to come again with more room.
GetDirEnum(restart, pattern, room) ==
    LET s0 == IF restart THEN Restarted(session) ELSE session
        s == IF s0.search = None THEN [s0 EXCEPT !.search = pattern] ELSE s0
        stop == Filled(s, room)
        page == Select(SubSeq(s.entries, s.index + 1, stop), s.search)
    IN  /\ by = "projfs" /\ session # None
        /\ restart \/ reply = "more"
        /\ reply # "error"
        /\ restart => restarts < MaxRestarts
        /\ restarts' = restarts + IF restart THEN 1 ELSE 0
        /\ session' = [s EXCEPT !.index = stop]
        /\ reply' = IF page = << >> /\ stop = Len(s.entries) THEN "all" ELSE "more"
        /\ got' = (IF restart THEN << >> ELSE got) \o page
        /\ UNCHANGED <<cookie, loaded>>

\* The entry buffer refuses an entry for another reason than room.  How far
\* the session came is left out: it is only ended then.
GetDirEnumFails ==
    /\ by = "projfs" /\ session # None /\ reply = "more"
    /\ session.index < Len(session.entries)
    /\ Failed /\ UNCHANGED <<restarts, loaded>>

Call(room) ==
    /\ \/ (FuseReadDir(room) \/ NfsReadDir(room)) /\ UNCHANGED restarts
       \/ \E restart \in BOOLEAN, pattern \in Patterns : GetDirEnum(restart, pattern, room)
    /\ UNCHANGED <<treeVars, by, unread, must, may, changed>>

CallFails == GetDirEnumFails /\ UNCHANGED <<treeVars, by, unread, must, may, changed>>

Next == \/ \E name \in Names : Add(name) \/ RemoveEntry(name)
        \/ RemoveSnapshot
        \/ OpenDir \/ StartDirEnum \/ StartDirEnumUnread \/ Close
        \/ \E room \in Rooms : Call(room)
        \/ CallFails

Spec == Init /\ [][Next]_vars

\* A client goes on until it is told that it has all, with room for an entry
\* sooner or later, and then closes the directory.
Fairness ==
    /\ WF_vars(\E room \in Rooms \ {0} : Call(room))
    /\ WF_vars(reply \in {"all", "error"} /\ Close)

FairSpec == Spec /\ Fairness

-----------------------------------------------------------------------------

TypeOK ==
    /\ kind \in {"synthetic", "snapshot"} /\ dir \in Children /\ IsInjective(dir)
    /\ gone \in BOOLEAN /\ loaded \in BOOLEAN /\ unread \in BOOLEAN
    /\ fresh \in 1..(MaxIno + 1) /\ restarts \in 0..MaxRestarts
    /\ by \in {None, "fuse", "nfs", "projfs"} /\ cookie \in Nat
    /\ by = "projfs" <=> session # None
    /\ session # None => session.index \in 0..Len(session.entries)
    /\ reply \in {"none", "more", "all", "error"}
    /\ got \in Seq(Names) /\ must \subseteq may /\ may \subseteq Names

Wanted == IF session # None /\ session.search # None THEN session.search ELSE Names

\* Whoever lists a directory is given nothing that was never there, and when
\* told that this is all has been given what was there throughout and matches
\* the search: however the directory changes between the calls, and although
\* NFS is left with the id of an entry that is gone.  A snapshot that does not
\* open is an error to FUSE and NFS.  Two listings make no such promise: one
\* of FUSE once something was removed, as the positions it resumes at shift,
\* and a ProjFS session of a snapshot that did not open, which is told that
\* an empty list is all (projfs.rs:127).
Listed == INSTANCE Listing WITH
    there <- DOMAIN dir, want <- Wanted,
    told <- CASE by = None -> "nothing" [] reply = "all" -> "all" [] OTHER -> "more",
    firm <- (by = "fuse" => "removed" \notin changed) /\ ~ unread

ImplementsListing == Listed!Spec

\* Nothing is listed twice, unless an addition shifts the positions of FUSE,
\* or NFS starts again because the entry it was to resume after is gone; and
\* ProjFS gets its entries in order, as it requires (projfs/src/lib.rs:262).
ListedOnce ==
    /\ ~ IsInjective(got) => \/ by = "fuse" /\ "added" \in changed
                             \/ by = "nfs" /\ "removed" \in changed
    /\ by = "projfs" => \A i \in 2..Len(got) : got[i - 1] < got[i]

\* What an enumeration session gives is its directory at one moment, cut down
\* to the search expression of the scan's first call, across full buffers,
\* restarts and a removal of the snapshot.
ScanIsWhole ==
    (by = "projfs" /\ reply = "all") =>
        ToSet(got) = ToSet(session.entries) \cap session.search

\* Every listing comes to an end.
ListingEnds == by # None ~> by = None
=============================================================================
