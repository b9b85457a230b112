------------------------------ MODULE LruCache ------------------------------
(***************************************************************************)
(* The lru::LruCache that ChunkDir keeps its decoded chunks in (external   *)
(* crate): a bounded map ordered by use, most recent first, as a sequence  *)
(* of [key, value] entries with distinct keys.                             *)
(***************************************************************************)
EXTENDS Naturals, Sequences

Entry(k, v) == [key |-> k, value |-> v]

\* Some entry of s has key k, and the one that does.
Holds(s, k) == \E i \in 1..Len(s) : s[i].key = k
IndexOf(s, k) == CHOOSE i \in 1..Len(s) : s[i].key = k

Lookup(s, k) == s[IndexOf(s, k)].value

\* Entry e takes the front, and the entry at index i, if there is one, goes.
ToFront(s, e, i) ==
    [j \in 1..(IF i <= Len(s) THEN Len(s) ELSE Len(s) + 1) |->
        IF j = 1 THEN e ELSE IF j <= i THEN s[j - 1] ELSE s[j]]

\* get: a hit becomes the most recently used entry.
Promote(s, k) == ToFront(s, Entry(k, Lookup(s, k)), IndexOf(s, k))

\* put: an entry of the same key is replaced, else the least recently used
\* entry makes room once `cap` of them are held.
Put(s, k, v, cap) ==
    LET at == IF Holds(s, k) THEN IndexOf(s, k)
              ELSE IF Len(s) < cap THEN Len(s) + 1 ELSE Len(s)
    IN  ToFront(s, Entry(k, v), at)
=============================================================================
