--------------------------- MODULE ReadDirProofs ----------------------------
(***************************************************************************)
(* ReadDir for any names and searches: every back end's listing gives what *)
(* Listing promises, in any order of calls and of names that come and go.  *)
(***************************************************************************)
EXTENDS ReadDir, FiniteSetTheorems, SequenceTheorems, WellFoundedInduction, TLAPS

Increasing(s) == \A i, j \in 1..Len(s) : i < j => s[i] < s[j]

\* Every set of natural numbers that has an element has a least one.
LEMMA Smallest ==
    ASSUME NEW S \in SUBSET Nat, S # {}
    PROVE  \E n \in S : \A m \in S : n <= m
<1> DEFINE R == OpToRel(<, Nat)
<1>1. \A x, y \in Nat : x < y => <<x, y>> \in R
  BY DEF OpToRel
<1>2. IsWellFoundedOn(R, Nat)
  BY NatLessThanWellFounded
<1> HIDE DEF R
<1>3. PICK x \in S : \A y \in S : ~ (<<y, x>> \in R)
  BY <1>2, WFMin
<1>4. \A y \in S : ~ (y < x)
  BY <1>1, <1>3
<1> QED
  BY <1>4

\* A finite one has a greatest one too: no set is the smallest without.
LEMMA Greatest ==
    ASSUME NEW S \in SUBSET Nat, IsFiniteSet(S), S # {}
    PROVE  \E n \in S : \A m \in S : m <= n
<1> DEFINE Lacks(T) == T # {} /\ ~ \E n \in T : \A m \in T : m <= n
           Bad == {c \in Nat : \E T \in SUBSET Nat :
                                  IsFiniteSet(T) /\ Cardinality(T) = c /\ Lacks(T)}
<1>1. SUFFICES ASSUME Bad # {} PROVE FALSE
  BY FS_CardinalityType
<1>2. PICK c \in Bad : \A d \in Bad : c <= d
  <2> HIDE DEF Bad
  <2>1. Bad \in SUBSET Nat
    BY DEF Bad
  <2> QED
    BY <1>1, <2>1, Smallest
<1>3. PICK T \in SUBSET Nat : IsFiniteSet(T) /\ Cardinality(T) = c /\ Lacks(T)
  BY <1>2
<1>4. PICK x \in T : TRUE
  BY <1>3
<1> DEFINE U == T \ {x}
<1>5. IsFiniteSet(U) /\ Cardinality(U) = c - 1 /\ U \in SUBSET Nat
  BY <1>3, <1>4, FS_RemoveElement
<1>6. c \in Nat /\ c - 1 \in Nat /\ c - 1 \notin Bad
  <2>1. c \in Nat /\ Cardinality(U) \in Nat
    BY <1>2, <1>5, FS_CardinalityType
  <2> QED
    BY <1>2, <1>5, <2>1
<1>7. ~ Lacks(U)
  <2> HIDE DEF Lacks, U
  <2> QED
    BY <1>5, <1>6
<1>8. CASE U = {}
  <2>1. T = {x}
    BY <1>4, <1>8
  <2> QED
    BY <1>3, <2>1
<1>9. CASE U # {}
  <2>1. PICK n \in U : \A m \in U : m <= n
    BY <1>7, <1>9
  <2>2. \A m \in T : m \in Nat /\ (m = x \/ m \in U)
    BY <1>3
  <2>3. n \in T /\ x \in T /\ n \in Nat /\ x \in Nat
    BY <1>4, <2>1, <2>2
  <2>4. CASE x <= n
    BY <1>3, <2>1, <2>2, <2>3, <2>4
  <2>5. CASE n < x
    BY <1>3, <2>1, <2>2, <2>3, <2>5
  <2> QED
    BY <2>3, <2>4, <2>5
<1> QED
  BY <1>8, <1>9

\* s lists S in order.
ListsInOrder(s, S) ==
    /\ s \in [1..Cardinality(S) -> S]
    /\ \A i, j \in 1..Cardinality(S) : i < j => s[i] < s[j]

LEMMA SortedExists ==
    ASSUME NEW S \in SUBSET Nat, IsFiniteSet(S)
    PROVE  \E s : ListsInOrder(s, S)
<1> DEFINE Bad == {c \in Nat : \E T \in SUBSET Nat :
                       IsFiniteSet(T) /\ Cardinality(T) = c /\ ~ \E s : ListsInOrder(s, T)}
<1>1. SUFFICES ASSUME Bad # {} PROVE FALSE
  BY FS_CardinalityType
<1>2. PICK c \in Bad : \A d \in Bad : c <= d
  <2> HIDE DEF Bad
  <2>1. Bad \in SUBSET Nat
    BY DEF Bad
  <2> QED
    BY <1>1, <2>1, Smallest
<1>3. PICK T \in SUBSET Nat : IsFiniteSet(T) /\ Cardinality(T) = c /\ ~ \E s : ListsInOrder(s, T)
  BY <1>2
<1>4. T # {}
  <2> SUFFICES ASSUME T = {} PROVE FALSE
    OBVIOUS
  <2>1. Cardinality(T) = 0
    BY FS_EmptySet
  <2>2. ListsInOrder([i \in 1..0 |-> i], T)
    BY <2>1 DEF ListsInOrder
  <2> QED
    BY <1>3, <2>2
<1>5. PICK x \in T : \A m \in T : m <= x
  BY <1>3, <1>4, Greatest
<1> DEFINE U == T \ {x}
<1>6. IsFiniteSet(U) /\ Cardinality(U) = c - 1 /\ U \in SUBSET Nat
  BY <1>3, <1>5, FS_RemoveElement
<1>7. c \in Nat /\ c - 1 \in Nat /\ c - 1 \notin Bad
  <2>1. c \in Nat /\ Cardinality(U) \in Nat
    BY <1>2, <1>6, FS_CardinalityType
  <2> QED
    BY <1>2, <1>6, <2>1
<1>8. PICK s : ListsInOrder(s, U)
  <2> HIDE DEF U
  <2> QED
    BY <1>6, <1>7
<1>9. /\ s \in [1..(c - 1) -> U]
      /\ \A i, j \in 1..(c - 1) : i < j => s[i] < s[j]
  BY <1>6, <1>8 DEF ListsInOrder
<1> DEFINE t == [i \in 1..c |-> IF i < c THEN s[i] ELSE x]
<1>10. \A i \in 1..(c - 1) : t[i] = s[i] /\ s[i] \in T /\ s[i] < x
  <2>1. \A m \in U : m \in T /\ m # x /\ m <= x /\ m \in Nat /\ x \in Nat
    BY <1>3, <1>5
  <2>2. \A i \in 1..(c - 1) : i \in 1..c /\ i < c
    BY <1>7
  <2>3. \A i \in 1..(c - 1) : t[i] = s[i]
    BY <2>2
  <2> HIDE DEF t, U
  <2>4. \A i \in 1..(c - 1) : s[i] \in U
    BY <1>9
  <2> QED
    BY <2>1, <2>3, <2>4
<1>11. t[c] = x /\ c \in 1..c /\ \A i \in 1..c : i = c \/ i \in 1..(c - 1)
  BY <1>7
<1>12. t \in [1..c -> T]
  BY <1>5, <1>7, <1>10, <1>11
<1>13. ASSUME NEW i \in 1..c, NEW j \in 1..c, i < j PROVE t[i] < t[j]
  <2> HIDE DEF t, U
  <2> QED
    BY <1>7, <1>9, <1>10, <1>11, <1>13
<1> HIDE DEF t
<1>14. ListsInOrder(t, T)
  BY <1>3, <1>12, <1>13 DEF ListsInOrder
<1> QED
  BY <1>3, <1>14

\* Sorted(S) has every element of S once, in their order.
LEMMA SortedList ==
    ASSUME NEW S \in SUBSET Nat, IsFiniteSet(S)
    PROVE  LET s == Sorted(S)
           IN  /\ s \in Seq(S) /\ Len(s) = Cardinality(S) /\ Len(s) \in Nat
               /\ \A i \in 1..Len(s) : s[i] \in S
               /\ \A i, j \in 1..Len(s) : i < j => s[i] < s[j]
               /\ \A x \in S : \E i \in 1..Len(s) : s[i] = x
<1> DEFINE s == Sorted(S)
           n == Cardinality(S)
<1>1. n \in Nat
  BY FS_CardinalityType
<1>2. ListsInOrder(s, S)
  BY SortedExists DEF Sorted, ListsInOrder
<1>3. s \in [1..n -> S] /\ \A i, j \in 1..n : i < j => s[i] < s[j]
  BY <1>2 DEF ListsInOrder
<1> HIDE DEF s
<1>4. s \in Seq(S) /\ Len(s) = n
  <2> HIDE DEF n
  <2> QED
    BY <1>1, <1>3, LenProperties
<1>5. \A x \in S : \E i \in 1..n : s[i] = x
  <2>1. \A i, j \in 1..n : s[i] = s[j] => i = j
    <3> HIDE DEF n
    <3> SUFFICES ASSUME NEW i \in 1..n, NEW j \in 1..n, i # j PROVE s[i] # s[j]
      OBVIOUS
    <3>1. s[i] \in Nat /\ s[j] \in Nat
      BY <1>3
    <3>2. i < j \/ j < i
      BY <1>1
    <3> QED
      BY <1>3, <3>1, <3>2
  <2>2. s \in Injection(1..n, S)
    BY <1>3, <2>1 DEF Injection, IsInjective
  <2>3. IsFiniteSet(1..n) /\ Cardinality(1..n) = n
    BY <1>1, FS_Interval
  <2>4. s \in Surjection(1..n, S)
    BY <2>2, <2>3, FS_Injection
  <2> QED
    BY <2>4 DEF Surjection
<1> QED
  BY <1>1, <1>3, <1>4, <1>5 DEF s

\* A directory's names, listed.
LEMMA ListOf ==
    ASSUME NEW D \in SUBSET Names
    PROVE  LET s == Sorted(D)
           IN  /\ D \in SUBSET Nat /\ s \in Seq(D) /\ s \in Seq(Names)
               /\ Len(s) = Cardinality(D) /\ Len(s) \in Nat
               /\ \A i \in 1..Len(s) : s[i] \in D /\ s[i] \in Nat
               /\ Increasing(s)
               /\ \A x \in D : \E i \in 1..Len(s) : s[i] = x
<1> DEFINE s == Sorted(D)
<1>1. D \in SUBSET Nat /\ IsFiniteSet(D)
  BY ReadDirAssumption, FS_Subset
<1>2. /\ s \in Seq(D) /\ Len(s) = Cardinality(D) /\ Len(s) \in Nat
      /\ \A i \in 1..Len(s) : s[i] \in D
      /\ \A i, j \in 1..Len(s) : i < j => s[i] < s[j]
      /\ \A x \in D : \E i \in 1..Len(s) : s[i] = x
  BY <1>1, SortedList
<1> HIDE DEF s
<1>3. s \in Seq(Names)
  BY <1>2
<1> QED
  BY <1>1, <1>2, <1>3 DEF Increasing, s

LEMMA InOrder ==
    ASSUME NEW s, Len(s) \in Nat, \A i \in 1..Len(s) : s[i] \in Nat, Increasing(s),
           NEW i \in 1..Len(s), NEW j \in 1..Len(s)
    PROVE  /\ s[i] = s[j] => i = j
           /\ s[i] < s[j] => i < j
           /\ s[i] <= s[j] => i <= j
           /\ i <= j => s[i] <= s[j]
  BY DEF Increasing

\* With more names none moves to the front.
LEMMA Shifted ==
    ASSUME NEW T \in SUBSET Names, NEW S \in SUBSET T,
           NEW i \in 1..Len(Sorted(S)), NEW j \in 1..Len(Sorted(T)),
           Sorted(S)[i] = Sorted(T)[j]
    PROVE  i <= j
<1> DEFINE s == Sorted(S)
           t == Sorted(T)
           Bad == {k \in 1..Len(s) : k \notin 1..Len(t) \/ s[k] < t[k]}
<1>1. /\ Len(s) \in Nat /\ \A k \in 1..Len(s) : s[k] \in S /\ s[k] \in Nat
      /\ Increasing(s) /\ Len(s) = Cardinality(S)
  BY ListOf
<1>2. /\ Len(t) \in Nat /\ Len(t) = Cardinality(T)
      /\ \A k \in 1..Len(t) : t[k] \in T /\ t[k] \in Nat
      /\ Increasing(t) /\ \A x \in T : \E k \in 1..Len(t) : t[k] = x
  BY ListOf
<1>3. Len(s) <= Len(t)
  <2>1. IsFiniteSet(T)
    BY ReadDirAssumption, FS_Subset
  <2>2. Cardinality(S) <= Cardinality(T)
    BY <2>1, FS_Subset
  <2> HIDE DEF s, t
  <2> QED
    BY <1>1, <1>2, <2>2
<1> HIDE DEF s, t
<1>4. Bad = {}
  <2> SUFFICES ASSUME Bad # {} PROVE FALSE
    OBVIOUS
  <2>1. PICK k \in Bad : \A m \in Bad : k <= m
    <3>1. Bad \in SUBSET Nat
      BY <1>1
    <3> HIDE DEF Bad
    <3> QED
      BY <3>1, Smallest
  <2>2. k \in 1..Len(s) /\ k \in 1..Len(t) /\ s[k] < t[k]
    BY <1>1, <1>2, <1>3, <2>1
  <2>3. PICK m \in 1..Len(t) : t[m] = s[k]
    BY <1>1, <1>2, <2>2
  <2>4. m < k
    BY <1>2, <2>2, <2>3, InOrder
  <2>5. m \in 1..Len(s) /\ m \notin Bad
    BY <1>1, <1>2, <2>1, <2>2, <2>4
  <2>6. t[m] <= s[m]
    BY <1>1, <1>2, <2>5
  <2>7. s[m] < s[k]
    BY <1>1, <2>2, <2>4, <2>5 DEF Increasing
  <2> QED
    BY <1>1, <1>2, <2>2, <2>3, <2>5, <2>6, <2>7
<1>5. i \in 1..Len(t) /\ t[i] <= s[i] /\ s[i] = t[j]
  <2>1. i \in 1..Len(s) /\ i \notin Bad /\ s[i] = t[j]
    BY <1>4 DEF s, t
  <2> QED
    BY <1>1, <1>2, <2>1
<1> QED
  <2>1. j \in 1..Len(t)
    BY DEF t
  <2> QED
    BY <1>2, <1>5, <2>1, InOrder

-----------------------------------------------------------------------------
(* Pages of a list, and what is given with them. *)

LEMMA Page ==
    ASSUME NEW S, NEW s \in Seq(S), NEW lo \in Nat \ {0}, NEW hi \in Int, hi <= Len(s)
    PROVE  LET p == SubSeq(s, lo, hi)
           IN  /\ p \in Seq(S) /\ Len(p) = IF lo <= hi THEN hi - lo + 1 ELSE 0
               /\ \A k \in 1..Len(p) : lo + k - 1 \in lo..hi /\ p[k] = s[lo + k - 1]
               /\ ToSet(p) = {s[i] : i \in lo..hi}
               /\ Increasing(s) => Increasing(p)
<1> DEFINE p == SubSeq(s, lo, hi)
<1>1. Len(s) \in Nat /\ \A i \in lo..hi : i \in 1..Len(s) /\ s[i] \in S
  OBVIOUS
<1>2. /\ p \in Seq(S) /\ Len(p) = IF lo <= hi THEN hi - lo + 1 ELSE 0
      /\ \A k \in 1..(hi - lo + 1) : p[k] = s[lo + k - 1]
  BY <1>1, SubSeqProperties
<1> HIDE DEF p
<1>3. \A k \in 1..Len(p) : lo + k - 1 \in lo..hi /\ p[k] = s[lo + k - 1]
  BY <1>2
<1>4. ToSet(p) = {s[i] : i \in lo..hi}
  <2>1. DOMAIN p = 1..Len(p)
    BY <1>2
  <2>2. ASSUME NEW i \in lo..hi PROVE s[i] \in ToSet(p)
    <3>1. i - lo + 1 \in 1..Len(p) /\ lo + (i - lo + 1) - 1 = i
      BY <1>2
    <3>2. p[i - lo + 1] = s[i]
      BY <1>3, <3>1
    <3> QED
      BY <2>1, <3>1, <3>2 DEF ToSet
  <2>3. ASSUME NEW k \in 1..Len(p) PROVE p[k] \in {s[i] : i \in lo..hi}
    BY <1>3
  <2> QED
    BY <2>1, <2>2, <2>3 DEF ToSet
<1>5. ASSUME Increasing(s) PROVE Increasing(p)
  <2> SUFFICES ASSUME NEW k \in 1..Len(p), NEW m \in 1..Len(p), k < m PROVE p[k] < p[m]
    BY DEF Increasing
  <2>1. lo + k - 1 \in 1..Len(s) /\ lo + m - 1 \in 1..Len(s) /\ lo + k - 1 < lo + m - 1
    BY <1>1, <1>3
  <2> QED
    BY <1>3, <1>5, <2>1 DEF Increasing
<1> QED
  BY <1>2, <1>3, <1>4, <1>5 DEF p

LEMMA Joined ==
    ASSUME NEW S, NEW a \in Seq(S), NEW b \in Seq(S)
    PROVE  LET c == a \o b
           IN  /\ c \in Seq(S) /\ Len(c) = Len(a) + Len(b)
               /\ \A k \in 1..Len(a) : c[k] = a[k]
               /\ \A k \in (Len(a) + 1)..Len(c) : k - Len(a) \in 1..Len(b) /\ c[k] = b[k - Len(a)]
               /\ ToSet(c) = ToSet(a) \cup ToSet(b)
               /\ IsPrefix(a, c)
<1> DEFINE c == a \o b
<1>1. /\ c \in Seq(S) /\ Len(c) = Len(a) + Len(b) /\ Len(a) \in Nat /\ Len(b) \in Nat
      /\ \A k \in 1..(Len(a) + Len(b)) : c[k] = IF k <= Len(a) THEN a[k] ELSE b[k - Len(a)]
  BY ConcatProperties
<1> HIDE DEF c
<1>2. /\ \A k \in 1..Len(a) : k \in 1..Len(c) /\ c[k] = a[k]
      /\ \A k \in (Len(a) + 1)..Len(c) : k - Len(a) \in 1..Len(b) /\ c[k] = b[k - Len(a)]
  BY <1>1
<1>3. ToSet(c) = ToSet(a) \cup ToSet(b)
  <2>1. DOMAIN a = 1..Len(a) /\ DOMAIN b = 1..Len(b) /\ DOMAIN c = 1..Len(c)
    BY <1>1
  <2>2. ASSUME NEW k \in 1..Len(b) PROVE b[k] \in ToSet(c)
    <3>1. /\ k + Len(a) \in (Len(a) + 1)..Len(c) /\ k + Len(a) \in 1..Len(c)
          /\ k + Len(a) - Len(a) = k
      BY <1>1
    <3>2. c[k + Len(a)] = b[k]
      BY <1>2, <3>1
    <3> QED
      BY <2>1, <3>1, <3>2 DEF ToSet
  <2>3. ASSUME NEW k \in 1..Len(a) PROVE a[k] \in ToSet(c)
    BY <1>2, <2>1 DEF ToSet
  <2>4. ASSUME NEW k \in 1..Len(c) PROVE c[k] \in ToSet(a) \cup ToSet(b)
    <3>1. k \in 1..Len(a) \/ k \in (Len(a) + 1)..Len(c)
      BY <1>1
    <3> QED
      BY <1>2, <2>1, <3>1 DEF ToSet
  <2> QED
    BY <2>1, <2>2, <2>3, <2>4 DEF ToSet
<1>4. IsPrefix(a, c)
  <2>1. \A k \in 1..Len(a) : a[k] \in S /\ c[k] \in S
    BY <1>2
  <2>2. /\ SubSeq(a, 1, Len(a)) \in Seq(S) /\ SubSeq(c, 1, Len(a)) \in Seq(S)
        /\ Len(SubSeq(a, 1, Len(a))) = Len(a) /\ Len(SubSeq(c, 1, Len(a))) = Len(a)
        /\ \A k \in 1..Len(a) : SubSeq(a, 1, Len(a))[k] = a[k] /\ SubSeq(c, 1, Len(a))[k] = c[k]
    BY <1>1, <2>1, SubSeqProperties
  <2>3. SubSeq(a, 1, Len(a)) = SubSeq(c, 1, Len(a))
    BY <1>1, <1>2, <2>2, SeqEqual
  <2> QED
    BY <1>1, <2>3 DEF IsPrefix
<1> QED
  BY <1>1, <1>2, <1>3, <1>4 DEF c

\* Nothing is given twice, or out of order, with a page of other names, or of
\* later ones.
LEMMA JoinedApart ==
    ASSUME NEW S, NEW a \in Seq(S), NEW b \in Seq(S),
           IsInjective(a), IsInjective(b), ToSet(a) \cap ToSet(b) = {}
    PROVE  IsInjective(a \o b)
<1> DEFINE c == a \o b
<1>1. /\ Len(c) = Len(a) + Len(b) /\ Len(a) \in Nat /\ Len(b) \in Nat /\ c \in Seq(S)
      /\ \A k \in 1..Len(a) : c[k] = a[k]
      /\ \A k \in (Len(a) + 1)..Len(c) : k - Len(a) \in 1..Len(b) /\ c[k] = b[k - Len(a)]
  BY Joined
<1> HIDE DEF c
<1>2. /\ \A k \in 1..Len(a) : a[k] \in ToSet(a)
      /\ \A k \in 1..Len(b) : b[k] \in ToSet(b)
      /\ \A k, m \in 1..Len(a) : a[k] = a[m] => k = m
      /\ \A k, m \in 1..Len(b) : b[k] = b[m] => k = m
  BY DEF ToSet, IsInjective
<1>3. ASSUME NEW k \in 1..Len(c), NEW m \in 1..Len(c), k < m PROVE c[k] # c[m]
  <2>1. CASE m \in 1..Len(a)
    BY <1>1, <1>2, <1>3, <2>1
  <2>2. CASE k \in (Len(a) + 1)..Len(c) /\ m \in (Len(a) + 1)..Len(c)
    <3>1. k - Len(a) # m - Len(a)
      BY <1>1, <1>3
    <3> QED
      BY <1>1, <1>2, <2>2, <3>1
  <2>3. CASE k \in 1..Len(a) /\ m \in (Len(a) + 1)..Len(c)
    <3>1. c[k] \in ToSet(a) /\ c[m] \in ToSet(b)
      BY <1>1, <1>2, <2>3
    <3> QED
      BY <3>1
  <2> QED
    BY <1>1, <1>3, <2>1, <2>2, <2>3
<1>4. \A k, m \in 1..Len(c) : c[k] = c[m] => k = m
  <2> SUFFICES ASSUME NEW k \in 1..Len(c), NEW m \in 1..Len(c), k # m PROVE c[k] # c[m]
    OBVIOUS
  <2>1. k < m \/ m < k
    BY <1>1
  <2> QED
    BY <1>3, <2>1
<1> QED
  BY <1>1, <1>4 DEF IsInjective, c

LEMMA JoinedInOrder ==
    ASSUME NEW S \in SUBSET Nat, NEW a \in Seq(S), NEW b \in Seq(S),
           Increasing(a), Increasing(b), \A x \in ToSet(a), y \in ToSet(b) : x < y
    PROVE  Increasing(a \o b)
<1> DEFINE c == a \o b
<1>1. /\ Len(c) = Len(a) + Len(b) /\ Len(a) \in Nat /\ Len(b) \in Nat
      /\ \A k \in 1..Len(a) : c[k] = a[k]
      /\ \A k \in (Len(a) + 1)..Len(c) : k - Len(a) \in 1..Len(b) /\ c[k] = b[k - Len(a)]
  BY Joined
<1> HIDE DEF c
<1>2. /\ \A k \in 1..Len(a) : a[k] \in ToSet(a)
      /\ \A k \in 1..Len(b) : b[k] \in ToSet(b)
  BY DEF ToSet
<1>3. ASSUME NEW k \in 1..Len(c), NEW m \in 1..Len(c), k < m PROVE c[k] < c[m]
  <2>1. CASE m \in 1..Len(a)
    <3>1. k \in 1..Len(a)
      BY <1>1, <1>3, <2>1
    <3> QED
      BY <1>1, <1>3, <2>1, <3>1 DEF Increasing
  <2>2. CASE k \in (Len(a) + 1)..Len(c) /\ m \in (Len(a) + 1)..Len(c)
    <3>1. k - Len(a) < m - Len(a) /\ k - Len(a) \in 1..Len(b) /\ m - Len(a) \in 1..Len(b)
      BY <1>1, <1>3, <2>2
    <3> QED
      BY <1>1, <2>2, <3>1 DEF Increasing
  <2>3. CASE k \in 1..Len(a) /\ m \in (Len(a) + 1)..Len(c)
    <3>1. c[k] \in ToSet(a) /\ c[m] \in ToSet(b)
      BY <1>1, <1>2, <2>3
    <3> QED
      BY <3>1
  <2> QED
    BY <1>1, <1>3, <2>1, <2>2, <2>3
<1> QED
  BY <1>3 DEF Increasing, c

LEMMA OrderIsInjective ==
    ASSUME NEW S \in SUBSET Nat, NEW s \in Seq(S), Increasing(s)
    PROVE  IsInjective(s)
<1>1. Len(s) \in Nat /\ DOMAIN s = 1..Len(s) /\ \A i \in 1..Len(s) : s[i] \in S
  OBVIOUS
<1>2. \A i \in 1..Len(s) : s[i] \in Nat
  BY <1>1
<1> QED
  BY <1>1, <1>2, InOrder DEF IsInjective

\* What Select gives of a sorted list: the matches, in order.
LEMMA Selected ==
    ASSUME NEW X \in SUBSET Nat, NEW s \in Seq(X), Increasing(s), NEW S
    PROVE  LET p == Select(s, S)
           IN  p \in Seq(X) /\ Increasing(p) /\ ToSet(p) = ToSet(s) \cap S
<1> DEFINE hits == {i \in DOMAIN s : s[i] \in S}
           at == Sorted(hits)
           n == Cardinality(hits)
           p == Select(s, S)
<1>1. Len(s) \in Nat /\ DOMAIN s = 1..Len(s) /\ \A i \in 1..Len(s) : s[i] \in X
  OBVIOUS
<1>2. hits \in SUBSET Nat /\ IsFiniteSet(hits)
  <2>1. hits \in SUBSET (1..Len(s)) /\ hits \in SUBSET Nat
    BY <1>1
  <2>2. IsFiniteSet(1..Len(s))
    BY <1>1, FS_Interval
  <2> HIDE DEF hits
  <2> QED
    BY <2>1, <2>2, FS_Subset
<1>3. p = [k \in 1..n |-> s[at[k]]]
  BY DEF Select
<1> HIDE DEF p
<1>4. /\ Len(at) = n /\ n \in Nat
      /\ \A k \in 1..n : at[k] \in hits
      /\ \A k, m \in 1..n : k < m => at[k] < at[m]
      /\ \A i \in hits : \E k \in 1..n : at[k] = i
  <2> HIDE DEF hits
  <2> QED
    BY <1>2, SortedList
<1> HIDE DEF at, n
<1>5. \A k \in 1..n : at[k] \in 1..Len(s) /\ s[at[k]] \in X /\ s[at[k]] \in S
  BY <1>1, <1>4
<1>6. p \in Seq(X) /\ Len(p) = n /\ DOMAIN p = 1..n /\ \A k \in 1..n : p[k] = s[at[k]]
  <2>1. p \in [1..n -> X]
    BY <1>3, <1>5
  <2> QED
    BY <1>3, <1>4, <2>1, LenProperties
<1>7. Increasing(p)
  <2> SUFFICES ASSUME NEW k \in 1..n, NEW m \in 1..n, k < m PROVE p[k] < p[m]
    BY <1>6 DEF Increasing
  <2>1. at[k] < at[m] /\ at[k] \in 1..Len(s) /\ at[m] \in 1..Len(s)
    BY <1>4, <1>5
  <2> QED
    BY <1>6, <2>1 DEF Increasing
<1>8. ToSet(p) = ToSet(s) \cap S
  <2>1. ASSUME NEW x \in ToSet(p) PROVE x \in ToSet(s) \cap S
    <3>1. PICK k \in 1..n : x = p[k]
      BY <1>6 DEF ToSet
    <3> QED
      BY <1>1, <1>5, <1>6, <3>1 DEF ToSet
  <2>2. ASSUME NEW x \in ToSet(s), x \in S PROVE x \in ToSet(p)
    <3>1. PICK i \in 1..Len(s) : x = s[i]
      BY <1>1 DEF ToSet
    <3>2. i \in hits
      BY <1>1, <2>2, <3>1
    <3>3. PICK k \in 1..n : at[k] = i
      BY <1>4, <3>2
    <3> QED
      BY <1>6, <3>1, <3>3 DEF ToSet
  <2> QED
    BY <2>1, <2>2
<1> QED
  BY <1>6, <1>7, <1>8 DEF p

LEMMA OfTwo ==
    ASSUME NEW a \in Int, NEW b \in Int
    PROVE  /\ Min({a, b}) = IF a <= b THEN a ELSE b
           /\ Max({a, b}) = IF a >= b THEN a ELSE b
  BY DEF Min, Max

\* A session's next index is at the end, or before a match that has no room.
LEMMA FilledStops ==
    ASSUME NEW s, s.index \in Nat, Len(s.entries) \in Nat, s.index <= Len(s.entries),
           NEW room \in Nat
    PROVE  Filled(s, room) \in s.index..Len(s.entries)
<1> DEFINE hits == {i \in s.index + 1 .. Len(s.entries) : s.entries[i] \in s.search}
           Over == {i \in hits : Cardinality({j \in hits : j <= i}) > room}
<1>1. CASE Cardinality(hits) <= room
  BY <1>1 DEF Filled
<1>2. CASE ~ (Cardinality(hits) <= room)
  <2>1. Filled(s, room) = Min(Over) - 1
    BY <1>2 DEF Filled
  <2>2. hits \in SUBSET Nat /\ hits \in SUBSET (s.index + 1 .. Len(s.entries))
    OBVIOUS
  <2>3. IsFiniteSet(hits) /\ Cardinality(hits) \in Nat
    <3>1. IsFiniteSet(s.index + 1 .. Len(s.entries))
      BY FS_Interval
    <3> HIDE DEF hits
    <3> QED
      BY <2>2, <3>1, FS_Subset, FS_CardinalityType
  <2>4. Cardinality(hits) > room /\ hits # {}
    <3> HIDE DEF hits
    <3> QED
      BY <1>2, <2>3, FS_EmptySet
  <2>5. Over # {}
    <3>1. PICK g \in hits : \A j \in hits : j <= g
      <4> HIDE DEF hits
      <4> QED
        BY <2>2, <2>3, <2>4, Greatest
    <3>2. {j \in hits : j <= g} = hits
      BY <3>1
    <3> HIDE DEF hits
    <3> QED
      BY <2>4, <3>1, <3>2
  <2>6. Min(Over) \in Over
    <3>1. Over \in SUBSET Nat
      OBVIOUS
    <3> HIDE DEF Over
    <3> QED
      BY <2>5, <3>1, Smallest DEF Min
  <2>7. Min(Over) \in s.index + 1 .. Len(s.entries)
    BY <2>6
  <2> HIDE DEF Over
  <2> QED
    BY <2>1, <2>7
<1> QED
  BY <1>1, <1>2

-----------------------------------------------------------------------------
(* The inductive invariant. *)

\* Names have ids that were given out, each its own.
DirInv ==
    /\ DOMAIN dir \subseteq Names /\ dir \in [DOMAIN dir -> Nat] /\ fresh \in Nat \ {0}
    /\ \A n \in DOMAIN dir : 0 < dir[n] /\ dir[n] < fresh
    /\ IsInjective(dir)
    /\ kind \in {"synthetic", "snapshot"}

\* No listing, and one under way.
ListInv ==
    /\ IF by = None THEN reply = "none" /\ cookie = 0 /\ got = << >> /\ changed = {}
       ELSE by \in {"fuse", "nfs", "projfs"} /\ reply \in {"more", "all", "error"}
    /\ session # None <=> by = "projfs"
    /\ cookie \in Nat
    /\ got \in Seq(Names) /\ ToSet(got) \subseteq may
    /\ must \subseteq DOMAIN dir /\ may \subseteq Names
    /\ by # None => DOMAIN dir \subseteq may
    /\ by = None => must = {} /\ may = {}
    /\ unread \in BOOLEAN /\ (unread => by = "projfs")

\* Before the position of a FUSE listing nothing is missed unless something
\* was removed, and behind it nothing was given yet unless something was added.
FuseInv ==
    by = "fuse" =>
        /\ "removed" \notin changed =>
              \A i \in 1..Len(Entries) :
                  i <= cookie - 2 /\ Entries[i] \in must => Entries[i] \in ToSet(got)
        /\ "added" \notin changed =>
              /\ IsInjective(got)
              /\ \A i \in 1..Len(Entries) : i > cookie - 2 => Entries[i] \notin ToSet(got)

\* Up to the entry of the cookie of an NFS listing nothing is missed, and
\* unless something was removed nothing behind it was given yet.
NfsInv ==
    by = "nfs" =>
        /\ cookie < fresh
        /\ \A n \in DOMAIN dir : dir[n] = cookie =>
              \A x \in must : x <= n => x \in ToSet(got)
        /\ "removed" \notin changed =>
              /\ Increasing(got)
              /\ \/ cookie = 0 /\ got = << >>
                 \/ \E n \in DOMAIN dir : dir[n] = cookie /\ \A x \in ToSet(got) : x <= n

\* A session has the directory as it was, and has given the matches among the
\* entries before its index.
ProjInv ==
    by = "projfs" =>
        /\ session \in Sessions
        /\ Increasing(session.entries) /\ session.index <= Len(session.entries)
        /\ ~ unread => must \subseteq ToSet(session.entries)
        /\ ToSet(session.entries) \subseteq may
        /\ Increasing(got)
        /\ IF session.search = None THEN session.index = 0 /\ got = << >>
           ELSE ToSet(got) = {session.entries[i] : i \in 1..session.index} \cap session.search
        /\ reply = "all" => session.search # None /\ session.index = Len(session.entries)

ReadDirInv == DirInv /\ ListInv /\ FuseInv /\ NfsInv /\ ProjInv

\* Where an NFS listing goes on.
LEMMA SkipIs ==
    ASSUME DirInv
    PROVE  /\ Skip(Entries) \in 0..Len(Entries)
           /\ IF Skip(Entries) = 0 THEN \A n \in DOMAIN dir : dir[n] # cookie
              ELSE /\ Entries[Skip(Entries)] \in DOMAIN dir
                   /\ dir[Entries[Skip(Entries)]] = cookie
<1> DEFINE e == Entries
           At == {i \in DOMAIN e : dir[e[i]] = cookie}
<1>1. /\ e \in Seq(Names) /\ Len(e) \in Nat /\ DOMAIN e = 1..Len(e) /\ Increasing(e)
      /\ \A i \in 1..Len(e) : e[i] \in DOMAIN dir /\ e[i] \in Nat
      /\ \A x \in DOMAIN dir : \E i \in 1..Len(e) : e[i] = x
  <2>1. DOMAIN dir \in SUBSET Names
    BY DEF DirInv
  <2>2. e = Sorted(DOMAIN dir)
    BY DEF Entries
  <2> HIDE DEF e
  <2>3. /\ e \in Seq(Names) /\ Len(e) \in Nat /\ Increasing(e)
        /\ \A i \in 1..Len(e) : e[i] \in DOMAIN dir /\ e[i] \in Nat
        /\ \A x \in DOMAIN dir : \E i \in 1..Len(e) : e[i] = x
    BY <2>1, <2>2, ListOf
  <2> QED
    BY <2>3
<1>2. Skip(e) = Max(At \cup {0})
  BY DEF Skip
<1> HIDE DEF e
<1>3. CASE At = {}
  <2>1. Skip(e) = 0
    <3>1. At \cup {0} = {0, 0}
      BY <1>3
    <3> HIDE DEF At
    <3> QED
      BY <1>2, <3>1, OfTwo
  <2> QED
    BY <1>1, <1>3, <2>1 DEF e
<1>4. CASE At # {}
  <2>1. PICK i \in At : TRUE
    BY <1>4
  <2>2. i \in 1..Len(e) /\ dir[e[i]] = cookie
    BY <1>1, <2>1
  <2>3. \A j \in At : j = i
    <3> SUFFICES ASSUME NEW j \in At PROVE j = i
      OBVIOUS
    <3>1. j \in 1..Len(e) /\ dir[e[j]] = cookie /\ e[i] = e[j]
      BY <1>1, <2>2 DEF DirInv, IsInjective
    <3> QED
      BY <1>1, <2>2, <3>1, InOrder
  <2> HIDE DEF At
  <2>4. At \cup {0} = {i, 0}
    BY <2>1, <2>3
  <2>5. Skip(e) = i
    <3>1. i \in Int /\ 0 \in Int /\ i >= 0
      BY <1>1, <2>2
    <3>2. Max({i, 0}) = i
      BY <3>1, OfTwo
    <3> QED
      BY <1>2, <2>4, <3>2
  <2> QED
    BY <1>1, <2>2, <2>5 DEF e
<1> QED
  BY <1>3, <1>4

-----------------------------------------------------------------------------
(* It holds at first, and whatever becomes of the directory. *)

LEMMA NothingGiven ==
    << >> \in Seq(Names) /\ ToSet(<< >>) = {} /\ Increasing(<< >>) /\ IsInjective(<< >>)
  BY DEF ToSet, Increasing, IsInjective

LEMMA InitInv == Init => ReadDirInv
<1> SUFFICES ASSUME Init PROVE ReadDirInv
  OBVIOUS
<1>1. PICK S \in SUBSET Names : /\ dir \in {d \in [S -> 1..Cardinality(S)] : IsInjective(d)}
                               /\ fresh = Cardinality(S) + 1
  BY DEF Init
<1>2. Cardinality(S) \in Nat
  BY ReadDirAssumption, FS_Subset, FS_CardinalityType
<1>3. dir \in [S -> 1..Cardinality(S)] /\ IsInjective(dir) /\ DOMAIN dir = S
  BY <1>1
<1>4. DirInv
  <2>1. \A n \in S : dir[n] \in Nat /\ 0 < dir[n] /\ dir[n] < fresh
    BY <1>1, <1>2, <1>3
  <2>2. dir \in [S -> Nat]
    BY <1>3, <2>1
  <2> QED
    BY <1>1, <1>2, <1>3, <2>1, <2>2 DEF Init, DirInv
<1>5. ListInv
  BY <1>3, NothingGiven, ReadDirAssumption DEF Init, ListInv
<1>6. by = None /\ None \notin {"fuse", "nfs", "projfs"}
  BY ReadDirAssumption DEF Init
<1> QED
  BY <1>4, <1>5, <1>6 DEF ReadDirInv, FuseInv, NfsInv, ProjInv

\* Names come, or go, under a listing.
LEMMA DirChanged ==
    ASSUME ReadDirInv, DirInv', NEW what \in {"added", "removed"}, Noted(what),
           UNCHANGED clientVars, fresh <= fresh',
           \A n \in DOMAIN dir' :
               IF n \in DOMAIN dir THEN dir'[n] = dir[n] ELSE dir'[n] >= fresh,
           what = "added" => DOMAIN dir \subseteq DOMAIN dir',
           what = "removed" => DOMAIN dir' \subseteq DOMAIN dir
    PROVE  ReadDirInv'
<1> DEFINE D == DOMAIN dir
           E == DOMAIN dir'
<1>1. /\ by' = by /\ cookie' = cookie /\ session' = session /\ reply' = reply /\ got' = got
      /\ unread' = unread /\ must' \subseteq must /\ may \subseteq may'
      /\ IF by = None THEN must' = must /\ may' = may /\ changed' = changed
         ELSE must' = must \cap E /\ may' = may \cup E /\ changed' = changed \cup {what}
  BY DEF Noted, clientVars
<1>2. D \in SUBSET Names /\ E \in SUBSET Names
  BY DEF ReadDirInv, DirInv
<1>3. Entries = Sorted(D) /\ Entries' = Sorted(E)
  BY DEF Entries
<1>4. /\ Len(Sorted(D)) \in Nat /\ \A x \in D : \E i \in 1..Len(Sorted(D)) : Sorted(D)[i] = x
      /\ Len(Sorted(E)) \in Nat /\ \A i \in 1..Len(Sorted(E)) : Sorted(E)[i] \in E
  BY <1>2, ListOf
<1>5. ListInv'
  <2>1. ListInv
    BY DEF ReadDirInv
  <2>2. must' \subseteq E
    BY <1>1, <2>1, ReadDirAssumption DEF ListInv
  <2> QED
    BY <1>1, <1>2, <2>1, <2>2 DEF ListInv
<1>6. FuseInv'
  <2> SUFFICES ASSUME by = "fuse" PROVE FuseInv'
    BY <1>1 DEF FuseInv
  <2>1. FuseInv /\ changed' = changed \cup {what} /\ cookie \in Nat
    BY <1>1, ReadDirAssumption DEF ReadDirInv, ListInv
  <2>2. ASSUME "removed" \notin changed', NEW i \in 1..Len(Entries'), i <= cookie - 2,
               Entries'[i] \in must'
        PROVE  Entries'[i] \in ToSet(got)
    <3>1. what = "added" /\ "removed" \notin changed /\ D \in SUBSET E
      BY <2>1, <2>2
    <3>2. Sorted(E)[i] \in must /\ Sorted(E)[i] \in D
      BY <1>1, <1>3, <2>2 DEF ReadDirInv, ListInv
    <3>3. PICK j \in 1..Len(Sorted(D)) : Sorted(D)[j] = Sorted(E)[i]
      BY <1>4, <3>2
    <3>4. j <= i
      BY <1>2, <1>3, <2>2, <3>1, <3>3, Shifted
    <3>5. j <= cookie - 2
      BY <1>4, <1>3, <2>1, <2>2, <3>4
    <3> QED
      BY <1>3, <2>1, <3>1, <3>2, <3>3, <3>5, by = "fuse" DEF FuseInv
  <2>3. ASSUME "added" \notin changed'
        PROVE  /\ IsInjective(got)
               /\ \A i \in 1..Len(Entries') : i > cookie - 2 => Entries'[i] \notin ToSet(got)
    <3>1. what = "removed" /\ "added" \notin changed /\ E \in SUBSET D
      BY <2>1, <2>3
    <3>2. ASSUME NEW i \in 1..Len(Entries'), i > cookie - 2 PROVE Entries'[i] \notin ToSet(got)
      <4>1. PICK j \in 1..Len(Sorted(D)) : Sorted(D)[j] = Sorted(E)[i]
        BY <1>3, <1>4, <3>1, <3>2
      <4>2. i <= j
        BY <1>2, <1>3, <3>1, <3>2, <4>1, Shifted
      <4>3. j > cookie - 2
        BY <1>4, <1>3, <2>1, <3>2, <4>2
      <4> QED
        BY <1>3, <2>1, <3>1, <4>1, <4>3, by = "fuse" DEF FuseInv
    <3> QED
      BY <2>1, <3>1, <3>2, by = "fuse" DEF FuseInv
  <2> QED
    BY <1>1, <2>2, <2>3 DEF FuseInv
<1>7. NfsInv'
  <2> SUFFICES ASSUME by = "nfs" PROVE NfsInv'
    BY <1>1 DEF NfsInv
  <2>1. NfsInv /\ changed' = changed \cup {what} /\ cookie \in Nat /\ cookie < fresh
    BY <1>1, ReadDirAssumption DEF ReadDirInv, ListInv, NfsInv
  <2>2. fresh \in Nat /\ fresh' \in Nat
    BY DEF ReadDirInv, DirInv
  <2>3. cookie' < fresh'
    BY <1>1, <2>1, <2>2
  <2>4. ASSUME NEW n \in E, dir'[n] = cookie PROVE n \in D /\ dir[n] = cookie
    <3>1. dir'[n] \in Nat
      BY DEF DirInv
    <3> QED
      BY <2>1, <2>2, <2>4, <3>1
  <2>5. ASSUME "removed" \notin changed'
        PROVE  /\ Increasing(got)
               /\ \/ cookie = 0 /\ got = << >>
                  \/ \E n \in E : dir'[n] = cookie /\ \A x \in ToSet(got) : x <= n
    <3>1. what = "added" /\ "removed" \notin changed /\ D \in SUBSET E
      BY <2>1, <2>5
    <3> QED
      BY <2>1, <3>1, by = "nfs" DEF NfsInv
  <2> QED
    BY <1>1, <2>1, <2>3, <2>4, <2>5 DEF NfsInv
<1>8. ProjInv'
  BY <1>1 DEF ReadDirInv, ProjInv
<1> QED
  BY <1>5, <1>6, <1>7, <1>8 DEF ReadDirInv

\* Additions and removals, and what they are to Listing.
LEMMA DirSteps ==
    ASSUME ReadDirInv,
           \/ \E name \in Names : Add(name) \/ RemoveEntry(name)
           \/ RemoveSnapshot
    PROVE  ReadDirInv' /\ UNCHANGED clientVars /\ \E what \in {"added", "removed"} : Noted(what)
<1>1. DirInv
  BY DEF ReadDirInv
<1>2. ASSUME NEW name \in Names, Add(name)
      PROVE  ReadDirInv' /\ UNCHANGED clientVars /\ Noted("added")
  <2>1. /\ DOMAIN dir' = DOMAIN dir \cup {name} /\ name \notin DOMAIN dir /\ dir'[name] = fresh
        /\ \A n \in DOMAIN dir : dir'[n] = dir[n]
        /\ fresh' = fresh + 1 /\ kind' = kind
    BY <1>2 DEF Add, Fresh
  <2>2. dir' \in [DOMAIN dir' -> Nat]
    <3>1. dir' = [n \in DOMAIN dir \cup {name} |-> IF n = name THEN fresh ELSE dir[n]]
      BY <1>2 DEF Add, Fresh
    <3>2. fresh \in Nat /\ \A n \in DOMAIN dir : dir[n] \in Nat
      BY <1>1 DEF DirInv
    <3>3. dir' \in [DOMAIN dir \cup {name} -> Nat]
      BY <3>1, <3>2
    <3> QED
      BY <2>1, <3>3
  <2>3. DirInv'
    <3>1. DOMAIN dir' \subseteq Names
      BY <1>1, <2>1 DEF DirInv
    <3>2. fresh' \in Nat \ {0} /\ \A n \in DOMAIN dir' : 0 < dir'[n] /\ dir'[n] < fresh'
      <4>1. /\ fresh \in Nat \ {0}
            /\ \A n \in DOMAIN dir : dir[n] \in Nat /\ 0 < dir[n] /\ dir[n] < fresh
        BY <1>1 DEF DirInv
      <4>2. \A n \in DOMAIN dir' : n = name \/ n \in DOMAIN dir
        BY <2>1
      <4> QED
        BY <2>1, <4>1, <4>2
    <3>3. IsInjective(dir')
      <4>1. \A m, n \in DOMAIN dir : dir[m] = dir[n] => m = n
        BY <1>1 DEF DirInv, IsInjective
      <4>2. \A m \in DOMAIN dir : dir[m] # fresh
        BY <1>1 DEF DirInv
      <4>3. ASSUME NEW m \in DOMAIN dir', NEW n \in DOMAIN dir', dir'[m] = dir'[n] PROVE m = n
        BY <2>1, <4>1, <4>2, <4>3
      <4> QED
        BY <4>3 DEF IsInjective
    <3> QED
      BY <1>1, <2>1, <2>2, <3>1, <3>2, <3>3 DEF DirInv
  <2>4. fresh <= fresh' /\ \A n \in DOMAIN dir' :
            IF n \in DOMAIN dir THEN dir'[n] = dir[n] ELSE dir'[n] >= fresh
    BY <1>1, <2>1 DEF DirInv
  <2>5. Noted("added") /\ UNCHANGED clientVars
    BY <1>2 DEF Add
  <2> QED
    BY <2>1, <2>3, <2>4, <2>5, DirChanged
<1>3. ASSUME NEW S \in SUBSET DOMAIN dir, dir' = Restrict(dir, S), kind' = kind, fresh' = fresh,
             Noted("removed"), UNCHANGED clientVars
      PROVE  ReadDirInv'
  <2>1. dir' = [n \in S |-> dir[n]] /\ DOMAIN dir' = S /\ \A n \in S : dir'[n] = dir[n]
    BY <1>3 DEF Restrict
  <2>2. DirInv'
    BY <1>1, <1>3, <2>1 DEF DirInv, IsInjective
  <2>3. fresh <= fresh'
    BY <1>1, <1>3 DEF DirInv
  <2> QED
    BY <1>3, <2>1, <2>2, <2>3, DirChanged
<1>4. ASSUME NEW name \in Names, RemoveEntry(name)
      PROVE  ReadDirInv' /\ UNCHANGED clientVars /\ Noted("removed")
  BY <1>3, <1>4 DEF RemoveEntry
<1>5. ASSUME RemoveSnapshot PROVE ReadDirInv' /\ UNCHANGED clientVars /\ Noted("removed")
  BY <1>3, <1>5 DEF RemoveSnapshot
<1> QED
  BY <1>2, <1>4, <1>5

\* A client begins a listing, or closes it.
LEMMA BeginSteps ==
    ASSUME ReadDirInv, OpenDir \/ StartDirEnum \/ StartDirEnumUnread
    PROVE  ReadDirInv' /\ by = None /\ by' \in {"fuse", "nfs", "projfs"} /\ reply' = "more"
           /\ UNCHANGED treeVars /\ must' = DOMAIN dir /\ may' = DOMAIN dir
           /\ got' = << >> /\ changed' = {} /\ Wanted' = Names
<1>1. /\ by = None /\ reply' = "more" /\ UNCHANGED <<treeVars, cookie, got, changed>>
      /\ must' = DOMAIN dir /\ may' = DOMAIN dir
      /\ \/ by' \in {"fuse", "nfs"} /\ session' = session /\ unread' = unread
         \/ /\ by' = "projfs" /\ unread' = FALSE
            /\ session' = [entries |-> Entries, index |-> 0, search |-> None]
         \/ /\ by' = "projfs" /\ unread' = TRUE
            /\ session' = [entries |-> << >>, index |-> 0, search |-> None]
  BY DEF OpenDir, StartDirEnum, StartDirEnumUnread, Begin, treeVars
<1>2. /\ cookie = 0 /\ got = << >> /\ changed = {} /\ session = None /\ unread = FALSE
      /\ None \notin {"fuse", "nfs", "projfs"} /\ None \notin Sessions
  BY <1>1, ReadDirAssumption DEF ReadDirInv, ListInv
<1>3. DirInv /\ DirInv' /\ Entries' = Entries
  BY <1>1 DEF ReadDirInv, DirInv, treeVars, Entries
<1>4. DOMAIN dir \in SUBSET Names /\ dir' = dir /\ fresh' = fresh
  BY <1>1, <1>3 DEF DirInv, treeVars
<1> DEFINE e == Sorted(DOMAIN dir)
<1>5. /\ e \in Seq(DOMAIN dir) /\ e \in Seq(Names) /\ Len(e) \in Nat /\ Increasing(e)
      /\ \A i \in 1..Len(e) : e[i] \in DOMAIN dir
      /\ \A x \in DOMAIN dir : \E i \in 1..Len(e) : e[i] = x
  BY <1>4, ListOf
<1>6. e = Entries
  BY DEF Entries
<1> HIDE DEF e
<1>7. ToSet(e) = DOMAIN dir
  <2>1. DOMAIN e = 1..Len(e)
    BY <1>5
  <2> QED
    BY <1>5, <2>1 DEF ToSet
<1> DEFINE s == session'.entries
<1>8. ASSUME by' = "projfs"
      PROVE  /\ session' = [entries |-> s, index |-> 0, search |-> None]
             /\ s \in Seq(Names) /\ Increasing(s) /\ ToSet(s) \subseteq DOMAIN dir
             /\ ~ unread' => ToSet(s) = DOMAIN dir
             /\ session' \in Sessions /\ session' # None
  <2>1. CASE unread' = FALSE /\ session' = [entries |-> e, index |-> 0, search |-> None]
    <3>1. s = e
      BY <2>1
    <3> HIDE DEF s
    <3> QED
      BY <1>2, <1>5, <1>7, <2>1, <3>1 DEF Sessions
  <2>2. CASE unread' = TRUE /\ session' = [entries |-> << >>, index |-> 0, search |-> None]
    <3>1. s = << >>
      BY <2>2
    <3>2. session' \in Sessions
      <4>1. << >> \in Seq(Names)
        BY NothingGiven
      <4> QED
        BY <2>2, <4>1 DEF Sessions
    <3> HIDE DEF s
    <3> QED
      BY <1>2, <2>2, <3>1, <3>2, NothingGiven
  <2> QED
    BY <1>1, <1>6, <1>8, <2>1, <2>2
<1> HIDE DEF s
<1>9. ListInv'
  BY <1>1, <1>2, <1>4, <1>8, NothingGiven DEF ListInv
<1>10. FuseInv' /\ NfsInv'
  <2>1. cookie < fresh
    BY <1>2, <1>3 DEF DirInv
  <2>2. cookie' = 0 /\ got' = << >> /\ changed' = {} /\ IsInjective(got') /\ Increasing(got')
        /\ ToSet(got') = {}
    BY <1>1, <1>2, NothingGiven
  <2>3. FuseInv'
    <3>1. \A i \in 1..Len(Entries') : ~ i <= cookie' - 2
      BY <2>2
    <3> QED
      BY <2>2, <3>1 DEF FuseInv
  <2>4. NfsInv'
    <3>1. \A n \in DOMAIN dir' : dir'[n] # cookie'
      BY <1>3, <2>2 DEF DirInv
    <3> QED
      BY <1>1, <1>4, <2>1, <2>2, <3>1 DEF NfsInv
  <2> QED
    BY <2>3, <2>4
<1>11. ProjInv'
  <2> SUFFICES ASSUME by' = "projfs" PROVE ProjInv'
    BY DEF ProjInv
  <2>1. session'.entries = s /\ session'.index = 0 /\ session'.search = None
    BY <1>8 DEF s
  <2>2. Len(s) \in Nat
    BY <1>8
  <2> QED
    BY <1>1, <1>2, <1>8, <2>1, <2>2, NothingGiven DEF ProjInv
<1>12. Wanted' = Names
  BY <1>1, <1>2, <1>8 DEF Wanted
<1> QED
  BY <1>1, <1>2, <1>3, <1>9, <1>10, <1>11, <1>12 DEF ReadDirInv

LEMMA CloseStep ==
    ASSUME ReadDirInv, Close
    PROVE  ReadDirInv' /\ by # None /\ by' = None /\ dir' = dir /\ Wanted' = Names
           /\ must' = {} /\ may' = {} /\ got' = << >>
<1>1. /\ by # None /\ by' = None /\ cookie' = 0 /\ session' = None
      /\ reply' = "none" /\ got' = << >>
      /\ must' = {} /\ may' = {} /\ changed' = {} /\ unread' = FALSE
      /\ UNCHANGED treeVars /\ None \notin {"fuse", "nfs", "projfs"}
  BY ReadDirAssumption DEF Close
<1>2. DirInv'
  BY <1>1 DEF ReadDirInv, DirInv, treeVars
<1>3. ListInv'
  BY <1>1, NothingGiven DEF ListInv
<1> QED
  BY <1>1, <1>2, <1>3 DEF ReadDirInv, FuseInv, NfsInv, ProjInv, Wanted, treeVars

-----------------------------------------------------------------------------
(* Calls. *)

LEMMA EntriesAre ==
    ASSUME DirInv
    PROVE  LET e == Entries
           IN  /\ e \in Seq(Names) /\ Len(e) \in Nat /\ Len(e) = Cardinality(DOMAIN dir)
               /\ Increasing(e)
               /\ \A i \in 1..Len(e) : e[i] \in DOMAIN dir /\ e[i] \in Nat /\ e[i] \in Names
               /\ \A x \in DOMAIN dir : \E i \in 1..Len(e) : e[i] = x
<1> DEFINE e == Entries
<1>1. DOMAIN dir \in SUBSET Names /\ e = Sorted(DOMAIN dir)
  BY DEF DirInv, Entries
<1> HIDE DEF e
<1> QED
  BY <1>1, ListOf DEF e

\* What a call that gives something is to Listing, and one that fails.
Given(again) ==
    /\ by # None /\ reply' \in {"more", "all"}
    /\ again \/ got = << >> \/ Wanted' = Wanted
    /\ again \/ IsPrefix(got, got')
    /\ Wanted' \subseteq Names
    /\ reply' = "all" /\ (by = "fuse" => "removed" \notin changed) /\ ~ unread =>
          must \cap Wanted' \subseteq ToSet(got')

Refused == by # None /\ reply = "more" /\ reply' = "error" /\ UNCHANGED <<got, session>>

ListingVars == <<treeVars, by, unread, must, may, changed>>

\* A reply that leaves the rest of the state alone.
LEMMA ListAfter ==
    ASSUME ListInv, by # None, UNCHANGED ListingVars,
           reply' \in {"more", "all", "error"}, cookie' \in Nat,
           session' # None <=> by = "projfs",
           got' \in Seq(Names), ToSet(got') \subseteq may
    PROVE  ListInv'
  BY DEF ListInv, ListingVars, treeVars

\* A call that fails leaves the listing as it was.
LEMMA FailedStep ==
    ASSUME ReadDirInv, by # None, reply = "more", Failed, UNCHANGED ListingVars
    PROVE  ReadDirInv' /\ Refused
<1>1. /\ reply' = "error" /\ cookie' = cookie /\ session' = session /\ got' = got
      /\ by' = by /\ dir' = dir /\ fresh' = fresh /\ kind' = kind /\ must' = must /\ may' = may
      /\ changed' = changed /\ unread' = unread
  BY DEF Failed, ListingVars, treeVars
<1>2. DirInv' /\ Entries' = Entries
  BY <1>1 DEF ReadDirInv, DirInv, Entries
<1>3. ListInv'
  BY <1>1, ListAfter DEF ReadDirInv, ListInv
<1>4. FuseInv' /\ NfsInv' /\ ProjInv'
  BY <1>1, <1>2 DEF ReadDirInv, FuseInv, NfsInv, ProjInv
<1> QED
  BY <1>1, <1>2, <1>3, <1>4 DEF ReadDirInv, Refused

\* A page of the entries joins what was given.
LEMMA PageGiven ==
    ASSUME ReadDirInv, by # None, NEW lo \in Nat \ {0}, NEW hi \in Int, hi <= Len(Entries)
    PROVE  LET page == SubSeq(Entries, lo, hi)
           IN  /\ page \in Seq(Names) /\ Increasing(page)
               /\ Len(page) = IF lo <= hi THEN hi - lo + 1 ELSE 0
               /\ ToSet(page) = {Entries[i] : i \in lo..hi}
               /\ got \o page \in Seq(Names) /\ IsPrefix(got, got \o page)
               /\ ToSet(got \o page) = ToSet(got) \cup {Entries[i] : i \in lo..hi}
               /\ ToSet(got \o page) \subseteq may
<1> DEFINE e == Entries
           page == SubSeq(e, lo, hi)
<1>1. /\ e \in Seq(Names) /\ Len(e) \in Nat /\ Increasing(e)
      /\ \A i \in 1..Len(e) : e[i] \in DOMAIN dir
  BY EntriesAre DEF ReadDirInv
<1> HIDE DEF e
<1>2. /\ page \in Seq(Names) /\ Increasing(page) /\ ToSet(page) = {e[i] : i \in lo..hi}
      /\ Len(page) = IF lo <= hi THEN hi - lo + 1 ELSE 0
  BY <1>1, Page DEF e
<1>3. got \in Seq(Names) /\ ToSet(got) \subseteq may /\ DOMAIN dir \subseteq may
  BY DEF ReadDirInv, ListInv
<1> HIDE DEF page
<1>4. /\ got \o page \in Seq(Names) /\ IsPrefix(got, got \o page)
      /\ ToSet(got \o page) = ToSet(got) \cup ToSet(page)
  BY <1>2, <1>3, Joined
<1>5. \A i \in lo..hi : e[i] \in may
  <2>1. \A i \in lo..hi : i \in 1..Len(e)
    BY <1>1 DEF e
  <2> QED
    BY <1>1, <1>3, <2>1
<1>6. ToSet(got \o page) \subseteq may
  BY <1>2, <1>3, <1>4, <1>5
<1> QED
  BY <1>2, <1>4, <1>6 DEF e, page

LEMMA FuseStep ==
    ASSUME ReadDirInv, NEW room \in Rooms, FuseReadDir(room), UNCHANGED ListingVars
    PROVE  ReadDirInv' /\ (Given(FALSE) \/ Refused)
<1> DEFINE e == Entries
           stop == Min({cookie + room, Len(e) + 2})
           lo == Max({cookie - 1, 1})
           names == SubSeq(e, lo, stop - 2)
<1>1. by = "fuse" /\ reply = "more" /\ room > 0 /\ room \in Nat /\ by # None /\ cookie \in Nat
  BY ReadDirAssumption DEF FuseReadDir, ReadDirInv, ListInv
<1>2. CASE Failed
  BY <1>1, <1>2, FailedStep
<1>3. CASE ~ gone /\ ~ Failed
  <2>1. /\ reply' = (IF stop <= cookie THEN "all" ELSE "more") /\ got' = got \o names
        /\ cookie' = Max({cookie, stop}) /\ session' = session
    BY <1>3 DEF FuseReadDir, Resolved, Replied
  <2>2. /\ by' = by /\ dir' = dir /\ fresh' = fresh /\ kind' = kind /\ must' = must /\ may' = may
        /\ changed' = changed /\ unread' = unread
    BY DEF ListingVars, treeVars
  <2>3. /\ Len(e) \in Nat /\ Increasing(e) /\ \A i \in 1..Len(e) : e[i] \in Nat
        /\ \A x \in DOMAIN dir : \E i \in 1..Len(e) : e[i] = x
    BY EntriesAre DEF ReadDirInv
  <2>4. Entries' = e /\ DirInv'
    BY <2>2 DEF Entries, ReadDirInv, DirInv
  <2> HIDE DEF e
  <2>5. /\ stop = IF cookie + room <= Len(e) + 2 THEN cookie + room ELSE Len(e) + 2
        /\ lo = IF cookie - 1 >= 1 THEN cookie - 1 ELSE 1
    <3>1. cookie + room \in Int /\ Len(e) + 2 \in Int /\ cookie - 1 \in Int /\ 1 \in Int
      BY <1>1, <2>3
    <3>2. stop = IF cookie + room <= Len(e) + 2 THEN cookie + room ELSE Len(e) + 2
      BY <3>1, OfTwo
    <3>3. lo = IF cookie - 1 >= 1 THEN cookie - 1 ELSE 1
      BY <3>1, OfTwo
    <3> QED
      BY <3>2, <3>3
  <2>6. stop \in Nat /\ lo \in Nat \ {0} /\ stop - 2 <= Len(e)
    BY <1>1, <2>3, <2>5
  <2>7. cookie' = IF cookie >= stop THEN cookie ELSE stop
    <3> HIDE DEF stop
    <3>1. cookie \in Int /\ stop \in Int
      BY <1>1, <2>6
    <3>2. Max({cookie, stop}) = IF cookie >= stop THEN cookie ELSE stop
      BY <3>1, OfTwo
    <3>3. cookie' = Max({cookie, stop})
      BY <2>1 DEF stop
    <3> QED
      BY <3>2, <3>3
  <2> HIDE DEF stop, lo
  <2>8. /\ names \in Seq(Names) /\ Increasing(names)
        /\ ToSet(names) = {e[i] : i \in lo..(stop - 2)}
        /\ got' \in Seq(Names) /\ IsPrefix(got, got') /\ ToSet(got') \subseteq may
        /\ ToSet(got') = ToSet(got) \cup {e[i] : i \in lo..(stop - 2)}
    <3>1. stop - 2 \in Int /\ stop - 2 <= Len(Entries)
      BY <2>6 DEF e
    <3> QED
      BY <1>1, <2>1, <2>6, <3>1, PageGiven DEF e
  <2> HIDE DEF names
  <2>9. ListInv'
    BY <1>1, <2>1, <2>2, <2>7, <2>6, <2>8, ListAfter DEF ReadDirInv, ListInv
  <2>10. FuseInv
    BY DEF ReadDirInv
  <2>11. ASSUME "removed" \notin changed, NEW i \in 1..Len(e), i <= cookie' - 2, e[i] \in must
         PROVE  e[i] \in ToSet(got')
    <3>1. CASE i <= cookie - 2
      <4>1. e[i] \in ToSet(got)
        BY <1>1, <2>10, <2>11, <3>1 DEF FuseInv, e
      <4> QED
        BY <2>8, <4>1
    <3>2. CASE ~ (i <= cookie - 2)
      <4>1. i \in lo..(stop - 2)
        BY <1>1, <2>5, <2>6, <2>7, <2>11, <3>2
      <4> QED
        BY <2>8, <4>1
    <3> QED
      BY <3>1, <3>2
  <2>12. ASSUME "added" \notin changed
         PROVE  /\ IsInjective(got')
                /\ \A i \in 1..Len(e) : i > cookie' - 2 => e[i] \notin ToSet(got')
    <3>1. IsInjective(got) /\ \A i \in 1..Len(e) : i > cookie - 2 => e[i] \notin ToSet(got)
      BY <1>1, <2>10, <2>12 DEF FuseInv, e
    <3>2. \A i \in lo..(stop - 2) : i \in 1..Len(e) /\ i > cookie - 2
      BY <1>1, <2>3, <2>5, <2>6
    <3>3. ToSet(got) \cap ToSet(names) = {}
      BY <2>8, <3>1, <3>2
    <3>4. IsInjective(got')
      <4>1. IsInjective(names)
        BY <2>8, OrderIsInjective, ReadDirAssumption
      <4>2. got \in Seq(Names)
        BY DEF ReadDirInv, ListInv
      <4> QED
        BY <2>1, <2>8, <3>1, <3>3, <4>1, <4>2, JoinedApart
    <3>5. ASSUME NEW i \in 1..Len(e), i > cookie' - 2 PROVE e[i] \notin ToSet(got')
      <4>1. i > cookie - 2
        BY <1>1, <2>6, <2>7, <3>5
      <4>2. \A j \in lo..(stop - 2) : i # j
        BY <1>1, <2>6, <2>7, <3>5
      <4>3. \A j \in lo..(stop - 2) : e[i] # e[j]
        BY <2>3, <3>2, <4>2, InOrder
      <4> QED
        BY <2>8, <3>1, <4>1, <4>3
    <3> QED
      BY <3>4, <3>5
  <2>13. FuseInv'
    BY <1>1, <2>2, <2>4, <2>11, <2>12 DEF FuseInv
  <2>14. NfsInv' /\ ProjInv'
    BY <1>1, <2>2 DEF NfsInv, ProjInv
  <2>15. ASSUME reply' = "all", "removed" \notin changed PROVE must \subseteq ToSet(got')
    <3>1. stop <= cookie
      BY <2>1, <2>15
    <3>2. \A i \in 1..Len(e) : i <= cookie' - 2
      BY <1>1, <2>3, <2>5, <2>7, <3>1
    <3>3. must \subseteq DOMAIN dir
      BY DEF ReadDirInv, ListInv
    <3> QED
      BY <2>3, <2>11, <2>15, <3>2, <3>3
  <2>16. Wanted' = Wanted /\ Wanted = Names
    BY <1>1, <2>1 DEF Wanted, ReadDirInv, ListInv
  <2> QED
    BY <1>1, <2>1, <2>4, <2>8, <2>9, <2>13, <2>14, <2>15, <2>16 DEF ReadDirInv, Given
<1> QED
  BY <1>2, <1>3 DEF FuseReadDir

LEMMA NfsStep ==
    ASSUME ReadDirInv, NEW room \in Rooms, NfsReadDir(room), UNCHANGED ListingVars
    PROVE  ReadDirInv' /\ (Given(FALSE) \/ Refused)
<1> DEFINE e == Entries
           skip == Skip(e)
           hi == Min({skip + room, Len(e)})
           page == SubSeq(e, skip + 1, hi)
<1>1. by = "nfs" /\ reply = "more" /\ room > 0 /\ room \in Nat /\ by # None /\ cookie \in Nat
  BY ReadDirAssumption DEF NfsReadDir, ReadDirInv, ListInv
<1>2. CASE Failed
  BY <1>1, <1>2, FailedStep
<1>3. CASE ~ Failed
  <2>1. /\ reply' = (IF AtEnd(skip + Len(page)) THEN "all" ELSE "more") /\ got' = got \o page
        /\ cookie' = IF page = << >> THEN cookie ELSE dir[Last(page)]
        /\ session' = session
    BY <1>3 DEF NfsReadDir, Resolved, Replied
  <2>2. /\ by' = by /\ dir' = dir /\ fresh' = fresh /\ kind' = kind /\ must' = must /\ may' = may
        /\ changed' = changed /\ unread' = unread
    BY DEF ListingVars, treeVars
  <2>3. /\ e \in Seq(Names) /\ Len(e) \in Nat /\ Increasing(e) /\ Len(e) = Cardinality(DOMAIN dir)
        /\ \A i \in 1..Len(e) : e[i] \in Nat /\ e[i] \in DOMAIN dir
        /\ \A x \in DOMAIN dir : \E i \in 1..Len(e) : e[i] = x
    BY EntriesAre DEF ReadDirInv
  <2>4. Entries' = e /\ DirInv'
    BY <2>2 DEF Entries, ReadDirInv, DirInv
  <2>5. /\ skip \in 0..Len(e)
        /\ IF skip = 0 THEN \A n \in DOMAIN dir : dir[n] # cookie ELSE dir[e[skip]] = cookie
    BY SkipIs DEF ReadDirInv
  <2>6. /\ \A n \in DOMAIN dir : dir[n] \in Nat /\ dir[n] < fresh
        /\ \A m, n \in DOMAIN dir : dir[m] = dir[n] => m = n
    BY DEF ReadDirInv, DirInv, IsInjective
  <2> HIDE DEF e, skip
  <2>7. hi = IF skip + room <= Len(e) THEN skip + room ELSE Len(e)
    <3>1. skip + room \in Int /\ Len(e) \in Int
      BY <1>1, <2>3, <2>5
    <3> QED
      BY <3>1, OfTwo
  <2>8. hi \in skip..Len(e) /\ (skip < Len(e) => skip + 1 <= hi)
    BY <1>1, <2>3, <2>5, <2>7
  <2> HIDE DEF hi
  <2>9. /\ page \in Seq(Names) /\ Increasing(page) /\ ToSet(page) = {e[i] : i \in (skip + 1)..hi}
        /\ Len(page) = hi - skip
        /\ got' \in Seq(Names) /\ IsPrefix(got, got') /\ ToSet(got') \subseteq may
        /\ ToSet(got') = ToSet(got) \cup {e[i] : i \in (skip + 1)..hi}
    <3>1. skip + 1 \in Nat \ {0} /\ hi \in Int /\ hi <= Len(Entries)
      BY <2>5, <2>8 DEF e
    <3>2. Len(page) = IF skip + 1 <= hi THEN hi - (skip + 1) + 1 ELSE 0
      BY <1>1, <3>1, PageGiven DEF e
    <3>3. Len(page) = hi - skip
      BY <2>5, <2>8, <3>2
    <3> QED
      BY <1>1, <2>1, <3>1, <3>3, PageGiven DEF e
  <2>10. IF hi = skip THEN page = << >> ELSE page # << >> /\ Last(page) = e[hi]
    <3>1. CASE hi = skip
      BY <2>5, <2>9, <3>1
    <3>2. CASE hi # skip
      <4>1. skip + 1 \in Nat \ {0} /\ hi \in Int /\ hi <= Len(e)
        BY <2>5, <2>8
      <4>2. \A k \in 1..Len(page) : page[k] = e[skip + 1 + k - 1]
        BY <2>3, <4>1, Page
      <4>3. Len(page) \in 1..Len(page) /\ skip + 1 + Len(page) - 1 = hi
        BY <2>5, <2>8, <2>9, <3>2
      <4>4. page[Len(page)] = e[hi]
        BY <4>2, <4>3
      <4>5. page # << >>
        BY <2>5, <2>8, <2>9, <3>2
      <4> QED
        BY <3>2, <4>4, <4>5 DEF Last
    <3> QED
      BY <3>1, <3>2
  <2>11. cookie' = IF hi = skip THEN cookie ELSE dir[e[hi]]
    BY <2>1, <2>10
  <2> HIDE DEF page
  <2>12. hi # skip => hi \in 1..Len(e) /\ e[hi] \in DOMAIN dir
    BY <2>3, <2>5, <2>8
  <2>13. cookie' \in Nat /\ cookie' < fresh
    BY <1>1, <2>6, <2>11, <2>12 DEF ReadDirInv, NfsInv
  <2>14. ListInv'
    BY <1>1, <2>1, <2>2, <2>9, <2>13, ListAfter DEF ReadDirInv, ListInv
  <2>15. NfsInv
    BY DEF ReadDirInv
  <2>16. ASSUME NEW j \in 1..Len(e), j <= hi, e[j] \in must PROVE e[j] \in ToSet(got')
    <3>1. CASE j >= skip + 1
      BY <2>5, <2>8, <2>9, <2>16, <3>1
    <3>2. CASE j <= skip
      <4>1. skip \in 1..Len(e) /\ dir[e[skip]] = cookie /\ e[j] <= e[skip]
        BY <2>3, <2>5, <3>2, InOrder
      <4> QED
        BY <1>1, <2>3, <2>9, <2>15, <2>16, <4>1 DEF NfsInv
    <3> QED
      BY <2>5, <3>1, <3>2
  <2>17. ASSUME NEW n \in DOMAIN dir, dir[n] = cookie', NEW x \in must, x <= n
         PROVE  x \in ToSet(got')
    <3>1. CASE hi = skip
      BY <1>1, <2>9, <2>11, <2>15, <2>17, <3>1 DEF NfsInv
    <3>2. CASE hi # skip
      <4>1. n = e[hi]
        BY <2>6, <2>11, <2>12, <2>17, <3>2
      <4>2. PICK j \in 1..Len(e) : e[j] = x
        BY <2>3 DEF ReadDirInv, ListInv
      <4>3. j <= hi
        BY <2>3, <2>12, <2>17, <3>2, <4>1, <4>2, InOrder
      <4> QED
        BY <2>16, <4>2, <4>3
    <3> QED
      BY <3>1, <3>2
  <2>18. ASSUME "removed" \notin changed
         PROVE  /\ Increasing(got')
                /\ \/ cookie' = 0 /\ got' = << >>
                   \/ \E n \in DOMAIN dir : dir[n] = cookie' /\ \A x \in ToSet(got') : x <= n
    <3>1. /\ Increasing(got) /\ got \in Seq(Names)
          /\ \/ cookie = 0 /\ got = << >>
             \/ \E n \in DOMAIN dir : dir[n] = cookie /\ \A x \in ToSet(got) : x <= n
      BY <1>1, <2>15, <2>18 DEF NfsInv, ReadDirInv, ListInv
    <3>2. got = << >> \/ (skip \in 1..Len(e) /\ \A x \in ToSet(got) : x <= e[skip])
      <4> SUFFICES ASSUME NEW n \in DOMAIN dir, dir[n] = cookie, \A x \in ToSet(got) : x <= n
                   PROVE  skip \in 1..Len(e) /\ \A x \in ToSet(got) : x <= e[skip]
        BY <3>1
      <4>1. skip \in 1..Len(e) /\ dir[e[skip]] = cookie
        BY <2>3, <2>5
      <4> QED
        BY <2>3, <2>6, <4>1
    <3>3. \A x \in ToSet(got), i \in (skip + 1)..hi : x < e[i] /\ x <= e[hi]
      <4> SUFFICES ASSUME NEW x \in ToSet(got), NEW i \in (skip + 1)..hi
                   PROVE  x < e[i] /\ x <= e[hi]
        OBVIOUS
      <4>1. skip \in 1..Len(e) /\ x <= e[skip]
        BY <3>2, NothingGiven
      <4>2. i \in 1..Len(e) /\ skip < i /\ i <= hi /\ hi \in 1..Len(e)
        BY <2>3, <2>5, <2>8
      <4>3. e[skip] < e[i] /\ e[i] <= e[hi]
        BY <2>3, <4>1, <4>2, InOrder DEF Increasing
      <4>4. x \in Nat /\ e[skip] \in Nat /\ e[i] \in Nat /\ e[hi] \in Nat
        <5>1. ToSet(got) \subseteq Nat
          BY ReadDirAssumption DEF ReadDirInv, ListInv
        <5> QED
          BY <2>3, <4>1, <4>2, <5>1
      <4> QED
        BY <4>1, <4>3, <4>4
    <3>4. Increasing(got')
      <4>1. \A x \in ToSet(got), y \in ToSet(page) : x < y
        BY <2>9, <3>3
      <4>2. Names \in SUBSET Nat
        BY ReadDirAssumption
      <4> QED
        BY <2>1, <2>9, <3>1, <4>1, <4>2, JoinedInOrder
    <3>5. CASE hi = skip
      <4>1. got' = got
        <5>1. page = << >> /\ got' = got \o page
          BY <2>1, <2>10, <3>5
        <5> QED
          BY <3>1, <5>1
      <4> QED
        BY <2>11, <3>1, <3>4, <3>5, <4>1
    <3>6. CASE hi # skip
      <4>1. e[hi] \in DOMAIN dir /\ dir[e[hi]] = cookie' /\ hi \in (skip + 1)..hi
        BY <2>5, <2>8, <2>11, <2>12, <3>6
      <4>2. \A i \in (skip + 1)..hi : e[i] <= e[hi]
        <5>1. \A i \in (skip + 1)..hi : i \in 1..Len(e) /\ i <= hi /\ hi \in 1..Len(e)
          BY <2>3, <2>5, <2>8
        <5> QED
          BY <2>3, <5>1, InOrder
      <4>3. \A x \in ToSet(got') : x <= e[hi]
        BY <2>9, <3>3, <4>1, <4>2
      <4> QED
        BY <3>4, <4>1, <4>3
    <3> QED
      BY <3>5, <3>6
  <2>19. NfsInv'
    BY <2>2, <2>13, <2>17, <2>18 DEF NfsInv
  <2>20. FuseInv' /\ ProjInv'
    BY <1>1, <2>2 DEF FuseInv, ProjInv
  <2>21. ASSUME reply' = "all" PROVE must \subseteq ToSet(got')
    <3>1. skip + (hi - skip) >= Len(e)
      BY <2>1, <2>3, <2>9, <2>21 DEF AtEnd
    <3>2. \A j \in 1..Len(e) : j <= hi
      BY <2>3, <2>5, <2>8, <3>1
    <3>3. must \subseteq DOMAIN dir
      BY DEF ReadDirInv, ListInv
    <3> QED
      BY <2>3, <2>16, <3>2, <3>3
  <2>22. Wanted' = Wanted /\ Wanted = Names
    BY <1>1, <2>1 DEF Wanted, ReadDirInv, ListInv
  <2> QED
    BY <1>1, <2>1, <2>4, <2>9, <2>14, <2>19, <2>20, <2>21, <2>22 DEF ReadDirInv, Given
<1> QED
  BY <1>2, <1>3

\* A session given a search expression, and one started again.
LEMMA SessionParts ==
    ASSUME NEW s \in Sessions, NEW pattern \in Patterns
    PROVE  /\ [s EXCEPT !.search = pattern] \in Sessions
           /\ [s EXCEPT !.search = pattern].entries = s.entries
           /\ [s EXCEPT !.search = pattern].index = s.index
           /\ [s EXCEPT !.search = pattern].search = pattern
           /\ Restarted(s) \in Sessions /\ Restarted(s).entries = s.entries
           /\ Restarted(s).index = 0 /\ Restarted(s).search = None
  BY DEF Sessions, Restarted

LEMMA ProjStep ==
    ASSUME ReadDirInv, NEW restart \in BOOLEAN, NEW pattern \in Patterns, NEW room \in Rooms,
           GetDirEnum(restart, pattern, room), UNCHANGED ListingVars
    PROVE  ReadDirInv' /\ Given(restart)
<1> DEFINE s0 == IF restart THEN Restarted(session) ELSE session
           s == IF s0.search = None THEN [s0 EXCEPT !.search = pattern] ELSE s0
           g0 == IF restart THEN << >> ELSE got
           e == session.entries
           stop == Filled(s, room)
           sub == SubSeq(e, s.index + 1, stop)
           page == Select(sub, s.search)
<1>1. /\ by = "projfs" /\ by # None /\ by # "fuse" /\ by # "nfs" /\ room \in Nat
      /\ pattern \subseteq Names /\ pattern # None /\ Names \in SUBSET Nat
      /\ reply # "all" \/ restart
  BY ReadDirAssumption DEF GetDirEnum
<1>2. /\ by' = by /\ dir' = dir /\ fresh' = fresh /\ kind' = kind /\ must' = must /\ may' = may
      /\ changed' = changed /\ unread' = unread
  BY DEF ListingVars, treeVars
<1>3. /\ session \in Sessions /\ Increasing(e) /\ session.index <= Len(e)
      /\ ~ unread => must \subseteq ToSet(e)
      /\ ToSet(e) \subseteq may /\ Increasing(got)
      /\ IF session.search = None THEN session.index = 0 /\ got = << >>
         ELSE ToSet(got) = {e[i] : i \in 1..session.index} \cap session.search
  BY <1>1 DEF ReadDirInv, ProjInv
<1>4. got \in Seq(Names)
  BY DEF ReadDirInv, ListInv
<1>5. e \in Seq(Names) /\ Len(e) \in Nat /\ session.index \in Nat /\ DOMAIN e = 1..Len(e)
  BY <1>3 DEF Sessions
<1>6. s0 \in Sessions /\ s0.entries = e /\ s0.index = IF restart THEN 0 ELSE session.index
  BY <1>3, SessionParts
<1>7. s0.search = IF restart THEN None ELSE session.search
  BY <1>3, SessionParts
<1> HIDE DEF s0
<1>8. /\ s \in Sessions /\ s.entries = e /\ s.index = s0.index
      /\ s.search = IF s0.search = None THEN pattern ELSE s0.search
  <2>1. /\ [s0 EXCEPT !.search = pattern] \in Sessions
        /\ [s0 EXCEPT !.search = pattern].entries = s0.entries
        /\ [s0 EXCEPT !.search = pattern].index = s0.index
        /\ [s0 EXCEPT !.search = pattern].search = pattern
    BY <1>6, SessionParts
  <2>2. CASE s0.search = None
    BY <1>6, <2>1, <2>2
  <2>3. CASE s0.search # None
    BY <1>6, <2>3
  <2> QED
    BY <2>2, <2>3
<1>9. /\ s.index \in Nat /\ s.index <= Len(e) /\ s.search \in Patterns /\ s.search # None
      /\ s.search \subseteq Names
  <2>1. s.search \in Patterns
    BY <1>7, <1>8 DEF Sessions
  <2>2. \A P \in Patterns : P \subseteq Names /\ P # None
    BY ReadDirAssumption
  <2> QED
    BY <1>3, <1>5, <1>6, <1>8, <2>1, <2>2
<1>10. /\ g0 \in Seq(Names) /\ Increasing(g0)
       /\ ToSet(g0) = {e[i] : i \in 1..s.index} \cap s.search
  <2>1. CASE restart \/ session.search = None
    <3>1. g0 = << >> /\ s.index = 0
      BY <1>3, <1>6, <1>8, <2>1
    <3>2. {e[i] : i \in 1..s.index} = {}
      BY <3>1
    <3> HIDE DEF g0, s
    <3> QED
      BY <3>1, <3>2, NothingGiven
  <2>2. CASE ~ (restart \/ session.search = None)
    <3>1. g0 = got /\ s.index = session.index /\ s.search = session.search
      BY <1>6, <1>7, <1>8, <2>2
    <3> HIDE DEF g0, s
    <3> QED
      BY <1>3, <1>4, <2>2, <3>1
  <2> QED
    BY <2>1, <2>2
<1>11. stop \in s.index..Len(e)
  <2> HIDE DEF s
  <2> QED
    BY <1>1, <1>5, <1>8, <1>9, FilledStops
<1>12. /\ session' = [s EXCEPT !.index = stop] /\ cookie' = cookie
       /\ reply' = (IF page = << >> /\ stop = Len(e) THEN "all" ELSE "more")
       /\ got' = g0 \o page
  BY <1>8 DEF GetDirEnum, s0
<1> HIDE DEF s, g0
<1>13. /\ session' \in Sessions /\ session'.entries = e /\ session'.index = stop
       /\ session'.search = s.search
  <2>1. stop \in Nat
    BY <1>9, <1>11
  <2> HIDE DEF stop
  <2>2. /\ [s EXCEPT !.index = stop] \in Sessions
        /\ [s EXCEPT !.index = stop].entries = s.entries
        /\ [s EXCEPT !.index = stop].index = stop
        /\ [s EXCEPT !.index = stop].search = s.search
    BY <1>8, <2>1 DEF Sessions
  <2>3. session' = [s EXCEPT !.index = stop]
    BY <1>12 DEF stop
  <2> QED
    BY <1>8, <2>2, <2>3
<1> HIDE DEF stop
<1>14. sub \in Seq(Names) /\ Increasing(sub) /\ ToSet(sub) = {e[i] : i \in (s.index + 1)..stop}
  <2>1. s.index + 1 \in Nat \ {0} /\ stop \in Int /\ stop <= Len(e)
    BY <1>9, <1>11
  <2> QED
    BY <1>3, <1>5, <2>1, Page
<1> HIDE DEF sub
<1>15. page \in Seq(Names) /\ Increasing(page) /\ ToSet(page) = ToSet(sub) \cap s.search
  BY <1>1, <1>14, Selected
<1> HIDE DEF page, e
<1>16. \A i \in 1..stop : i \in 1..Len(e) /\ (i \in 1..s.index \/ i \in (s.index + 1)..stop)
  BY <1>5, <1>9, <1>11
<1>17. /\ got' \in Seq(Names) /\ ToSet(got') = ToSet(g0) \cup ToSet(page) /\ IsPrefix(g0, got')
  BY <1>10, <1>12, <1>15, Joined
<1>18. ToSet(got') = {e[i] : i \in 1..stop} \cap s.search
  <2>1. \A i \in 1..s.index : i \in 1..stop
    BY <1>9, <1>11
  <2>2. \A i \in (s.index + 1)..stop : i \in 1..stop
    BY <1>9, <1>11
  <2>3. {e[i] : i \in 1..stop} = {e[i] : i \in 1..s.index} \cup {e[i] : i \in (s.index + 1)..stop}
    BY <1>16, <2>1, <2>2
  <2> QED
    BY <1>10, <1>14, <1>15, <1>17, <2>3
<1>19. ToSet(got') \subseteq ToSet(e)
  BY <1>5, <1>16, <1>18 DEF ToSet
<1>20. Increasing(got')
  <2>1. ASSUME NEW i \in 1..s.index, NEW j \in (s.index + 1)..stop PROVE e[i] < e[j]
    <3>1. i \in 1..Len(e) /\ j \in 1..Len(e) /\ i < j
      BY <1>5, <1>9, <1>11
    <3> QED
      BY <1>3, <3>1 DEF Increasing, e
  <2>2. \A x \in ToSet(g0), y \in ToSet(page) : x < y
    BY <1>10, <1>14, <1>15, <2>1
  <2> QED
    BY <1>1, <1>10, <1>12, <1>15, <2>2, JoinedInOrder
<1>21. session' # None
  BY <1>13, ReadDirAssumption
<1>22. ListInv'
  <2>1. reply' \in {"more", "all", "error"}
    BY <1>12
  <2>2. cookie' \in Nat /\ ToSet(got') \subseteq may
    BY <1>3, <1>12, <1>19 DEF ReadDirInv, ListInv, e
  <2> QED
    BY <1>1, <1>17, <1>21, <2>1, <2>2, ListAfter DEF ReadDirInv
<1>23. ProjInv'
  <2>1. reply' = "all" => session'.search # None /\ session'.index = Len(session'.entries)
    BY <1>9, <1>12, <1>13
  <2>2. Increasing(e) /\ (~ unread => must \subseteq ToSet(e)) /\ ToSet(e) \subseteq may /\ stop <= Len(e)
    BY <1>3, <1>5, <1>11 DEF e
  <2> QED
    BY <1>2, <1>9, <1>13, <1>18, <1>20, <2>1, <2>2 DEF ProjInv
<1>24. FuseInv' /\ NfsInv'
  BY <1>1, <1>2 DEF FuseInv, NfsInv
<1>25. DirInv'
  BY <1>2 DEF ReadDirInv, DirInv
<1>26. Wanted' = s.search
  BY <1>9, <1>13, <1>21 DEF Wanted
<1>27. restart \/ got = << >> \/ Wanted' = Wanted
  <2>1. CASE ~ restart /\ session.search # None
    <3>1. s.search = session.search
      BY <1>7, <1>8, <2>1
    <3>2. session # None
      BY <1>1 DEF ReadDirInv, ListInv
    <3> QED
      BY <1>26, <2>1, <3>1, <3>2 DEF Wanted
  <2>2. CASE session.search = None
    BY <1>3, <2>2
  <2> QED
    BY <2>1, <2>2
<1>28. restart \/ IsPrefix(got, got')
  BY <1>17 DEF g0
<1>29. reply' = "all" /\ ~ unread => must \cap Wanted' \subseteq ToSet(got')
  <2> SUFFICES ASSUME reply' = "all", ~ unread PROVE must \cap s.search \subseteq ToSet(got')
    BY <1>26
  <2>1. stop = Len(e)
    BY <1>12
  <2>2. ToSet(e) = {e[i] : i \in 1..stop}
    BY <1>5, <2>1 DEF ToSet, e
  <2> QED
    BY <1>3, <1>18, <2>2 DEF e
<1> QED
  BY <1>1, <1>9, <1>12, <1>22, <1>23, <1>24, <1>25, <1>26, <1>27, <1>28, <1>29
     DEF ReadDirInv, Given

-----------------------------------------------------------------------------
(* Every step keeps the invariant, and is a step of Listing or none to it.  *)

Told == CASE by = None -> "nothing" [] reply = "all" -> "all" [] OTHER -> "more"
Firm == (by = "fuse" => "removed" \notin changed) /\ ~ unread

\* The three things a listing is told, by the state it is in.
LEMMA ToldIs ==
    ASSUME ListInv
    PROVE  Told = IF by = None THEN "nothing" ELSE IF reply = "all" THEN "all" ELSE "more"
<1>1. CASE by = None
  <2>1. reply # "all"
    BY <1>1 DEF ListInv
  <2> QED
    BY <1>1, <2>1 DEF Told
<1>2. CASE by # None
  BY <1>2 DEF Told
<1> QED
  BY <1>1, <1>2

LEMMA IsDeliver ==
    ASSUME ReadDirInv, ReadDirInv', NEW again \in BOOLEAN, Given(again), UNCHANGED ListingVars
    PROVE  Listed!Deliver(again)
<1>1. /\ by' = by /\ dir' = dir /\ must' = must /\ may' = may /\ changed' = changed /\ unread' = unread /\ by # None
      /\ reply' \in {"more", "all"}
  BY DEF Given, ListingVars, treeVars
<1>2. /\ Told # "nothing" /\ Told' \in {"more", "all"} /\ (Told' = "all" => reply' = "all")
      /\ Firm' = Firm
  BY <1>1 DEF Told, Firm
<1>3. ToSet(got') \subseteq may
  BY <1>1 DEF ReadDirInv, ListInv
<1>4. /\ again \/ IsPrefix(got, got')
      /\ again \/ got = << >> \/ Wanted' = Wanted
      /\ Wanted' \subseteq Names
      /\ reply' = "all" /\ Firm => must \cap Wanted' \subseteq ToSet(got')
  BY DEF Given, Firm
<1>5. /\ Told # "nothing" /\ Told' \in {"more", "all"}
      /\ again \/ got = << >> \/ Wanted' = Wanted
      /\ again \/ IsPrefix(got, got')
      /\ Wanted' \subseteq Names /\ ToSet(got') \subseteq may
      /\ Told' = "all" /\ Firm => must \cap Wanted' \subseteq ToSet(got')
      /\ UNCHANGED <<DOMAIN dir, Firm, must, may>>
  BY <1>1, <1>2, <1>3, <1>4
<1>6. Listed!IsPrefix(got, got') = IsPrefix(got, got') /\ Listed!ToSet(got') = ToSet(got')
  BY DEF Listed!IsPrefix, IsPrefix, Listed!ToSet, ToSet
<1> QED
  BY <1>5, <1>6 DEF Listed!Deliver, Told, Firm

LEMMA IsStutter ==
    ASSUME ReadDirInv, Refused, UNCHANGED ListingVars
    PROVE  UNCHANGED Listed!lvars
<1>1. /\ by' = by /\ dir' = dir /\ must' = must /\ may' = may /\ changed' = changed /\ unread' = unread
      /\ got' = got /\ session' = session /\ by # None /\ reply = "more" /\ reply' = "error"
  BY DEF Refused, ListingVars, treeVars
<1>2. Wanted' = Wanted
  BY <1>1 DEF Wanted
<1>3. Told' = Told /\ Firm' = Firm
  BY <1>1 DEF Told, Firm
<1> QED
  BY <1>1, <1>2, <1>3 DEF Listed!lvars, Told, Firm

LEMMA CallSteps ==
    ASSUME ReadDirInv, (\E room \in Rooms : Call(room)) \/ CallFails
    PROVE  /\ ReadDirInv'
           /\ (\E again \in BOOLEAN : Listed!Deliver(again)) \/ UNCHANGED Listed!lvars
<1>1. UNCHANGED ListingVars
  BY DEF Call, CallFails, ListingVars
<1>2. SUFFICES ReadDirInv' /\ ((\E again \in BOOLEAN : Given(again)) \/ Refused)
  BY <1>1, IsDeliver, IsStutter
<1>3. ASSUME NEW room \in Rooms, FuseReadDir(room) PROVE ReadDirInv' /\ (Given(FALSE) \/ Refused)
  BY <1>1, <1>3, FuseStep
<1>4. ASSUME NEW room \in Rooms, NfsReadDir(room) PROVE ReadDirInv' /\ (Given(FALSE) \/ Refused)
  BY <1>1, <1>4, NfsStep
<1>5. ASSUME NEW room \in Rooms, NEW restart \in BOOLEAN, NEW pattern \in Patterns,
             GetDirEnum(restart, pattern, room)
      PROVE  ReadDirInv' /\ Given(restart)
  BY <1>1, <1>5, ProjStep
<1>6. ASSUME CallFails PROVE ReadDirInv' /\ Refused
  <2>1. by # None /\ reply = "more" /\ Failed
    BY <1>6, ReadDirAssumption DEF CallFails, GetDirEnumFails
  <2> QED
    BY <1>1, <2>1, FailedStep
<1>7. CASE \E room \in Rooms : Call(room)
  <2>1. PICK room \in Rooms :
          FuseReadDir(room) \/ NfsReadDir(room)
          \/ \E restart \in BOOLEAN, pattern \in Patterns : GetDirEnum(restart, pattern, room)
    BY <1>7 DEF Call
  <2> QED
    BY <1>3, <1>4, <1>5, <2>1
<1> QED
  BY <1>6, <1>7

LEMMA Step ==
    ASSUME ReadDirInv, [Next]_vars
    PROVE  ReadDirInv' /\ [Listed!Next]_(Listed!lvars)
<1>1. CASE \/ \E name \in Names : Add(name) \/ RemoveEntry(name)
           \/ RemoveSnapshot
  <2>1. ReadDirInv' /\ UNCHANGED clientVars /\ \E what \in {"added", "removed"} : Noted(what)
    BY <1>1, DirSteps
  <2>2. /\ by' = by /\ reply' = reply /\ got' = got /\ session' = session /\ unread' = unread
    BY <2>1 DEF clientVars
  <2>3. DOMAIN dir' \subseteq Names
    BY <2>1 DEF ReadDirInv, DirInv
  <2>4. Told' = Told /\ Wanted' = Wanted
    BY <2>2 DEF Told, Wanted
  <2>5. IF Told = "nothing" THEN UNCHANGED <<must, may, changed>>
        ELSE /\ must' = must \cap DOMAIN dir' /\ may' = may \cup DOMAIN dir'
             /\ changed \subseteq changed'
    <3>1. by = None => Told = "nothing"
      BY ToldIs DEF ReadDirInv
    <3>2. by # None => Told # "nothing"
      BY ToldIs DEF ReadDirInv
    <3>3. \E what \in {"added", "removed"} : Noted(what)
      BY <2>1
    <3> QED
      BY <3>1, <3>2, <3>3 DEF Noted
  <2>6. (Told = "nothing" => Firm' = Firm) /\ (Firm' => Firm)
    BY <2>2, <2>5 DEF Firm
  <2>7. Listed!Change
    BY <2>2, <2>3, <2>4, <2>5, <2>6 DEF Listed!Change, Told, Firm
  <2> QED
    BY <2>1, <2>7 DEF Listed!Next
<1>2. CASE OpenDir \/ StartDirEnum \/ StartDirEnumUnread
  <2>1. /\ ReadDirInv' /\ by = None /\ by' \in {"fuse", "nfs", "projfs"} /\ reply' = "more"
        /\ dir' = dir /\ must' = DOMAIN dir /\ may' = DOMAIN dir
        /\ got' = << >> /\ changed' = {} /\ Wanted' = Names
    BY <1>2, BeginSteps DEF treeVars
  <2>2. Told = "nothing" /\ Told' = "more" /\ Firm' \in BOOLEAN
    <3>1. by' # None
      BY <2>1, ReadDirAssumption
    <3>3. Told' = "more"
      BY <2>1, <3>1 DEF Told
    <3>4. Firm' \in BOOLEAN
      BY DEF Firm
    <3> QED
      BY <2>1, <3>3, <3>4, ToldIs DEF ReadDirInv
  <2>3. Listed!Begin
    BY <2>1, <2>2 DEF Listed!Begin, Told, Firm
  <2> QED
    BY <2>1, <2>3 DEF Listed!Next
<1>3. CASE Close
  <2>1. /\ ReadDirInv' /\ by # None /\ by' = None /\ dir' = dir /\ Wanted' = Names
        /\ must' = {} /\ may' = {} /\ got' = << >>
    BY <1>3, CloseStep
  <2>2. Told # "nothing" /\ Told' = "nothing" /\ Firm' = TRUE
    <3>1. by' # "fuse"
      BY <2>1, ReadDirAssumption
    <3>2. Told' = "nothing"
      <4>1. reply' # "all"
        BY <2>1 DEF ReadDirInv, ListInv
      <4> QED
        BY <2>1, <4>1 DEF Told
    <3>3. Firm' = TRUE
      BY <2>1, <3>1, ReadDirAssumption DEF Firm, ReadDirInv, ListInv
    <3> QED
      BY <2>1, <3>2, <3>3, ToldIs DEF ReadDirInv
  <2>3. Listed!Close
    BY <2>1, <2>2 DEF Listed!Close, Listed!Closed, Told, Firm
  <2> QED
    BY <2>1, <2>3 DEF Listed!Next
<1>4. CASE (\E room \in Rooms : Call(room)) \/ CallFails
  BY <1>4, CallSteps DEF Listed!Next
<1>5. CASE UNCHANGED vars
  <2>1. /\ UNCHANGED <<kind, dir, gone, fresh, by, cookie, session, restarts, reply, got>>
        /\ UNCHANGED <<unread, must, may, changed>>
    BY <1>5 DEF vars, treeVars, clientVars
  <2>2. Entries' = Entries /\ Wanted' = Wanted
    BY <2>1 DEF Entries, Wanted
  <2>3. ReadDirInv'
    BY <2>1, <2>2 DEF ReadDirInv, DirInv, ListInv, FuseInv, NfsInv, ProjInv
  <2>4. Told' = Told /\ Firm' = Firm
    BY <2>1 DEF Told, Firm
  <2> QED
    BY <2>1, <2>2, <2>3, <2>4 DEF Listed!lvars, Told, Firm
<1> QED
  BY <1>1, <1>2, <1>3, <1>4, <1>5 DEF Next

LEMMA InitIsListed == Init => Listed!Init
<1> SUFFICES ASSUME Init PROVE Listed!Init
  OBVIOUS
<1>1. by = None /\ session = None /\ must = {} /\ may = {} /\ got = << >>
  BY DEF Init
<1>2. Told = "nothing" /\ Firm = TRUE /\ Wanted = Names
  <2>1. by # "fuse"
    BY <1>1, ReadDirAssumption
  <2>2. Firm = TRUE
    BY <2>1 DEF Firm, Init
  <2>3. Wanted = Names
    BY <1>1 DEF Wanted
  <2> QED
    BY <1>1, <2>2, <2>3, ToldIs, InitInv DEF ReadDirInv
<1>3. DOMAIN dir \subseteq Names
  BY InitInv DEF ReadDirInv, DirInv
<1> QED
  BY <1>1, <1>2, <1>3 DEF Listed!Init, Listed!Closed, Told, Firm

\* The inductive invariant holds throughout.
THEOREM InvHolds == Spec => []ReadDirInv
<1>1. Init => ReadDirInv
  BY InitInv
<1>2. ReadDirInv /\ [Next]_vars => ReadDirInv'
  BY Step
<1> QED
  BY <1>1, <1>2, PTL DEF Spec

\* Nothing is listed twice, unless an addition shifts the positions of a FUSE
\* listing, or NFS starts again because the entry it was to resume after is
\* gone; and ProjFS gives its entries in order: projfs/src/lib.rs:262.
THEOREM NothingTwice == Spec => []ListedOnce
<1>1. ReadDirInv => ListedOnce
  <2> SUFFICES ASSUME ReadDirInv PROVE ListedOnce
    OBVIOUS
  <2>1. got \in Seq(Names) /\ Names \in SUBSET Nat
    BY ReadDirAssumption DEF ReadDirInv, ListInv
  <2>2. Increasing(got) => IsInjective(got)
    BY <2>1, OrderIsInjective
  <2>3. CASE by = None
    <3>1. IsInjective(got) /\ by # "projfs"
      BY <2>3, NothingGiven, ReadDirAssumption DEF ReadDirInv, ListInv
    <3> QED
      BY <3>1 DEF ListedOnce
  <2>4. CASE by = "fuse"
    BY <2>4 DEF ReadDirInv, FuseInv, ListedOnce
  <2>5. CASE by = "nfs"
    BY <2>2, <2>5 DEF ReadDirInv, NfsInv, ListedOnce
  <2>6. CASE by = "projfs"
    <3>1. Increasing(got)
      BY <2>6 DEF ReadDirInv, ProjInv
    <3>2. \A i \in 2..Len(got) : i - 1 \in 1..Len(got) /\ i \in 1..Len(got) /\ i - 1 < i
      BY <2>1
    <3>3. \A i \in 2..Len(got) : got[i - 1] < got[i]
      BY <3>1, <3>2 DEF Increasing
    <3> QED
      BY <2>2, <3>1, <3>3 DEF ListedOnce
  <2> QED
    BY <2>3, <2>4, <2>5, <2>6 DEF ReadDirInv, ListInv
<1> QED
  BY <1>1, InvHolds, PTL

\* What a finished enumeration has given is the directory as it was when the
\* session began, cut down to the search expression of the scan's first call:
\* StartDirEnum and GetDirEnum of projfs/src/lib.rs.
THEOREM ScansAreWhole == Spec => []ScanIsWhole
<1>1. ReadDirInv => ScanIsWhole
  <2> SUFFICES ASSUME ReadDirInv, by = "projfs", reply = "all"
               PROVE  ToSet(got) = ToSet(session.entries) \cap session.search
    BY DEF ScanIsWhole
  <2>1. /\ session.index = Len(session.entries) /\ session.entries \in Seq(Names)
        /\ ToSet(got) = {session.entries[i] : i \in 1..session.index} \cap session.search
    BY DEF ReadDirInv, ProjInv, Sessions
  <2>2. ToSet(session.entries) = {session.entries[i] : i \in 1..session.index}
    BY <2>1 DEF ToSet
  <2> QED
    BY <2>1, <2>2
<1> QED
  BY <1>1, InvHolds, PTL

\* The listings of all three back ends are what Listing promises, in any order
\* of calls, additions and removals: nothing that was never there, and, but for
\* FUSE after a removal and a ProjFS session whose snapshot did not open,
\* everything that was there throughout.
THEOREM ListingIsImplemented == Spec => ImplementsListing
<1>1. Init => ReadDirInv /\ Listed!Init
  BY InitInv, InitIsListed
<1>2. ReadDirInv /\ [Next]_vars => ReadDirInv' /\ [Listed!Next]_(Listed!lvars)
  BY Step
<1> QED
  BY <1>1, <1>2, PTL DEF Spec, ImplementsListing, Listed!Spec
=============================================================================
