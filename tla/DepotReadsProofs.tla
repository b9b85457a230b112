-------------------------- MODULE DepotReadsProofs --------------------------
(***************************************************************************)
(* Proofs about DepotReads for every width of a u64, every file and chunk  *)
(* table, whatever a kernel asks for and however short chunks come.        *)
(***************************************************************************)
EXTENDS DepotReads, SequenceTheorems, WellFoundedInduction, TLAPS

Bytes == Nat \X Nat

\* Every set of natural numbers has a least element.
LEMMA Smallest ==
    ASSUME NEW S \in SUBSET Nat, S # {}
    PROVE  \E n \in S : \A m \in S : n <= m
  <1> DEFINE R == OpToRel(<, Nat)
  <1>1. \A x, y \in Nat : x < y => <<x, y>> \in R
    BY DEF OpToRel
  <1>2. IsWellFoundedOn(R, Nat)
    BY NatLessThanWellFounded
  <1> HIDE DEF R
  <1>3. PICK x \in S : \A y \in S : ~ (<<y, x>> \in R)
    BY <1>2, WFMin
  <1>4. \A y \in S : ~ (y < x)
    BY <1>1, <1>3
  <1> QED
    BY <1>4

\* What the assumption says of the file at hand.
LEMMA Table ==
    ASSUME file \in Files
    PROVE  /\ file.size \in Nat /\ file.size <= IsizeMax
           /\ \A n \in Counts : n \in Nat /\ file.size + n < U
           /\ Len(file.chunks) \in Nat
           /\ \A i \in Indices : /\ i \in Nat /\ i >= 1
                                 /\ Chunk(i).offset \in Nat
                                 /\ Chunk(i).size \in Nat /\ Chunk(i).size > 0
                                 /\ End(i) \in Nat /\ Chunk(i).offset < End(i)
           /\ \A i \in 2..Len(file.chunks) : Chunk(i - 1).offset <= Chunk(i).offset
  <1>1. /\ file.size \in 0..IsizeMax
        /\ \A n \in Counts : n \in Nat /\ file.size + n < U
        /\ file.chunks \in Seq([offset : Nat, size : Nat \ {0}])
        /\ \A i \in 2..Len(file.chunks) : Chunk(i - 1).offset <= Chunk(i).offset
    BY WidthAssumption DEF Chunk
  <1>2. /\ Len(file.chunks) \in Nat
        /\ \A i \in Indices : Chunk(i) \in [offset : Nat, size : Nat \ {0}]
    BY <1>1, ElementOfSeq, LenProperties DEF Chunk, Indices
  <1>3. IsizeMax \in Int
    BY WidthAssumption DEF IsizeMax
  <1>4. ASSUME NEW i \in Indices
        PROVE  /\ i \in Nat /\ i >= 1
               /\ Chunk(i).offset \in Nat
               /\ Chunk(i).size \in Nat /\ Chunk(i).size > 0
               /\ End(i) \in Nat /\ Chunk(i).offset < End(i)
    <2>1. Chunk(i).offset \in Nat /\ Chunk(i).size \in Nat \ {0}
      BY <1>2
    <2> QED
      BY <1>2, <2>1 DEF End, Indices
  <1> QED
    BY <1>1, <1>2, <1>3, <1>4

\* The chunk table of a file is sorted, not only from neighbour to neighbour.
LEMMA Sorted ==
    ASSUME file \in Files, NEW i \in Indices, NEW j \in Indices, i <= j
    PROVE  Chunk(i).offset <= Chunk(j).offset
  <1> DEFINE S == {k \in Indices : i <= k /\ Chunk(k).offset < Chunk(i).offset}
  <1>1. ASSUME S # {} PROVE FALSE
    <2>1. S \in SUBSET Nat
      BY Table
    <2>2. PICK k \in S : \A m \in S : k <= m
      BY <1>1, <2>1, Smallest
    <2>3. k - 1 \in Indices /\ i <= k - 1 /\ k \in 2..Len(file.chunks)
      BY <2>2, Table DEF Indices
    <2>4. Chunk(k - 1).offset <= Chunk(k).offset
      BY <2>3, Table
    <2>5. k - 1 \in S
      BY <2>2, <2>3, <2>4, Table
    <2> QED
      BY <2>2, <2>5, Table
  <1> QED
    BY <1>1, Table

\* A whole table leaves nothing out and names no byte twice.
LEMMA Apart ==
    ASSUME file \in Files, Contiguous, NEW i \in Indices, NEW j \in Indices, i < j
    PROVE  End(i) <= Chunk(j).offset
  <1>1. i + 1 \in Indices /\ i + 1 <= j
    BY Table DEF Indices
  <1>2. i + 1 # 1 /\ (i + 1) - 1 = i
    BY Table
  <1>3. Chunk(i + 1).offset = IF i + 1 = 1 THEN 0 ELSE End((i + 1) - 1)
    BY <1>1 DEF Contiguous
  <1>4. Chunk(i + 1).offset = End(i)
    BY <1>2, <1>3
  <1> QED
    BY <1>1, <1>4, Sorted

\* partition_point: the chunks at or before the position are the first ones.
LEMMA PartitionPoint ==
    ASSUME file \in Files, pos \in Nat
    PROVE  /\ ChunkAt \in 0..Len(file.chunks)
           /\ \A i \in Indices : Chunk(i).offset <= pos <=> i <= ChunkAt
  <1> DEFINE P(k) == \A i \in Indices : Chunk(i).offset <= pos <=> i <= k
             S == {i \in Indices : Chunk(i).offset > pos}
  <1>1. \E k \in 0..Len(file.chunks) : P(k)
    <2>1. CASE S = {}
      <3>1. P(Len(file.chunks))
        BY <2>1, Table DEF Indices
      <3>2. Len(file.chunks) \in 0..Len(file.chunks)
        BY Table
      <3> HIDE DEF P
      <3> QED
        BY <3>1, <3>2
    <2>2. CASE S # {}
      <3>1. S \in SUBSET Nat
        BY Table
      <3>2. PICK m \in S : \A n \in S : m <= n
        BY <2>2, <3>1, Smallest
      <3>3. ASSUME NEW i \in Indices, m <= i PROVE Chunk(i).offset > pos
        BY <3>2, <3>3, Sorted, Table
      <3>4. P(m - 1)
        BY <3>2, <3>3, Table
      <3>5. m - 1 \in 0..Len(file.chunks)
        BY <3>2, Table DEF Indices
      <3> QED
        BY <3>4, <3>5
    <2> QED
      BY <2>1, <2>2
  <1>2. ChunkAt = CHOOSE k \in 0..Len(file.chunks) : P(k)
    BY DEF ChunkAt
  <1> HIDE DEF P
  <1>3. ChunkAt \in 0..Len(file.chunks) /\ P(ChunkAt)
    BY <1>1, <1>2
  <1> QED
    BY <1>3 DEF P

-----------------------------------------------------------------------------
(* The content of a file. *)

FileBytes == {ByteAt(p) : p \in Nat}

LEMMA FunctionIsSeq ==
    ASSUME NEW T, NEW m \in Nat, NEW f \in [1..m -> T]
    PROVE  f \in Seq(T) /\ Len(f) = m
  <1>1. f \in Seq(T)
    BY SeqDef
  <1>2. DOMAIN f = 1..m /\ DOMAIN f = 1..Len(f) /\ Len(f) \in Nat
    BY <1>1, LenProperties
  <1> QED
    BY <1>1, <1>2

LEMMA ContentIsSeq ==
    ASSUME NEW a \in Nat, NEW b \in Nat, a <= b
    PROVE  /\ Content(a, b) \in Seq(FileBytes)
           /\ Len(Content(a, b)) = b - a
           /\ Content(a, b) = [n \in 1..(b - a) |-> ByteAt(a + n - 1)]
  <1> DEFINE m == b - a
  <1>1. m \in Nat /\ Monus(b, a) = m
    BY DEF Monus
  <1>2. Content(a, b) = [n \in 1..m |-> ByteAt(a + n - 1)]
    BY <1>1 DEF Content
  <1> HIDE DEF m
  <1>3. \A n \in 1..m : ByteAt(a + n - 1) \in FileBytes
    BY <1>1 DEF FileBytes
  <1>4. Content(a, b) \in [1..m -> FileBytes]
    BY <1>2, <1>3
  <1>5. Content(a, b) \in Seq(FileBytes) /\ Len(Content(a, b)) = m
    BY <1>1, <1>4, FunctionIsSeq
  <1> QED
    BY <1>2, <1>5 DEF m

\* Two ranges that meet make one.
LEMMA ContentJoins ==
    ASSUME NEW a \in Nat, NEW b \in Nat, NEW c \in Nat, a <= b, b <= c
    PROVE  Content(a, b) \o Content(b, c) = Content(a, c)
  <1> DEFINE s == Content(a, b)
             t == Content(b, c)
             u == Content(a, c)
  <1>1. /\ s \in Seq(FileBytes) /\ Len(s) = b - a
        /\ \A n \in 1..(b - a) : s[n] = ByteAt(a + n - 1)
    BY ContentIsSeq
  <1>2. /\ t \in Seq(FileBytes) /\ Len(t) = c - b
        /\ \A n \in 1..(c - b) : t[n] = ByteAt(b + n - 1)
    BY ContentIsSeq
  <1>3. /\ u \in Seq(FileBytes) /\ Len(u) = c - a
        /\ \A n \in 1..(c - a) : u[n] = ByteAt(a + n - 1)
    <2>1. a <= c
      OBVIOUS
    <2> QED
      BY <2>1, ContentIsSeq
  <1> HIDE DEF s, t, u
  <1>4. /\ s \o t \in Seq(FileBytes) /\ Len(s \o t) = Len(s) + Len(t)
        /\ \A n \in 1..(Len(s) + Len(t)) :
              (s \o t)[n] = IF n <= Len(s) THEN s[n] ELSE t[n - Len(s)]
    BY <1>1, <1>2, ConcatProperties
  <1>5. Len(s) + Len(t) = c - a
    BY <1>1, <1>2
  <1>6. ASSUME NEW n \in 1..(c - a) PROVE (s \o t)[n] = u[n]
    <2>1. (s \o t)[n] = IF n <= b - a THEN s[n] ELSE t[n - (b - a)]
      BY <1>1, <1>4, <1>5
    <2>2. u[n] = ByteAt(a + n - 1)
      BY <1>3
    <2>3. CASE n <= b - a
      <3>1. n \in 1..(b - a)
        BY <2>3
      <3>2. s[n] = ByteAt(a + n - 1)
        BY <1>1, <3>1
      <3> QED
        BY <2>1, <2>2, <2>3, <3>2
    <2>4. CASE ~ (n <= b - a)
      <3>1. n - (b - a) \in 1..(c - b) /\ b + (n - (b - a)) - 1 = a + n - 1
        BY <2>4
      <3>2. t[n - (b - a)] = ByteAt(b + (n - (b - a)) - 1)
        BY <1>2, <3>1
      <3> QED
        BY <2>1, <2>2, <2>4, <3>1, <3>2
    <2> QED
      BY <2>3, <2>4
  <1>7. s \o t = u
    BY <1>3, <1>4, <1>5, <1>6, SeqEqual
  <1> QED
    BY <1>7 DEF s, t, u

\* A byte lies in one chunk.
LEMMA ByteInChunk ==
    ASSUME file \in Files, Contiguous, NEW i \in Indices,
           NEW p \in Nat, Chunk(i).offset <= p, p < End(i)
    PROVE  ByteAt(p) = <<i, p - Chunk(i).offset>>
  <1> DEFINE Q(j) == Chunk(j).offset <= p /\ p < End(j)
             k == CHOOSE j \in Indices : Q(j)
  <1>1. ASSUME NEW j \in Indices, Q(j) PROVE j = i
    <2>1. ~ (j < i) /\ ~ (i < j)
      BY <1>1, Apart, Table
    <2> QED
      BY <2>1, Table
  <1>2. Q(i)
    OBVIOUS
  <1>3. ByteAt(p) = <<k, p - Chunk(k).offset>>
    BY DEF ByteAt
  <1> HIDE DEF Q
  <1>4. k = i
    BY <1>1, <1>2
  <1> QED
    BY <1>3, <1>4

LEMMA SliceIsSeq ==
    ASSUME NEW i \in Nat, NEW a \in Nat, NEW b \in Nat, a <= b
    PROVE  Slice(i, a, b) \in Seq(Bytes) /\ Len(Slice(i, a, b)) = b - a
  <1> DEFINE m == b - a
  <1>1. m \in Nat
    OBVIOUS
  <1>2. Slice(i, a, b) = [n \in 1..m |-> <<i, a + n - 1>>]
    BY DEF Slice
  <1> HIDE DEF m
  <1>3. \A n \in 1..m : <<i, a + n - 1>> \in Bytes
    BY <1>1 DEF Bytes
  <1>4. Slice(i, a, b) \in [1..m -> Bytes]
    BY <1>2, <1>3
  <1>5. Slice(i, a, b) \in Seq(Bytes) /\ Len(Slice(i, a, b)) = m
    BY <1>1, <1>4, FunctionIsSeq
  <1> QED
    BY <1>5 DEF m

\* A slice of a chunk is the part of the file that it stands for.
LEMMA SliceIsContent ==
    ASSUME file \in Files, Contiguous, NEW i \in Indices,
           NEW a \in Nat, NEW b \in Nat, a <= b, b <= Chunk(i).size
    PROVE  Slice(i, a, b) = Content(Chunk(i).offset + a, Chunk(i).offset + b)
  <1> DEFINE o == Chunk(i).offset
  <1>1. o \in Nat /\ i \in Nat /\ End(i) = o + Chunk(i).size /\ Chunk(i).size \in Nat
    BY Table DEF End
  <1>2. Slice(i, a, b) = [n \in 1..(b - a) |-> <<i, a + n - 1>>]
    BY DEF Slice
  <1> HIDE DEF o
  <1>3. /\ o + a \in Nat /\ o + b \in Nat /\ o + a <= o + b
        /\ (o + b) - (o + a) = b - a
    BY <1>1
  <1>4. Content(o + a, o + b) = [n \in 1..(b - a) |-> ByteAt((o + a) + n - 1)]
    BY <1>3, ContentIsSeq
  <1>5. ASSUME NEW n \in 1..(b - a) PROVE ByteAt((o + a) + n - 1) = <<i, a + n - 1>>
    <2> DEFINE p == (o + a) + n - 1
    <2>1. p \in Nat /\ o <= p /\ p < End(i) /\ p - o = a + n - 1
      BY <1>1
    <2> HIDE DEF p
    <2>2. ByteAt(p) = <<i, p - o>>
      BY <2>1, ByteInChunk DEF o
    <2> QED
      BY <2>1, <2>2 DEF p
  <1> QED
    BY <1>2, <1>4, <1>5 DEF o

\* The file of a step is that of the next.
LEMMA SameFile ==
    ASSUME file' = file
    PROVE  /\ Indices' = Indices
           /\ \A i : Chunk(i)' = Chunk(i) /\ End(i)' = End(i)
           /\ Contiguous' <=> Contiguous
           /\ \A a, b : Content(a, b)' = Content(a, b)
  <1>1. Indices' = Indices /\ \A i : Chunk(i)' = Chunk(i) /\ End(i)' = End(i)
    BY DEF Indices, Chunk, End
  <1>2. \A p : ByteAt(p)' = ByteAt(p)
    BY DEF ByteAt, Indices, Chunk, End
  <1>3. \A a, b : Content(a, b)' = Content(a, b)
    BY <1>2 DEF Content
  <1>4. Contiguous' <=> Contiguous
    BY DEF Contiguous, Indices, Chunk, End
  <1> QED
    BY <1>1, <1>3, <1>4

-----------------------------------------------------------------------------
(* The inductive invariant. *)

FileInv ==
    /\ file \in Files
    /\ held \in [Indices -> Nat] /\ \A i \in Indices : held[i] <= Chunk(i).size

\* How far into its range a read has come before it looks at chunk i.
Reached(i, offset, end) ==
    IF i = 1 \/ End(i - 1) <= offset THEN offset ELSE Least(end, End(i - 1))

CallType == [by : Callers, offset : Nat, count : Nat, end : Nat,
             next : Nat, out : Seq(Bytes)]

CallInv ==
    call # Idle =>
        /\ call \in CallType
        /\ call.next \in 1..(Len(file.chunks) + 1)
        /\ call.offset <= call.end /\ call.end <= file.size
        /\ call.offset <= file.size
        /\ call.end = Least(call.offset + call.count, file.size)
        /\ Contiguous =>
              call.out = Content(call.offset, Reached(call.next, call.offset, call.end))

\* What was answered.
AnsInv ==
    ans # Idle =>
        /\ ans.offset \in Nat /\ ans.count \in Nat
        /\ ans.eof = Eof(ans.offset, Len(ans.data))
        /\ ans.by = "fuse" => ans.status # "panic"
        /\ Contiguous /\ ans.status = "ok" =>
              ans.data = Content(Least(ans.offset, file.size),
                                 Least(ans.offset + ans.count, file.size))

ReaderInv ==
    /\ pos \in Nat /\ from \in Nat /\ stream \in Seq(Bytes)
    /\ pos = from + Len(stream)
    /\ Contiguous => stream = Content(from, pos)
    /\ (Contiguous /\ \A i \in Indices : held[i] = Chunk(i).size) =>
          /\ last # "panic"
          /\ last = "eof" => pos >= file.size

DepotInv == FileInv /\ CallInv /\ AnsInv /\ ReaderInv

LEMMA ContentOfNone == ASSUME NEW a \in Nat PROVE Content(a, a) = << >>
  <1>1. Content(a, a) \in Seq(FileBytes) /\ Len(Content(a, a)) = 0
    BY ContentIsSeq
  <1> QED
    BY <1>1, EmptySeq

LEMMA DepotInvInit == Init => DepotInv
  <1> SUFFICES ASSUME Init PROVE DepotInv
    OBVIOUS
  <1>1. FileInv
    <2>1. held \in [Indices -> Nat]
      BY DEF Init
    <2> QED
      BY <2>1 DEF Init, FileInv
  <1>2. ReaderInv
    <2>1. pos = 0 /\ from = 0 /\ stream = << >> /\ last = "closed"
      BY DEF Init
    <2>2. stream \in Seq(Bytes) /\ Len(stream) = 0
      BY <2>1, EmptySeq
    <2> QED
      BY <2>1, <2>2, ContentOfNone DEF ReaderInv
  <1> QED
    BY <1>1, <1>2 DEF Init, DepotInv, CallInv, AnsInv

LEMMA FileStep ==
    FileInv /\ [Next]_vars => FileInv' /\ file' = file /\ held' = held
  <1> SUFFICES ASSUME FileInv, [Next]_vars PROVE FileInv' /\ file' = file /\ held' = held
    OBVIOUS
  <1>1. file' = file /\ held' = held
    BY DEF Next, vars, Request, Skip, Finish, Get, GetFails, ReaderRead,
           ReaderReadsNothing, ReaderFails, OpenReader, CloseReader, Seek, SeekTo
  <1> QED
    BY <1>1, SameFile DEF FileInv

-----------------------------------------------------------------------------
(* read_into. *)

\* The sums and differences of a u64 that read_into makes.
LEMMA Wrap ==
    ASSUME NEW x \in Int, -U <= x, x < 2 * U
    PROVE  x % U = IF x < 0 THEN x + U ELSE IF x < U THEN x ELSE x - U
  BY WidthAssumption

\* A range within u64 ends where the file does or before; any other asks for
\* more than memory holds.
LEMMA Ranges ==
    ASSUME file \in Files, NEW offset \in Nat, NEW len \in Nat,
           offset <= file.size, len < U
    PROVE  LET end == RangeEnd(offset, len)
               want == (end - offset) % U
           IN  /\ offset + len < U =>
                     /\ end \in Nat /\ end = Least(offset + len, file.size)
                     /\ offset <= end /\ end <= file.size /\ want <= IsizeMax
               /\ offset + len >= U => want > IsizeMax
  <1> DEFINE end == RangeEnd(offset, len)
  <1>1. /\ U \in Nat /\ U > 1 /\ IsizeMax \in Int /\ 2 * IsizeMax + 2 <= U
        /\ 2 * IsizeMax + 3 >= U
    BY WidthAssumption DEF IsizeMax
  <1>2. file.size \in Nat /\ file.size <= IsizeMax
    BY Table
  <1>3. CASE offset + len < U
    <2>1. (offset + len) % U = offset + len
      BY <1>1, <1>3, Wrap
    <2>2. end = Least(offset + len, file.size)
      BY <2>1 DEF RangeEnd
    <2>3. end \in Nat /\ offset <= end /\ end <= file.size
      BY <1>2, <2>2 DEF Least
    <2> HIDE DEF end
    <2>4. (end - offset) % U = end - offset
      BY <1>1, <1>2, <2>3, Wrap
    <2> QED
      BY <1>1, <1>2, <1>3, <2>2, <2>3, <2>4 DEF end
  <1>4. CASE offset + len >= U
    <2>1. (offset + len) % U = offset + len - U
      BY <1>1, <1>2, <1>4, Wrap
    <2>2. end = offset + len - U
      BY <1>1, <1>2, <1>4, <2>1 DEF RangeEnd, Least
    <2> HIDE DEF end
    <2>3. (end - offset) % U = len
      BY <1>1, <1>2, <1>4, <2>2, Wrap, SMTT(20)
    <2>4. len > IsizeMax
      BY <1>1, <1>2, <1>4
    <2> QED
      BY <1>1, <1>2, <1>4, <2>3, <2>4 DEF end
  <1> QED
    BY <1>1, <1>2, <1>3, <1>4

LEMMA Answers ==
    ASSUME file' = file, NEW c, NEW status, NEW out, Answered(c, status, out),
           c.offset \in Nat, c.count \in Nat,
           c.by = "fuse" => status # "panic",
           (Contiguous /\ status = "ok") =>
               out = Content(Least(c.offset, file.size),
                             Least(c.offset + c.count, file.size))
    PROVE  CallInv' /\ AnsInv'
  <1>1. /\ call' = Idle
        /\ ans' = [by |-> c.by, offset |-> c.offset, count |-> c.count,
                   status |-> Caught(c.by, status), data |-> out,
                   eof |-> Eof(c.offset, Len(out))]
    BY DEF Answered
  <1>2. CallInv'
    BY <1>1 DEF CallInv
  <1>3. /\ Caught(c.by, status) = "ok" => status = "ok"
        /\ c.by = "fuse" => Caught(c.by, status) # "panic"
    BY DEF Caught
  <1>4. /\ ans'.offset = c.offset /\ ans'.count = c.count /\ ans'.by = c.by
        /\ ans'.status = Caught(c.by, status) /\ ans'.data = out
        /\ ans'.eof = Eof(c.offset, Len(out))
    BY <1>1
  <1>5. ans'.eof = Eof(ans.offset, Len(ans.data))'
    BY <1>4 DEF Eof
  <1>6. Contiguous' /\ ans'.status = "ok" =>
            ans'.data = Content(Least(ans.offset, file.size),
                                Least(ans.offset + ans.count, file.size))'
    BY <1>3, <1>4, SameFile
  <1> QED
    BY <1>2, <1>3, <1>4, <1>5, <1>6 DEF AnsInv

\* What a caller asks read_into for is the range that it means, or more than
\* a u64 counts.
LEMMA ReadStarts ==
    ASSUME FileInv, AnsInv, file' = file,
           NEW by \in Callers, NEW offset \in Nat, NEW count \in Nat, NEW len \in Nat,
           len < U,
           offset <= file.size /\ (by = "fuse" \/ offset + len < U) =>
               /\ offset + len < U
               /\ Least(offset + len, file.size) = Least(offset + count, file.size),
           ReadInto(by, offset, count, len)
    PROVE  CallInv' /\ AnsInv'
  <1> DEFINE end == RangeEnd(offset, len)
             want == (end - offset) % U
             c == [by |-> by, offset |-> offset, count |-> count]
             opened == [by |-> by, offset |-> offset, count |-> count,
                        end |-> end, next |-> 1, out |-> << >>]
  <1>1. file.size \in Nat /\ Len(file.chunks) \in Nat
    BY Table DEF FileInv
  <1>2. c.by = by /\ c.offset = offset /\ c.count = count
    OBVIOUS
  <1>3. CASE offset > file.size
    <2>1. Answered(c, "error", << >>)
      BY <1>3 DEF ReadInto
    <2> QED
      BY <1>2, <2>1, Answers
  <1>4. CASE offset <= file.size /\ want > IsizeMax
    <2>1. Answered(c, "panic", << >>)
      BY <1>1, <1>4 DEF ReadInto
    <2>2. by # "fuse"
      <3>1. offset + len < U => want <= IsizeMax
        BY <1>4, Ranges DEF FileInv
      <3>2. want \in Int /\ IsizeMax \in Int
        <4>1. end \in Int
          BY <1>1, WidthAssumption DEF RangeEnd, Least
        <4> HIDE DEF end
        <4> QED
          BY <4>1, WidthAssumption DEF IsizeMax
      <3> HIDE DEF want
      <3> QED
        BY <1>4, <3>1, <3>2
    <2> QED
      BY <1>2, <2>1, <2>2, Answers
  <1>5. CASE offset <= file.size /\ ~ (want > IsizeMax)
    <2>1. offset + len < U
      BY <1>5, Ranges, WidthAssumption DEF FileInv
    <2>2. /\ end \in Nat /\ end = Least(offset + count, file.size)
          /\ offset <= end /\ end <= file.size
      BY <1>5, <2>1, Ranges DEF FileInv
    <2>3. call' = opened /\ ans' = ans
      BY <1>1, <1>5 DEF ReadInto
    <2> HIDE DEF end
    <2>4. /\ call'.by = by /\ call'.offset = offset /\ call'.count = count
          /\ call'.end = end /\ call'.next = 1 /\ call'.out = << >>
      BY <2>3
    <2>5. call' \in CallType
      <3>1. << >> \in Seq(Bytes)
        BY EmptySeq
      <3> QED
        BY <2>2, <2>3, <3>1 DEF CallType
    <2>6. Content(call.offset, Reached(call.next, call.offset, call.end))' = << >>
      <3>1. Reached(call.next, call.offset, call.end)' = offset
        BY <2>4 DEF Reached
      <3>2. Content(offset, offset)' = << >>
        BY ContentOfNone, SameFile
      <3> QED
        BY <2>4, <3>1, <3>2 DEF Content
    <2>7. CallInv'
      BY <1>1, <1>5, <2>2, <2>4, <2>5, <2>6 DEF CallInv
    <2>8. AnsInv'
      BY <2>3, SameFile DEF AnsInv, Eof
    <2> QED
      BY <2>7, <2>8
  <1> QED
    BY <1>1, <1>3, <1>4, <1>5

LEMMA RequestStep == FileInv /\ AnsInv /\ Request => CallInv' /\ AnsInv'
  <1> SUFFICES ASSUME FileInv, AnsInv, Request PROVE CallInv' /\ AnsInv'
    OBVIOUS
  <1>1. /\ file' = file /\ file \in Files /\ file.size \in Nat /\ file.size < U
        /\ U \in Nat /\ \A n \in Counts : n \in Nat /\ file.size + n < U
    BY Table, WidthAssumption DEF Request, FileInv, IsizeMax
  <1>2. ASSUME NEW offset \in 0..(U - 1), NEW count \in Counts, FuseRead(offset, count)
        PROVE  CallInv' /\ AnsInv'
    <2>1. /\ offset \in Nat /\ count \in Nat /\ count < U
          /\ offset <= file.size => offset + count < U
      BY <1>1
    <2> QED
      BY <1>1, <1>2, <2>1, ReadStarts DEF FuseRead, Callers
  <1>3. ASSUME NEW by \in {"nfs", "projfs"},
               NEW offset \in 0..(U - 1), NEW count \in Counts,
               ClampingRead(by, offset, count)
        PROVE  CallInv' /\ AnsInv'
    <2> DEFINE c == [by |-> by, offset |-> offset, count |-> count]
               len == Clamped(offset, count)
    <2>1. /\ offset \in Nat /\ count \in Nat
          /\ c.by = by /\ c.offset = offset /\ c.count = count
      BY <1>1
    <2>2. CASE PastEnd(offset)
      <3>1. Answered(c, "ok", << >>)
        BY <1>3, <2>2 DEF ClampingRead
      <3>2. /\ Least(offset, file.size) = file.size
            /\ Least(offset + count, file.size) = file.size
        BY <1>1, <2>1, <2>2 DEF PastEnd, Least
      <3>3. << >> = Content(Least(c.offset, file.size),
                            Least(c.offset + c.count, file.size))
        BY <1>1, <2>1, <3>2, ContentOfNone
      <3> HIDE DEF c
      <3> QED
        BY <1>1, <2>1, <3>1, <3>3, Answers
    <2>3. CASE ~ PastEnd(offset)
      <3>1. ReadInto(by, offset, count, len)
        BY <1>3, <2>3 DEF ClampingRead
      <3>2. /\ len \in Nat /\ len < U /\ offset + len < U
            /\ Least(offset + len, file.size) = Least(offset + count, file.size)
        BY <1>1, <2>1, <2>3 DEF PastEnd, Clamped, Least
      <3> HIDE DEF len
      <3> QED
        BY <1>1, <2>1, <3>1, <3>2, ReadStarts DEF Callers
    <2> QED
      BY <2>2, <2>3
  <1>4. ASSUME ReadFull PROVE CallInv' /\ AnsInv'
    <2>1. 0 + file.size < U
      BY <1>1
    <2> QED
      BY <1>1, <1>4, <2>1, ReadStarts DEF ReadFull, Callers
  <1>5. ASSUME NEW offset \in 0..(U - 1), NEW len \in 0..(U - 1), Read(offset, len)
        PROVE  CallInv' /\ AnsInv'
    <2>1. offset \in Nat /\ len \in Nat /\ len < U
      BY <1>1
    <2> QED
      BY <1>1, <1>5, <2>1, ReadStarts DEF Read, Callers
  <1>6. \/ \E offset \in 0..(U - 1), count \in Counts :
             \/ FuseRead(offset, count)
             \/ NfsRead(offset, count)
             \/ ProjFsRead(offset, count)
        \/ ReadFull
        \/ \E offset, len \in 0..(U - 1) : Read(offset, len)
    BY Zenon DEF Request
  <1> QED
    BY <1>2, <1>3, <1>4, <1>5, <1>6 DEF NfsRead, ProjFsRead

\* Where a read stands: behind the chunks it skips, at the end of its range
\* when it stops, and at either end of the part of a chunk that it takes.
LEMMA ReachedBefore ==
    ASSUME file \in Files, Contiguous, NEW i \in Indices,
           NEW offset \in Nat, NEW end \in Nat, End(i) <= offset
    PROVE  Reached(i, offset, end) = offset /\ Reached(i + 1, offset, end) = offset
  <1>1. i \in Nat /\ (i + 1) - 1 = i
    BY Table
  <1>2. i = 1 \/ End(i - 1) <= offset
    <2>1. i # 1 => Chunk(i).offset = End(i - 1)
      BY DEF Contiguous
    <2> QED
      BY <2>1, Table
  <1>3. Reached(i + 1, offset, end) = offset
    BY <1>1 DEF Reached
  <1> QED
    BY <1>2, <1>3 DEF Reached

LEMMA ReachedEnd ==
    ASSUME file \in Files, Contiguous, NEW i \in 1..(Len(file.chunks) + 1),
           NEW offset \in Nat, NEW end \in Nat, offset <= end, end <= file.size,
           i \in Indices => Chunk(i).offset >= end
    PROVE  Reached(i, offset, end) = end
  <1>1. Len(file.chunks) \in Nat /\ file.size \in Nat
    BY Table
  <1>2. CASE i \in Indices
    <2>1. Chunk(i).offset = IF i = 1 THEN 0 ELSE End(i - 1)
      BY <1>2 DEF Contiguous
    <2>2. CASE i = 1
      BY <1>2, <2>1, <2>2 DEF Reached
    <2>3. CASE i # 1
      <3>1. End(i - 1) = Chunk(i).offset /\ End(i - 1) \in Nat /\ End(i - 1) >= end
        BY <1>2, <2>1, <2>3, Table
      <3> QED
        BY <2>3, <3>1 DEF Reached, Least
    <2> QED
      BY <2>2, <2>3
  <1>3. CASE i \notin Indices
    <2>1. i = Len(file.chunks) + 1
      BY <1>1, <1>3 DEF Indices
    <2>2. CASE file.chunks = << >>
      <3>1. i = 1 /\ end = 0 /\ offset = 0
        BY <1>1, <2>1, <2>2 DEF Contiguous
      <3> QED
        BY <3>1 DEF Reached
    <2>3. CASE file.chunks # << >>
      <3>1. i - 1 \in Indices /\ i # 1
        <4>1. Len(file.chunks) # 0
          BY <2>3, EmptySeq, WidthAssumption
        <4> QED
          BY <1>1, <2>1, <4>1 DEF Indices
      <3>2. End(i - 1) = file.size
        BY <1>1, <2>1, <2>3 DEF Contiguous
      <3> QED
        BY <1>1, <3>1, <3>2 DEF Reached, Least
    <2> QED
      BY <2>2, <2>3
  <1> QED
    BY <1>2, <1>3

\* The part of chunk i that lies in the range.
FromByte(i, offset) == Monus(offset, Chunk(i).offset)
ToByte(i, end) == Least(end, End(i)) - Chunk(i).offset

LEMMA ReachedWithin ==
    ASSUME file \in Files, NEW i \in Indices,
           NEW offset \in Nat, NEW end \in Nat, offset <= end,
           offset < End(i), Chunk(i).offset < end
    PROVE  LET a == FromByte(i, offset)
               b == ToByte(i, end)
               o == Chunk(i).offset
           IN  /\ a \in Nat /\ b \in Nat /\ a <= b /\ b <= Chunk(i).size
               /\ offset <= o + a
               /\ Contiguous => /\ Reached(i, offset, end) = o + a
                                /\ Reached(i + 1, offset, end) = o + b
  <1> DEFINE a == FromByte(i, offset)
             b == ToByte(i, end)
             o == Chunk(i).offset
  <1>1. /\ o \in Nat /\ Chunk(i).size \in Nat /\ End(i) = o + Chunk(i).size
        /\ i \in Nat /\ i >= 1
    BY Table DEF End
  <1>2. a = (IF offset < o THEN 0 ELSE offset - o) /\ b = Least(end, End(i)) - o
    BY DEF FromByte, ToByte, Monus
  <1> HIDE DEF a, b, o
  <1>3. a \in Nat /\ b \in Nat /\ a <= b /\ b <= Chunk(i).size /\ offset <= o + a
    BY <1>1, <1>2 DEF o, Least
  <1>4. ASSUME Contiguous PROVE Reached(i, offset, end) = o + a
    <2>1. o = IF i = 1 THEN 0 ELSE End(i - 1)
      BY <1>4 DEF o, Contiguous
    <2>2. CASE i = 1
      BY <1>1, <1>2, <2>1, <2>2 DEF Reached
    <2>3. CASE i # 1
      <3>1. End(i - 1) = o
        BY <2>1, <2>3
      <3> QED
        BY <1>1, <1>2, <2>3, <3>1 DEF Reached, Least, o
    <2> QED
      BY <2>2, <2>3
  <1>5. Reached(i + 1, offset, end) = o + b
    <2>1. (i + 1) - 1 = i /\ i + 1 # 1 /\ ~ (End(i) <= offset)
      BY <1>1
    <2>2. Reached(i + 1, offset, end) = Least(end, End(i))
      BY <2>1 DEF Reached
    <2> QED
      BY <1>1, <1>2, <2>2 DEF Least
  <1> QED
    BY <1>3, <1>4, <1>5 DEF a, b, o

LEMMA SameCall == CallInv /\ file' = file /\ call' = call => CallInv'
  <1> SUFFICES ASSUME CallInv, file' = file, call' = call, call # Idle PROVE CallInv'
    BY DEF CallInv
  <1>1. Reached(call.next, call.offset, call.end)'
            = Reached(call.next, call.offset, call.end)
    BY SameFile DEF Reached, Least
  <1>2. Content(call.offset, Reached(call.next, call.offset, call.end))'
            = Content(call.offset, Reached(call.next, call.offset, call.end))
    BY <1>1, SameFile
  <1> QED
    BY <1>2, SameFile DEF CallInv, Least

LEMMA SameAnswer == AnsInv /\ file' = file /\ ans' = ans => AnsInv'
  <1> SUFFICES ASSUME AnsInv, file' = file, ans' = ans PROVE AnsInv'
    OBVIOUS
  <1>1. Content(Least(ans.offset, file.size), Least(ans.offset + ans.count, file.size))'
            = Content(Least(ans.offset, file.size), Least(ans.offset + ans.count, file.size))
    BY SameFile DEF Least
  <1> QED
    BY <1>1, SameFile DEF AnsInv, Eof

LEMMA CallGoesOn ==
    ASSUME file' = file, CallInv, AnsInv, call # Idle, ans' = ans,
           NEW out \in Seq(Bytes), call.next \in Indices, file \in Files,
           call' = [call EXCEPT !.next = @ + 1, !.out = out],
           Contiguous => out = Content(call.offset,
                                       Reached(call.next + 1, call.offset, call.end))
    PROVE  CallInv' /\ AnsInv'
  <1>1. call \in CallType
    BY DEF CallInv
  <1>2. /\ call' \in CallType /\ call'.next = call.next + 1 /\ call'.out = out
        /\ call'.offset = call.offset /\ call'.count = call.count /\ call'.end = call.end
    <2>1. call.next \in Nat /\ call.next + 1 \in Nat
      BY <1>1 DEF CallType
    <2>2. call' \in CallType
      BY <1>1, <2>1 DEF CallType
    <2> QED
      BY <1>1, <2>2 DEF CallType
  <1>3. call'.next \in 1..(Len(file.chunks) + 1)
    BY <1>2, Table DEF Indices
  <1>4. Content(call.offset, Reached(call.next, call.offset, call.end))'
            = Content(call.offset, Reached(call.next + 1, call.offset, call.end))
    <2>1. Reached(call.next, call.offset, call.end)'
            = Reached(call.next + 1, call.offset, call.end)
      BY <1>2, SameFile DEF Reached, Least
    <2>2. \A a, b : Content(a, b)' = Content(a, b)
      BY SameFile
    <2> QED
      BY <1>2, <2>1, <2>2 DEF Content
  <1>5. Contiguous' <=> Contiguous
    BY SameFile
  <1>6. CallInv'
    BY <1>2, <1>3, <1>4, <1>5 DEF CallInv
  <1>7. AnsInv'
    BY SameFile DEF AnsInv, Eof
  <1> QED
    BY <1>6, <1>7

LEMMA LoopStep ==
    ASSUME FileInv, CallInv, AnsInv, Skip \/ Finish \/ Get \/ GetFails
    PROVE  CallInv' /\ AnsInv'
  <1>1. /\ file' = file /\ file \in Files /\ call # Idle
        /\ held \in [Indices -> Nat]
    BY DEF FileInv, Skip, Finish, Get, GetFails
  <1>2. /\ call \in CallType /\ call.offset \in Nat /\ call.end \in Nat
        /\ call.count \in Nat /\ call.out \in Seq(Bytes)
        /\ call.next \in 1..(Len(file.chunks) + 1)
        /\ call.offset <= call.end /\ call.end <= file.size /\ call.offset <= file.size
        /\ call.end = Least(call.offset + call.count, file.size)
        /\ Contiguous =>
              call.out = Content(call.offset, Reached(call.next, call.offset, call.end))
    BY <1>1 DEF CallInv, CallType
  <1>3. ASSUME Skip PROVE CallInv' /\ AnsInv'
    <2>1. /\ call.next \in Indices /\ End(call.next) <= call.offset
          /\ call' = [call EXCEPT !.next = @ + 1] /\ ans' = ans
      BY <1>3 DEF Skip, Before
    <2>2. call' = [call EXCEPT !.next = @ + 1, !.out = call.out]
      BY <1>2, <2>1 DEF CallType
    <2>3. Contiguous => call.out = Content(call.offset,
                                     Reached(call.next + 1, call.offset, call.end))
      BY <1>1, <1>2, <2>1, ReachedBefore
    <2> QED
      BY <1>1, <1>2, <2>1, <2>2, <2>3, CallGoesOn
  <1>4. ASSUME Finish PROVE CallInv' /\ AnsInv'
    <2>1. /\ Answered(call, "ok", call.out)
          /\ call.next \in Indices => Chunk(call.next).offset >= call.end
      BY <1>4 DEF Finish, BehindRange
    <2>2. Contiguous => Reached(call.next, call.offset, call.end) = call.end
      BY <1>1, <1>2, <2>1, ReachedEnd
    <2>3. Least(call.offset, file.size) = call.offset
      BY <1>1, <1>2, Table DEF Least
    <2>4. Contiguous => call.out = Content(Least(call.offset, file.size),
                                           Least(call.offset + call.count, file.size))
      BY <1>2, <2>2, <2>3
    <2> QED
      BY <1>1, <1>2, <2>1, <2>4, Answers
  <1>5. ASSUME GetFails PROVE CallInv' /\ AnsInv'
    BY <1>1, <1>2, <1>5, Answers DEF GetFails
  <1>6. ASSUME Get PROVE CallInv' /\ AnsInv'
    <2> DEFINE i == call.next
               a == FromByte(i, call.offset)
               b == ToByte(i, call.end)
               o == Chunk(i).offset
    <2>1. /\ i \in Indices /\ call.offset < End(i) /\ o < call.end
          /\ i \in Nat /\ o \in Nat
      <3>1. i \in Indices
        BY <1>6 DEF Get, InRange, BehindRange
      <3> QED
        BY <1>1, <1>2, <1>6, <3>1, Table DEF Get, InRange, BehindRange, Before
    <2>2. /\ a \in Nat /\ b \in Nat /\ a <= b /\ b <= Chunk(i).size
          /\ call.offset <= o + a
          /\ Contiguous => /\ Reached(i, call.offset, call.end) = o + a
                           /\ Reached(i + 1, call.offset, call.end) = o + b
      BY <1>1, <1>2, <2>1, ReachedWithin
    <2>3. Take(i)
      BY <1>6 DEF Get
    <2> HIDE DEF i, a, b, o
    <2>4. CASE TooShort(i, b)
      <3>1. Answered(call, "error", << >>)
        BY <2>3, <2>4 DEF Take, SliceStart, FromByte, ToByte, a, b, i
      <3> QED
        BY <1>1, <1>2, <3>1, Answers
    <2>5. CASE ~ TooShort(i, b)
      <3>1. ~ (a > b \/ b > held[i])
        BY <1>1, <2>1, <2>2, <2>5 DEF TooShort
      <3>2. /\ call' = [call EXCEPT !.next = @ + 1, !.out = @ \o Slice(i, a, b)]
            /\ ans' = ans
        BY <2>3, <2>5, <3>1 DEF Take, SliceStart, FromByte, ToByte, a, b, i
      <3> DEFINE out == call.out \o Slice(i, a, b)
      <3>3. out \in Seq(Bytes)
        BY <1>2, <2>1, <2>2, SliceIsSeq, ConcatProperties
      <3>4. call' = [call EXCEPT !.next = @ + 1, !.out = out]
        BY <1>2, <3>2 DEF CallType
      <3>5. ASSUME Contiguous
            PROVE  out = Content(call.offset,
                                 Reached(call.next + 1, call.offset, call.end))
        <4>1. call.out = Content(call.offset, o + a)
          BY <1>2, <2>2, <3>5 DEF i
        <4>2. Slice(i, a, b) = Content(o + a, o + b)
          BY <1>1, <2>1, <2>2, <3>5, SliceIsContent DEF o
        <4>3. o + a \in Nat /\ o + b \in Nat /\ o + a <= o + b
          BY <2>1, <2>2
        <4>4. out = Content(call.offset, o + b)
          <5> DEFINE p == o + a
                     q == o + b
          <5>1. p \in Nat /\ q \in Nat /\ p <= q /\ call.offset <= p
            BY <2>2, <4>3
          <5> HIDE DEF p, q
          <5>2. Content(call.offset, p) \o Content(p, q) = Content(call.offset, q)
            BY <1>2, <5>1, ContentJoins
          <5> QED
            BY <4>1, <4>2, <5>2 DEF p, q
        <4> QED
          BY <2>2, <3>5, <4>4 DEF i
      <3> HIDE DEF out
      <3>6. call.next \in Indices
        BY <2>1 DEF i
      <3> QED
        BY <1>1, <3>2, <3>3, <3>4, <3>5, <3>6, CallGoesOn
    <2> QED
      BY <2>4, <2>5
  <1> QED
    BY <1>3, <1>4, <1>5, <1>6

-----------------------------------------------------------------------------
(* The reader. *)

Whole == \A i \in Indices : held[i] = Chunk(i).size

LEMMA ReaderReadStep ==
    ASSUME FileInv, ReaderInv, NEW n \in Counts, ReaderRead(n)
    PROVE  ReaderInv'
  <1> DEFINE i == ChunkAt
             o == Chunk(i).offset
             off == pos - o
             copied == Least(Available(i, off), n)
  <1>1. /\ file' = file /\ held' = held /\ from' = from /\ file \in Files
        /\ pos \in Nat /\ from \in Nat /\ stream \in Seq(Bytes)
        /\ pos = from + Len(stream)
        /\ n \in Nat /\ n > 0 /\ file.size \in Nat
    BY Table DEF FileInv, ReaderInv, ReaderRead
  <1>2. /\ i \in Indices /\ i \in Nat /\ o \in Nat /\ o <= pos
        /\ pos < o + Chunk(i).size /\ Chunk(i).size \in Nat
    <2>1. i # 0 /\ pos < End(i) /\ i \in 0..Len(file.chunks)
          /\ \A k \in Indices : Chunk(k).offset <= pos <=> k <= i
      BY <1>1, PartitionPoint DEF ReaderRead, Covered
    <2>2. i \in Indices
      BY <1>1, <2>1, Table DEF Indices
    <2> QED
      BY <1>1, <2>1, <2>2, Table DEF End
  <1>3. held[i] \in Nat /\ held[i] <= Chunk(i).size
    BY <1>2 DEF FileInv
  <1>4. off \in Nat /\ off < Chunk(i).size
    BY <1>1, <1>2
  <1>5. IF off > held[i] THEN last' = "panic" /\ pos' = pos /\ stream' = stream
        ELSE /\ last' = IF copied = 0 THEN "eof" ELSE "bytes"
             /\ pos' = pos + copied
             /\ stream' = stream \o Slice(i, off, off + copied)
    BY DEF ReaderRead, IsCached
  <1> HIDE DEF i, o
  <1>6. CASE off > held[i]
    <2>1. ~ Whole
      BY <1>2, <1>3, <1>4, <1>6 DEF Whole
    <2> QED
      BY <1>1, <1>5, <1>6, <2>1, SameFile DEF ReaderInv, Whole
  <1>7. CASE ~ (off > held[i])
    <2>1. /\ copied \in Nat /\ off + copied <= held[i]
          /\ off < held[i] => copied # 0
      <3>1. Available(i, off) = held[i] - off /\ held[i] - off \in Nat
        <4> HIDE DEF off
        <4> QED
          BY <1>3, <1>4, <1>7 DEF Available, Monus
      <3>2. copied = IF held[i] - off < n THEN held[i] - off ELSE n
        BY <3>1 DEF Least
      <3> HIDE DEF off, copied
      <3> QED
        BY <1>1, <1>3, <1>4, <3>1, <3>2
    <2>2. /\ last' = IF copied = 0 THEN "eof" ELSE "bytes"
          /\ pos' = pos + copied
          /\ stream' = stream \o Slice(i, off, off + copied)
      BY <1>5, <1>7
    <2> HIDE DEF off, copied
    <2>3. /\ off + copied \in Nat /\ off <= off + copied
          /\ (off + copied) - off = copied
          /\ off + copied <= Chunk(i).size
      BY <1>2, <1>3, <1>4, <2>1
    <2>4. /\ Slice(i, off, off + copied) \in Seq(Bytes)
          /\ Len(Slice(i, off, off + copied)) = copied
      BY <1>2, <1>4, <2>3, SliceIsSeq
    <2>5. stream' \in Seq(Bytes) /\ Len(stream') = Len(stream) + copied
      BY <1>1, <2>2, <2>4, ConcatProperties
    <2>6. pos' \in Nat /\ pos' = from + Len(stream') /\ pos' >= pos
      <3>1. Len(stream) \in Nat
        BY <1>1, LenProperties
      <3> QED
        <4>1. pos' = pos + copied /\ Len(stream') = Len(stream) + copied
          BY <2>2, <2>5
        <4>2. pos \in Nat /\ from \in Nat /\ copied \in Nat /\ pos = from + Len(stream)
          BY <1>1, <2>1
        <4> QED
          BY <3>1, <4>1, <4>2
    <2>7. ASSUME Contiguous PROVE stream' = Content(from, pos')
      <3>1. Slice(i, off, off + copied) = Content(o + off, o + (off + copied))
        BY <1>1, <1>2, <1>4, <2>3, <2>7, SliceIsContent DEF o
      <3>2. o + off = pos /\ o + (off + copied) = pos'
        BY <1>1, <1>2, <2>1, <2>2 DEF off
      <3>3. stream = Content(from, pos) /\ from <= pos
        <4>1. Len(stream) \in Nat
          BY <1>1, LenProperties
        <4> QED
          BY <1>1, <2>7, <4>1 DEF ReaderInv
      <3> QED
        <4>1. Content(from, pos) \o Content(pos, pos') = Content(from, pos')
          BY <1>1, <2>6, <3>3, ContentJoins
        <4> QED
          BY <2>2, <3>1, <3>2, <3>3, <4>1
    <2>8. ASSUME Whole PROVE last' # "panic" /\ last' # "eof"
      <3>1. held[i] = Chunk(i).size
        BY <1>2, <2>8 DEF Whole
      <3> QED
        BY <1>3, <1>4, <2>1, <2>2, <3>1
    <2>9. Contiguous' => stream' = Content(from, pos)'
      <3>1. Content(from, pos)' = Content(from, pos')
        BY <1>1, SameFile DEF Content
      <3> QED
        BY <1>1, <2>7, <3>1, SameFile
    <2> QED
      BY <1>1, <2>5, <2>6, <2>8, <2>9, SameFile DEF ReaderInv, Whole
  <1> QED
    BY <1>6, <1>7

LEMMA AddNone == \A n \in Nat : n + 0 = n
  OBVIOUS

\* A reader that is put somewhere starts over.
LEMMA ReaderPut ==
    ASSUME file' = file, held' = held, pos' \in Nat, from' = pos', stream' = << >>,
           last' \in {"none", "closed"}
    PROVE  ReaderInv'
  <1>1. stream' \in Seq(Bytes) /\ Len(stream') = 0
    BY EmptySeq
  <1>2. Content(from, pos)' = << >>
    <2>1. Content(pos', pos') = << >>
      BY ContentOfNone
    <2> QED
      BY <2>1, SameFile
  <1>3. /\ pos' \in Nat /\ from' \in Nat /\ pos' = from' + 0
        /\ last' # "panic" /\ last' # "eof" /\ stream' = Content(from, pos)'
    BY <1>2, AddNone
  <1> QED
    BY <1>1, <1>3 DEF ReaderInv

LEMMA ReaderStep == FileInv /\ ReaderInv /\ [Next]_vars => ReaderInv'
  <1> SUFFICES ASSUME FileInv, ReaderInv, [Next]_vars PROVE ReaderInv'
    OBVIOUS
  <1>1. file' = file /\ held' = held /\ file \in Files /\ file.size \in Nat
    BY FileStep, Table DEF FileInv
  <1>2. ASSUME UNCHANGED readerVars PROVE ReaderInv'
    BY <1>1, <1>2, SameFile DEF ReaderInv, readerVars, Content
  <1>3. ASSUME Request \/ Skip \/ Finish \/ Get \/ GetFails \/ UNCHANGED vars
        PROVE  ReaderInv'
    BY <1>2, <1>3 DEF Request, Skip, Finish, Get, GetFails, vars
  <1>4. ASSUME ReaderReadsNothing PROVE ReaderInv'
    <2>1. /\ pos' = pos /\ from' = from /\ stream' = stream
          /\ last' = "eof" /\ pos >= file.size
      BY <1>4 DEF ReaderReadsNothing
    <2>2. Content(from, pos)' = Content(from, pos)
      BY <1>1, <2>1, SameFile
    <2> QED
      BY <1>1, <2>1, <2>2, SameFile DEF ReaderInv
  <1>5. ASSUME ReaderFails PROVE ReaderInv'
    <2>1. /\ pos' = pos /\ from' = from /\ stream' = stream /\ last' = "error"
      BY <1>5 DEF ReaderFails
    <2>2. Content(from, pos)' = Content(from, pos)
      BY <1>1, <2>1, SameFile
    <2> QED
      BY <1>1, <2>1, <2>2, SameFile DEF ReaderInv
  <1>6. ASSUME OpenReader \/ CloseReader PROVE ReaderInv'
    BY <1>1, <1>6, ReaderPut DEF OpenReader, CloseReader, Reset
  <1>7. ASSUME NEW base \in Nat, NEW n \in Int, SeekTo(base, n) PROVE ReaderInv'
    <2>1. (base + n) % U \in Nat
      BY <1>7, WidthAssumption DEF SeekTo
    <2> QED
      BY <1>1, <1>7, <2>1, ReaderPut DEF SeekTo
  <1>8. ASSUME Seek PROVE ReaderInv'
    <2>1. pos \in Nat /\ U \in Nat /\ U \div 2 \in Int /\ IsizeMax \in Int
      BY WidthAssumption DEF ReaderInv, IsizeMax
    <2> QED
      BY <1>1, <1>7, <1>8, <2>1 DEF Seek
  <1> QED
    BY <1>3, <1>4, <1>5, <1>6, <1>8, ReaderReadStep DEF Next

-----------------------------------------------------------------------------

LEMMA DepotInvAlways == Spec => []DepotInv
  <1>1. DepotInv /\ [Next]_vars => DepotInv'
    <2> SUFFICES ASSUME DepotInv, [Next]_vars PROVE DepotInv'
      OBVIOUS
    <2>1. FileInv /\ CallInv /\ AnsInv /\ ReaderInv
      BY DEF DepotInv
    <2>2. FileInv' /\ file' = file
      BY <2>1, FileStep
    <2>3. ReaderInv'
      BY <2>1, ReaderStep
    <2>4. ASSUME UNCHANGED call, UNCHANGED ans \/ ans' = Idle PROVE CallInv' /\ AnsInv'
      <3>1. CallInv'
        BY <2>1, <2>2, <2>4, SameCall
      <3>2. AnsInv'
        BY <2>1, <2>2, <2>4, SameAnswer DEF AnsInv
      <3> QED
        BY <3>1, <3>2
    <2>5. CallInv' /\ AnsInv'
      BY <2>1, <2>4, RequestStep, LoopStep
      DEF Next, ReaderRead, ReaderReadsNothing, ReaderFails, OpenReader, CloseReader,
          Seek, SeekTo, vars, callVars
    <2> QED
      BY <2>2, <2>3, <2>5 DEF DepotInv
  <1> QED
    BY <1>1, DepotInvInit, PTL DEF Spec

\* What a read gives is the part of its range that lies in the file, and a
\* FUSE read is always answered, for every file, width, range and shortage.
THEOREM ReadsAreRight == Spec => [](ReadsTheRange /\ FuseReadsDoNotPanic)
  <1>1. DepotInv => ReadsTheRange /\ FuseReadsDoNotPanic
    BY DEF DepotInv, AnsInv, ReadsTheRange, FuseReadsDoNotPanic
  <1> QED
    BY <1>1, DepotInvAlways, PTL

\* The end-of-file flag of an NFS reply.
THEOREM NfsToldTheEnd == Spec => []EofIsTheEnd
  <1>1. DepotInv => EofIsTheEnd
    <2> SUFFICES ASSUME DepotInv, ans # Idle, Contiguous, ans.status = "ok"
                 PROVE  ans.eof <=> ans.offset + ans.count >= file.size
      BY DEF EofIsTheEnd
    <2> DEFINE a == Least(ans.offset, file.size)
               b == Least(ans.offset + ans.count, file.size)
    <2>1. /\ ans.offset \in Nat /\ ans.count \in Nat
          /\ ans.eof = Eof(ans.offset, Len(ans.data))
          /\ ans.data = Content(a, b) /\ file.size \in Nat
      BY Table DEF DepotInv, AnsInv, FileInv
    <2>2. a \in Nat /\ b \in Nat /\ a <= b
      BY <2>1 DEF Least
    <2>3. Len(ans.data) = b - a
      BY <2>1, <2>2, ContentIsSeq
    <2>4. /\ a = IF ans.offset < file.size THEN ans.offset ELSE file.size
          /\ b = IF ans.offset + ans.count < file.size THEN ans.offset + ans.count
                 ELSE file.size
      BY DEF Least
    <2>5. ans.eof = (ans.offset + Len(ans.data) >= file.size)
      BY <2>1 DEF Eof
    <2> HIDE DEF a, b
    <2>6. ans.offset + (b - a) >= file.size <=> ans.offset + ans.count >= file.size
      <3> DEFINE o == ans.offset
                 n == ans.count
                 z == file.size
      <3>1. /\ o \in Nat /\ n \in Nat /\ z \in Nat
            /\ a = (IF o < z THEN o ELSE z) /\ b = (IF o + n < z THEN o + n ELSE z)
        BY <2>1, <2>4
      <3> HIDE DEF o, n, z
      <3>2. o + (b - a) >= z <=> o + n >= z
        BY <3>1
      <3> QED
        BY <3>2 DEF o, n, z
    <2> QED
      BY <2>3, <2>5, <2>6
  <1> QED
    BY <1>1, DepotInvAlways, PTL

\* What a seeking reader gives is the file from where it was put, and the end
\* it reports over whole chunks is the end of the file.
THEOREM ReaderGivesTheFile == Spec => [](StreamIsTheFile /\ ReaderEndsAtTheEnd)
  <1>1. DepotInv => StreamIsTheFile /\ ReaderEndsAtTheEnd
    BY DEF DepotInv, ReaderInv, StreamIsTheFile, ReaderEndsAtTheEnd
  <1> QED
    BY <1>1, DepotInvAlways, PTL
=============================================================================
