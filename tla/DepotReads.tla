----------------------------- MODULE DepotReads -----------------------------
(***************************************************************************)
(* Reads of one depot file (fs.rs): read_into, which walks the chunk       *)
(* table and asks the store for a chunk at a time, as the FUSE, NFS and    *)
(* ProjFS back ends, read_full and users of the library call it, and the   *)
(* seeking DepotFileReader with its one cached chunk.                      *)
(*                                                                         *)
(* The byte k of chunk i is <<i, k>>; lengths and offsets are of a u64     *)
(* with U values.  The store may hand out fewer bytes of a chunk than the  *)
(* manifest says: `held` is how many it has.                               *)
(***************************************************************************)
EXTENDS Integers, Sequences

CONSTANTS U,       \* values of a u64
          Files,   \* what manifests say of a file: its size and chunk table
          Counts,  \* bytes a kernel client or a reader asks for
          Short,   \* by how much a chunk may come short
          Idle

Callers == {"fuse", "nfs", "projfs", "read_full", "api"}
IsizeMax == U \div 2 - 1

ASSUME WidthAssumption ==
    /\ U \in Nat /\ U > 1 /\ Counts \subseteq Nat /\ Short \subseteq Nat
    /\ \A f \in Files :
          /\ f.size \in 0..IsizeMax
          /\ \A n \in Counts : f.size + n < U
          /\ f.chunks \in Seq([offset : Nat, size : Nat \ {0}])
          /\ \A i \in 2..Len(f.chunks) : f.chunks[i - 1].offset <= f.chunks[i].offset

VARIABLES file,         \* the file read
          held,         \* bytes the store has of each chunk
          call,         \* the read_into that runs, or Idle
          ans,          \* how the last call of read_into ended
          pos, cached,  \* DepotFileReader: its position and cached chunk
          last,         \* how its last read ended
          from, stream  \* where it was put last, and what it gave since

callVars == <<call, ans>>
readerVars == <<pos, cached, last, from, stream>>
vars == <<file, held, callVars, readerVars>>

Chunk(i) == file.chunks[i]
End(i) == Chunk(i).offset + Chunk(i).size
Indices == 1..Len(file.chunks)

Least(a, b) == IF a < b THEN a ELSE b
Monus(a, b) == IF a < b THEN 0 ELSE a - b

Init ==
    /\ file \in Files
    /\ held \in {h \in [Indices -> Nat \cap UNION {{Chunk(i).size - s : s \in Short} : i \in Indices}] :
                    \A i \in Indices : h[i] <= Chunk(i).size}
    /\ call = Idle
    /\ ans = Idle
    /\ pos = 0 /\ cached = Idle /\ last = "closed"
    /\ from = 0 /\ stream = << >>

-----------------------------------------------------------------------------

\* Bytes a..b-1 of a chunk.
Slice(i, a, b) == [n \in 1..(b - a) |-> <<i, a + n - 1>>]

\* The NFS and ProjFS back ends turn a panic into an error.
Caught(by, status) ==
    IF status = "panic" /\ by \in {"nfs", "projfs"} THEN "error" ELSE status

\* Mutant: a read that ends at the end of the file leaves more to come.
EofLate(offset, n) == offset + n > file.size

Eof(offset, n) == offset + n >= file.size

\* A call ends; the caller is told how, and the bytes.
Answered(c, status, out) ==
    /\ call' = Idle
    /\ ans' = [by |-> c.by, offset |-> c.offset, count |-> c.count,
               status |-> Caught(c.by, status), data |-> out,
               eof |-> Eof(c.offset, Len(out))]

RangeEnd(offset, len) == Least((offset + len) % U, file.size)

\* read_into: the part before its loop.  A sum beyond u64 panics in a debug
\* build; in a release build the wrapped length is more than a Vec can
\* reserve, which panics too.
ReadInto(by, offset, count, len) ==
    LET c == [by |-> by, offset |-> offset, count |-> count]
        end == RangeEnd(offset, len)
        want == (end - offset) % U
    IN  IF offset > file.size THEN Answered(c, "error", << >>)
        ELSE IF want > IsizeMax THEN Answered(c, "panic", << >>)
        ELSE /\ call' = [by |-> by, offset |-> offset, count |-> count,
                         end |-> end, next |-> 1, out |-> << >>]
             /\ UNCHANGED ans

\* What NFS and ProjFS ask of read_into.
Clamped(offset, count) == Least(count, file.size - offset)

PastEnd(offset) == offset >= file.size

\* FUSE hands on what the kernel asks for; NFS and ProjFS answer reads at
\* or behind the end themselves and clamp the others.
FuseRead(offset, count) == ReadInto("fuse", offset, count, count)

ClampingRead(by, offset, count) ==
    IF PastEnd(offset)
    THEN Answered([by |-> by, offset |-> offset, count |-> count], "ok", << >>)
    ELSE ReadInto(by, offset, count, Clamped(offset, count))

NfsRead(offset, count) == ClampingRead("nfs", offset, count)

ProjFsRead(offset, count) == ClampingRead("projfs", offset, count)

ReadFull == ReadInto("read_full", 0, file.size, file.size)

\* A user of the library may ask for any range.
Read(offset, len) == ReadInto("api", offset, len, len)

\* Calls and readers share nothing: who uses the file has one or the other.
Request ==
    /\ call = Idle /\ last = "closed"
    /\ \/ \E offset \in 0..(U - 1), count \in Counts :
             \/ FuseRead(offset, count)
             \/ NfsRead(offset, count)
             \/ ProjFsRead(offset, count)
       \/ ReadFull
       \/ \E offset, len \in 0..(U - 1) : Read(offset, len)
    /\ UNCHANGED <<file, held, readerVars>>

\* The loop of read_into: the chunk at hand lies before the range, behind
\* it (or there is none), or in it.
Before(i) == i \in Indices /\ End(i) <= call.offset

Skip ==
    /\ call # Idle /\ Before(call.next)
    /\ call' = [call EXCEPT !.next = @ + 1]
    /\ UNCHANGED <<file, held, ans, readerVars>>

BehindRange(i) == i \in Indices => Chunk(i).offset >= call.end

Finish ==
    /\ call # Idle /\ ~ Before(call.next) /\ BehindRange(call.next)
    /\ Answered(call, "ok", call.out)
    /\ UNCHANGED <<file, held, readerVars>>

\* Mutant: the length of what the store handed out is not looked at.
TooShortUnchecked(i, b) == i \notin Indices

TooShort(i, b) == held[i] < b

\* Mutant: every chunk is taken from its start.
SliceStartOfChunk(i) == 0

SliceStart(i) == Monus(call.offset, Chunk(i).offset)

Take(i) ==
    LET a == SliceStart(i)
        b == Least(call.end, End(i)) - Chunk(i).offset
    IN  IF TooShort(i, b) THEN Answered(call, "error", << >>)
        ELSE IF a > b \/ b > held[i] THEN Answered(call, "panic", << >>)
        ELSE /\ call' = [call EXCEPT !.next = @ + 1, !.out = @ \o Slice(i, a, b)]
             /\ UNCHANGED ans

InRange(i) == ~ Before(i) /\ ~ BehindRange(i)

Get ==
    /\ call # Idle /\ InRange(call.next)
    /\ Take(call.next)
    /\ UNCHANGED <<file, held, readerVars>>

GetFails ==
    /\ call # Idle /\ InRange(call.next)
    /\ Answered(call, "error", << >>)
    /\ UNCHANGED <<file, held, readerVars>>

-----------------------------------------------------------------------------

Open == last \notin {"closed", "panic"}

\* The last chunk at or before the position, or 0: where the table, sorted
\* by offset, parts.
ChunkAt ==
    CHOOSE k \in 0..Len(file.chunks) :
        \A i \in Indices : Chunk(i).offset <= pos <=> i <= k

Covered == ChunkAt # 0 /\ pos < End(ChunkAt)

\* Mutant: the cached chunk serves whatever the position.
IsCachedAny(i) == cached # Idle

IsCached(i) == cached = i

\* Mutant: the last byte of a chunk is left to the next.
AvailableButLast(j, off) == Monus(held[j], off + 1)

Available(j, off) == Monus(held[j], off)

\* DepotFileReader::read into a buffer of n bytes.  A chunk that ends at the
\* position reads as the end of the file; one that ends before it panics in
\* the slice, which ends the use of the reader.
ReaderRead(n) ==
    LET j == IF IsCached(ChunkAt) THEN cached ELSE ChunkAt
        off == pos - Chunk(ChunkAt).offset
        copied == Least(Available(j, off), n)
    IN  /\ n > 0 /\ pos < file.size /\ Covered
        /\ Open
        /\ cached' = j
        /\ IF off > held[j] THEN last' = "panic" /\ UNCHANGED <<pos, stream>>
           ELSE /\ last' = IF copied = 0 THEN "eof" ELSE "bytes"
                /\ pos' = pos + copied
                /\ stream' = stream \o Slice(j, off, off + copied)
        /\ UNCHANGED <<file, held, callVars, from>>

\* A read at the end of the file; at a position no chunk covers, or of a chunk
\* the store cannot hand out.  (One into an empty buffer does nothing.)
ReaderReadsNothing ==
    /\ Open /\ pos >= file.size
    /\ last' = "eof"
    /\ UNCHANGED <<file, held, callVars, pos, cached, from, stream>>

ReaderFails ==
    /\ Open /\ pos < file.size
    /\ ~ Covered \/ ~ IsCached(ChunkAt)
    /\ last' = "error"
    /\ UNCHANGED <<file, held, callVars, pos, cached, from, stream>>

Reset(l) ==
    /\ last' = l
    /\ pos' = 0 /\ cached' = Idle
    /\ from' = 0 /\ stream' = << >>

OpenReader ==
    /\ call = Idle /\ last = "closed"
    /\ Reset("none")
    /\ ans' = Idle
    /\ UNCHANGED <<file, held, call>>

CloseReader ==
    /\ last # "closed"
    /\ Reset("closed")
    /\ UNCHANGED <<file, held, callVars>>

\* seek: i128 in, u64 out.
SeekTo(base, n) ==
    /\ Open /\ base + n >= 0
    /\ pos' = (base + n) % U
    /\ from' = pos' /\ stream' = << >> /\ last' = "none"
    /\ UNCHANGED <<file, held, callVars, cached>>

Seek == \/ \E n \in 0..(U - 1) : SeekTo(0, n)
        \/ \E n \in -(U \div 2)..IsizeMax : SeekTo(file.size, n) \/ SeekTo(pos, n)

Next == \/ Request \/ Skip \/ Finish \/ Get \/ GetFails
        \/ \E n \in Counts : ReaderRead(n)
        \/ ReaderReadsNothing \/ ReaderFails \/ OpenReader \/ CloseReader \/ Seek

Spec == Init /\ [][Next]_vars

\* The store answers every get.
Fairness == WF_vars(Skip \/ Finish \/ Get)

FairSpec == Spec /\ Fairness

-----------------------------------------------------------------------------

\* The reference: a file is its chunks one after the other.
Contiguous ==
    /\ \A i \in Indices : Chunk(i).offset = IF i = 1 THEN 0 ELSE End(i - 1)
    /\ file.size = IF file.chunks = << >> THEN 0 ELSE End(Len(file.chunks))

ByteAt(p) ==
    LET i == CHOOSE i \in Indices : Chunk(i).offset <= p /\ p < End(i)
    IN  <<i, p - Chunk(i).offset>>

Content(a, b) == [n \in 1..Monus(b, a) |-> ByteAt(a + n - 1)]

TypeOK ==
    /\ file \in Files /\ held \in [Indices -> Nat]
    /\ call # Idle => /\ call.by \in Callers /\ call.next \in 1..(Len(file.chunks) + 1)
                      /\ call.offset <= call.end /\ call.end <= file.size
    /\ ans # Idle => ans.by \in Callers /\ ans.status \in {"ok", "error", "panic"}
    /\ pos \in 0..(U - 1) /\ cached \in Indices \cup {Idle}
    /\ last \in {"closed", "none", "bytes", "eof", "error", "panic"}

\* A read that succeeds gives the bytes of the range that lie in the file,
\* all of them and in order, whatever chunk borders the range cuts, whatever
\* the store holds and however far the sum of offset and length overflows
\* ("fewer bytes than requested only at EOF", fs.rs:189).
ReadsTheRange ==
    (ans # Idle /\ Contiguous /\ ans.status = "ok") =>
        ans.data = Content(Least(ans.offset, file.size),
                           Least(ans.offset + ans.count, file.size))

\* The end-of-file flag of an NFS reply tells the client the truth: a false
\* one makes it cut the file, or ask for ever.
EofIsTheEnd ==
    (ans # Idle /\ Contiguous /\ ans.by = "nfs" /\ ans.status = "ok") =>
        (ans.eof <=> ans.offset + ans.count >= file.size)

\* No FUSE read panics, which would leave it unanswered, also when the store
\* hands out less than the manifest says ("a panic inside a read is a hung
\* filesystem", fs.rs:261) and at whatever offset the kernel asks.
FuseReadsDoNotPanic ==
    (ans # Idle /\ ans.by = "fuse") => ans.status # "panic"

\* What a reader gives after a seek is the file from there on, across chunk
\* borders and with a cached chunk left from before the seek.
StreamIsTheFile ==
    Contiguous => stream = Content(from, from + Len(stream))
                  /\ (Len(stream) > 0 => pos = from + Len(stream))

\* A reader over whole chunks reports the end of the file at its end only,
\* and does not panic: a caller that reads until it gets nothing has read
\* the file.  A short chunk breaks this, and nothing else does.
ReaderEndsAtTheEnd ==
    (Contiguous /\ \A i \in Indices : held[i] = Chunk(i).size) =>
        /\ last # "panic"
        /\ last = "eof" => pos >= file.size

=============================================================================
