---------------------------- MODULE StreamBuffer ----------------------------
(***************************************************************************)
(* The pending bytes of a StreamProcessor: a ring that grows by doubling,  *)
(* up to the bound its caller names, and is never shifted.  Ring cell i is *)
(* data[i], 0 <= i < capacity; "none" marks a cell nothing was written to  *)
(* (Go fills it with a zero byte that is never read).                      *)
(*                                                                         *)
(* The caller checks the room before it appends and consumes only a prefix *)
(* it has framed (acceptInput, releasePending).                            *)
(***************************************************************************)
EXTENDS Naturals, Sequences

CONSTANTS
    Bytes,      \* what a cell may hold
    MaxBytes    \* the caller's bound

ASSUME MaxBytesAssumption == MaxBytes \in Nat \ {0}

VARIABLES
    data,       \* the allocation: a function on 0..(capacity - 1)
    capacity,   \* len(data)
    head,       \* cell of the first live byte
    size,       \* number of live bytes
    peak        \* PeakPendingBytes: the largest allocation so far

ringVars == <<data, capacity, head, size, peak>>

Cell == Bytes \cup {"none"}

\* Cell of the i-th live byte, i counted from 0.
CellOf(i) == (head + i) % capacity

\* at(i).
At(i) == data[CellOf(i)]

\* prefix(n): the first n live bytes.
Prefix(n) == [i \in 1..n |-> At(i - 1)]

\* Mutant: the ring doubles even when that passes the bound.
GrownUnbounded(required) ==
    IF required > 2 * capacity THEN required ELSE 2 * capacity

\* Capacity after growing to hold required bytes.  The code compares
\* len(data) with maxBytes - len(data), which cannot overflow.
GrownCapacity(required) ==
    IF capacity <= MaxBytes - capacity
    THEN LET wanted == IF required > 2 * capacity THEN required ELSE 2 * capacity
         IN  IF wanted < MaxBytes THEN wanted ELSE MaxBytes
    ELSE MaxBytes

\* Mutant: growing copies the cells where they are.
GrownInPlace(cap) ==
    [i \in 0..(cap - 1) |-> IF i < capacity THEN data[i] ELSE "none"]

\* The live bytes, moved to the start of a new allocation.
Grown(cap) == [i \in 0..(cap - 1) |-> IF i < size THEN At(i) ELSE "none"]

\* Bytes p written into ring d of cap cells, after the live bytes from cell h;
\* the two copies of the code meet at the end of the allocation.
WrittenInto(d, cap, h, p) ==
    [c \in 0..(cap - 1) |->
        LET i == (c + cap - ((h + size) % cap)) % cap
        IN  IF i < Len(p) THEN p[i + 1] ELSE d[c]]

-----------------------------------------------------------------------------

RingInit ==
    /\ data = <<>>
    /\ capacity = 0
    /\ head = 0
    /\ size = 0
    /\ peak = 0

(* append(p, MaxBytes); acceptInput then notes the allocation.             *)
AppendBytes(p) ==
    LET required == size + Len(p)
        grows    == required > capacity
        cap      == IF grows THEN GrownCapacity(required) ELSE capacity
        ring     == IF grows THEN Grown(cap) ELSE data
        start    == IF grows THEN 0 ELSE head
    IN  /\ p # <<>>
        /\ required <= MaxBytes
        /\ data' = WrittenInto(ring, cap, start, p)
        /\ capacity' = cap
        /\ head' = start
        /\ size' = required
        /\ peak' = IF cap > peak THEN cap ELSE peak

(* consume(n), after a unit of n bytes has been released.                  *)
ConsumeBytes(n) ==
    /\ n \in 1..size
    /\ size' = size - n
    /\ head' = IF n = size THEN 0 ELSE CellOf(n)
    /\ UNCHANGED <<data, capacity, peak>>

(* clear(), at the end of the stream.                                      *)
ClearBytes ==
    /\ data' = <<>>
    /\ capacity' = 0
    /\ head' = 0
    /\ size' = 0
    /\ UNCHANGED peak

RingChunks == UNION {[1..n -> Bytes] : n \in 1..MaxBytes}

RingNext ==
    \/ \E p \in RingChunks : AppendBytes(p)
    \/ \E n \in 1..MaxBytes : ConsumeBytes(n)
    \/ ClearBytes

RingSpec == RingInit /\ [][RingNext]_ringVars

-----------------------------------------------------------------------------

TypeOK ==
    /\ capacity \in 0..MaxBytes
    /\ data \in [0..(capacity - 1) -> Cell]
    /\ size \in 0..capacity
    /\ head \in 0..capacity
    /\ capacity > 0 => head < capacity
    /\ peak \in Nat

\* Whatever is written and released, the memory held never passes the bound
\* the caller configured, and PeakPendingBytes reports it faithfully.
AllocationBounded == capacity <= peak /\ peak <= MaxBytes

\* Wrapping, growing and consuming are invisible: the ring is a queue.
Queue == INSTANCE ByteQueue WITH queue <- Prefix(size)

IsQueue == Queue!Spec
=============================================================================
