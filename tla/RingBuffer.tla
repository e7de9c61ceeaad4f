----------------------------- MODULE RingBuffer -----------------------------
(***************************************************************************)
(* ringBuffer of pkg/iorpc/buffer.go, the scratch buffer in which          *)
(* messageDecoder collects the headers of a message: io.CopyN calls Write  *)
(* once for every piece the connection delivers, TrySlice takes them out.  *)
(* Go's slice expressions panic beyond the end of buf.                     *)
(***************************************************************************)
EXTENDS Integers, Sequences, SequencesExt

CONSTANTS
  Bytes, Zero,      \* the values of a byte and the one Go initialises it to
  InitialCapacity,  \* headerBufferSize, 4096 in the code
  MaxCapacity,      \* bound: how far writes may make the buffer grow
  MaxChunk          \* bound: the longest argument of one Write

ASSUME RingAssumption == /\ Zero \in Bytes
                         /\ InitialCapacity \in Nat \ {0} /\ MaxCapacity \in Nat
                         /\ InitialCapacity <= MaxCapacity
                         /\ MaxChunk \in Nat \ {0}

VARIABLES
  start, size, buf, \* the fields of ringBuffer
  io,               \* what the last operation was and the bytes it took or returned
  panicked          \* a slice expression was out of range; nothing follows

vars == <<start, size, buf, io, panicked>>

Capacity == Len(buf)
Chunks == BoundedSeq(Bytes, MaxChunk) \ {<<>>}

TypeOK ==
  /\ buf \in Seq(Bytes) /\ Capacity \in 1 .. MaxCapacity
  /\ start \in 0 .. Capacity - 1 /\ size \in 0 .. Capacity
  /\ io \in {"put", "get", "clear"} \X Seq(Bytes) /\ panicked \in BOOLEAN

Init ==
  /\ start = 0 /\ size = 0 /\ io = <<"clear", <<>>>> /\ panicked = FALSE
  /\ buf = [i \in 1 .. InitialCapacity |-> Zero]

(* buf[lo:hi] of the code. *)
Slice(lo, hi) == SubSeq(buf, lo + 1, hi)
UpTo(s, n) == SubSeq(s, 1, IF n < Len(s) THEN n ELSE Len(s))

(* read: what it copies into a slice of length n. *)
Peek(n) ==
  IF start + size <= Capacity
  THEN UpTo(Slice(start, start + size), n)
  ELSE UpTo(Slice(start, Capacity) \o Slice(0, (start + size) % Capacity), n)

(* Mutant: start is not taken modulo the capacity. *)
ConsumeUnwrapped(n) ==
  /\ start' = start + n
  /\ size' = size - n
  /\ UNCHANGED <<buf, panicked>>

(* start and size after n bytes were consumed. *)
Consume(n) ==
  /\ start' = (start + n) % Capacity
  /\ size' = size - n
  /\ UNCHANGED <<buf, panicked>>

Read(n) ==
  /\ ~panicked /\ size > 0
  /\ io' = <<"get", Peek(n)>>
  /\ Consume(Len(Peek(n)))

(* trySlice: a slice of buf if the bytes are contiguous, else a copy. *)
Take(n) ==
  LET k == IF size < n THEN size ELSE n
  IN  IF start + k <= Capacity THEN Slice(start, start + k) ELSE Peek(k)

TrySlice(n) ==
  /\ ~panicked
  /\ io' = <<"get", IF size = 0 THEN <<>> ELSE Take(n)>>
  /\ Consume(Len(io'[2]))

(* copy(buf[at:], p): as much of p as fits. *)
CopyTo(b, at, p) ==
  [i \in 1 .. Len(b) |-> IF i > at /\ i - at <= Len(p) THEN p[i - at] ELSE b[i]]

Fits(p) == size + Len(p) <= Capacity

(* write, when the buffer has to grow: buf becomes contents and p. *)
WriteGrows(p) ==
  /\ ~Fits(p) /\ size + Len(p) <= MaxCapacity
  /\ buf' = (IF size = 0 THEN <<>> ELSE Take(size)) \o p
  /\ start' = 0 /\ size' = size + Len(p)
  /\ io' = <<"put", p>> /\ UNCHANGED panicked

(* Mutant: the second copy starts again at the first byte of p. *)
WriteFitsTwice(p) ==
  LET at == start + size
      n  == Len(UpTo(p, Capacity - at))
  IN  /\ Fits(p) /\ at <= Capacity
      /\ buf' = CopyTo(CopyTo(buf, at, SubSeq(p, 1, n)), 0, SubSeq(p, 1, Len(p) - n))
      /\ size' = size + Len(p) /\ io' = <<"put", p>>
      /\ UNCHANGED <<start, panicked>>

(* write, in place: behind the contents, the rest at the front of buf. *)
WriteFits(p) ==
  LET at == start + size
      n  == Len(UpTo(p, Capacity - at))
  IN  /\ Fits(p) /\ at <= Capacity
      /\ buf' = CopyTo(CopyTo(buf, at, SubSeq(p, 1, n)), 0, SubSeq(p, n + 1, Len(p)))
      /\ size' = size + Len(p) /\ io' = <<"put", p>>
      /\ UNCHANGED <<start, panicked>>

(* The same with contents that already wrap around: buf[start+size:] is    *)
(* out of range.                                                           *)
WritePanics(p) ==
  /\ Fits(p) /\ start + size > Capacity
  /\ panicked' = TRUE
  /\ UNCHANGED <<start, size, buf, io>>

Write(p) == ~panicked /\ (WriteGrows(p) \/ WriteFits(p) \/ WritePanics(p))

Reset ==
  /\ ~panicked
  /\ start' = 0 /\ size' = 0 /\ io' = <<"clear", <<>>>>
  /\ UNCHANGED <<buf, panicked>>

Next == \/ \E p \in Chunks : Write(p)
        \/ \E n \in 1 .. MaxCapacity : Read(n) \/ TrySlice(n)
        \/ Reset

Spec == Init /\ [][Next]_vars

(* The bytes in the buffer, oldest first. *)
Contents == [i \in 1 .. size |-> buf[((start + i - 1) % Capacity) + 1]]

Queue == INSTANCE ByteQueue WITH bytes <- Contents

(* Reads return what was written, in order, across every wrap around the   *)
(* end and every growth of the buffer, for as long as no write panics.     *)
ImplementsByteQueue == Queue!Spec

(* TestWriteInCapacity: consecutive writes that fit into the capacity      *)
(* succeed, wherever in buf the contents start.                            *)
WritesInCapacity == ~panicked
=============================================================================
