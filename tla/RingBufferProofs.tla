-------------------------- MODULE RingBufferProofs --------------------------
(***************************************************************************)
(* Proofs about the ringBuffer of pkg/iorpc/buffer.go: its fields stay in  *)
(* range, and whatever is written, read and grown, what a reader gets is   *)
(* what a queue of bytes would give.  The arithmetic modulo the capacity   *)
(* is removed first: positions are below twice the capacity, so that the   *)
(* contents are one or two pieces of buf.                                  *)
(***************************************************************************)
EXTENDS RingBuffer, SequenceTheorems, TLAPS

(* A position before the end of buf is itself. *)
LEMMA ModSmall ==
  ASSUME NEW C \in Nat, NEW a \in Nat, a < C
  PROVE  a % C = a
  OBVIOUS

(* A position that wrapped around once, as start + size can, is reduced by *)
(* the capacity.                                                           *)
LEMMA ModOnce ==
  ASSUME NEW C \in Nat, NEW a \in Nat, C <= a, a < C + C
  PROVE  a % C = a - C
  OBVIOUS

(* Sequences of bytes are equal when their lengths and elements are. *)
LEMMA SameBytes ==
  \A u, v \in Seq(Bytes) : Len(u) = Len(v) /\ (\A i \in 1 .. Len(u) : u[i] = v[i]) => u = v
  BY SeqEqual

(* What the slice expression s[lo:n] of Go selects. *)
LEMMA Piece ==
  \A s \in Seq(Bytes), lo \in Nat, n \in Nat :
    lo <= n /\ n <= Len(s) =>
      /\ SubSeq(s, lo + 1, n) \in Seq(Bytes) /\ Len(SubSeq(s, lo + 1, n)) = n - lo
      /\ \A i \in 1 .. n - lo : SubSeq(s, lo + 1, n)[i] = s[lo + i]
<1> SUFFICES ASSUME NEW s \in Seq(Bytes), NEW lo \in Nat, NEW n \in Nat,
                    lo <= n, n <= Len(s)
             PROVE  /\ SubSeq(s, lo + 1, n) \in Seq(Bytes) /\ Len(SubSeq(s, lo + 1, n)) = n - lo
                    /\ \A i \in 1 .. n - lo : SubSeq(s, lo + 1, n)[i] = s[lo + i]
  OBVIOUS
<1>1. /\ lo + 1 \in Int /\ n \in Int /\ \A i \in lo + 1 .. n : s[i] \in Bytes
      /\ n - (lo + 1) + 1 = n - lo /\ \A i \in 1 .. n - lo : (lo + 1) + i - 1 = lo + i
      /\ n - lo = IF lo + 1 <= n THEN n - (lo + 1) + 1 ELSE 0
  OBVIOUS
<1>2. /\ SubSeq(s, lo + 1, n) \in Seq(Bytes)
      /\ Len(SubSeq(s, lo + 1, n)) = IF lo + 1 <= n THEN n - (lo + 1) + 1 ELSE 0
      /\ \A i \in 1 .. n - (lo + 1) + 1 : SubSeq(s, lo + 1, n)[i] = s[(lo + 1) + i - 1]
  BY <1>1, SubSeqProperties
<1> QED
  BY <1>1, <1>2, Zenon

(* The same for s[:n]. *)
LEMMA FirstPiece ==
  \A s \in Seq(Bytes), n \in Nat :
    n <= Len(s) => /\ SubSeq(s, 1, n) \in Seq(Bytes) /\ Len(SubSeq(s, 1, n)) = n
                   /\ \A i \in 1 .. n : SubSeq(s, 1, n)[i] = s[i]
<1> SUFFICES ASSUME NEW s \in Seq(Bytes), NEW n \in Nat, n <= Len(s)
             PROVE  /\ SubSeq(s, 1, n) \in Seq(Bytes) /\ Len(SubSeq(s, 1, n)) = n
                    /\ \A i \in 1 .. n : SubSeq(s, 1, n)[i] = s[i]
  OBVIOUS
<1>1. 1 \in Int /\ n \in Int /\ (\A i \in 1 .. n : s[i] \in Bytes) /\ n - 1 + 1 = n
  OBVIOUS
<1>2. /\ SubSeq(s, 1, n) \in Seq(Bytes)
      /\ Len(SubSeq(s, 1, n)) = IF 1 <= n THEN n - 1 + 1 ELSE 0
      /\ \A i \in 1 .. n - 1 + 1 : SubSeq(s, 1, n)[i] = s[1 + i - 1]
  BY <1>1, SubSeqProperties
<1> QED
  BY <1>2

(* The index, counted from 1, that lies at or one turn before a. *)
Wrap(C, a) == IF a <= C THEN a ELSE a - C

(* The n bytes of a buffer b from position s on, as Contents reads them. *)
Ring(b, s, n) == [i \in 1 .. n |-> b[((s + i - 1) % Len(b)) + 1]]

(* The contents without the modulo: a piece up to the end of buf and a     *)
(* piece from its beginning.                                               *)
LEMMA RingLinear ==
  ASSUME NEW b \in Seq(Bytes), NEW s \in 0 .. Len(b) - 1, NEW n \in 0 .. Len(b)
  PROVE  /\ Ring(b, s, n) \in Seq(Bytes) /\ Len(Ring(b, s, n)) = n
         /\ \A i \in 1 .. n : Ring(b, s, n)[i] = b[Wrap(Len(b), s + i)]
<1>1. Len(b) \in Nat /\ n \in Nat
  OBVIOUS
<1>2. ASSUME NEW i \in 1 .. n
      PROVE  /\ ((s + i - 1) % Len(b)) + 1 = Wrap(Len(b), s + i)
             /\ Wrap(Len(b), s + i) \in 1 .. Len(b)
  <2>1. CASE s + i <= Len(b)
    BY <1>1, <2>1, ModSmall DEF Wrap
  <2>2. CASE s + i > Len(b)
    <3>1. s + i - 1 \in Nat /\ Len(b) <= s + i - 1 /\ s + i - 1 < Len(b) + Len(b)
      BY <1>1, <2>2
    <3>2. (s + i - 1) % Len(b) = s + i - 1 - Len(b)
      BY <1>1, <3>1, ModOnce
    <3> QED
      BY <1>1, <2>2, <3>2 DEF Wrap
  <2> QED
    BY <2>1, <2>2, <1>1
<1>3. \A i \in 1 .. n : Ring(b, s, n)[i] = b[Wrap(Len(b), s + i)]
  <2> TAKE i \in 1 .. n
  <2>1. Ring(b, s, n)[i] = b[((s + i - 1) % Len(b)) + 1]
    BY DEF Ring
  <2> QED
    BY <2>1, <1>2, Zenon
<1>4. \A i \in 1 .. n : Ring(b, s, n)[i] \in Bytes
  <2> TAKE i \in 1 .. n
  <2>1. \A j \in 1 .. Len(b) : b[j] \in Bytes
    OBVIOUS
  <2> QED
    BY <2>1, <1>2, <1>3, Zenon
<1>5. Ring(b, s, n) \in [1 .. n -> Bytes]
  BY <1>4 DEF Ring
<1> QED
  BY <1>1, <1>3, <1>5

(* Bytes taken from the front leave the rest of the contents, in order:    *)
(* the new start modulo the capacity is where the rest begins.             *)
LEMMA RingDrop ==
  ASSUME NEW b \in Seq(Bytes), NEW s \in 0 .. Len(b) - 1, NEW n \in 0 .. Len(b),
         NEW k \in 0 .. n
  PROVE  /\ (s + k) % Len(b) \in 0 .. Len(b) - 1
         /\ Ring(b, (s + k) % Len(b), n - k) = SubSeq(Ring(b, s, n), k + 1, n)
<1>1. /\ Len(b) \in Nat /\ n \in Nat /\ k \in Nat /\ s \in Nat /\ n - k \in 0 .. Len(b)
      /\ s + k \in Nat /\ n - k \in Nat
  OBVIOUS
<1>2. PICK t \in 0 .. Len(b) - 1 : /\ t = (s + k) % Len(b)
                                   /\ t = IF s + k < Len(b) THEN s + k ELSE s + k - Len(b)
  <2>1. CASE s + k < Len(b)
    BY <1>1, <2>1, ModSmall
  <2>2. CASE s + k >= Len(b)
    <3>1. (s + k) % Len(b) = s + k - Len(b)
      BY <1>1, <2>2, ModOnce
    <3> QED
      BY <3>1, <1>1, <2>2
  <2> QED
    BY <2>1, <2>2, <1>1
<1>3. PICK r \in Seq(Bytes) : r = Ring(b, s, n)
  BY RingLinear
<1>4. Len(r) = n /\ \A i \in 1 .. n : r[i] = b[Wrap(Len(b), s + i)]
  BY <1>3, RingLinear
<1>5. PICK q \in Seq(Bytes) : q = Ring(b, t, n - k)
  BY <1>1, RingLinear
<1>6. Len(q) = n - k /\ \A i \in 1 .. n - k : q[i] = b[Wrap(Len(b), t + i)]
  BY <1>1, <1>5, RingLinear
<1>7. PICK u \in Seq(Bytes) :
        /\ u = SubSeq(r, k + 1, n) /\ Len(u) = n - k
        /\ \A i \in 1 .. n - k : u[i] = r[k + i]
  <2>1. k <= n /\ n <= Len(r)
    BY <1>1, <1>4
  <2>2. /\ SubSeq(r, k + 1, n) \in Seq(Bytes) /\ Len(SubSeq(r, k + 1, n)) = n - k
        /\ \A i \in 1 .. n - k : SubSeq(r, k + 1, n)[i] = r[k + i]
    BY <2>1, <1>1, Piece, Zenon
  <2> QED
    BY <2>2, Zenon
<1>8. \A i \in 1 .. n - k : q[i] = u[i]
  <2> TAKE i \in 1 .. n - k
  <2>1. k + i \in 1 .. n
    <3> i \in Int /\ 1 <= i /\ i <= n - k
      BY <1>1
    <3> QED
      BY <1>1
  <2>2. Wrap(Len(b), t + i) = Wrap(Len(b), s + (k + i))
    <3>1. t = IF s + k < Len(b) THEN s + k ELSE s + k - Len(b)
      BY <1>2, Zenon
    <3>2. i \in Int /\ 1 <= i /\ i <= n - k
      BY <1>1
    <3> QED
      BY <1>1, <3>1, <3>2 DEF Wrap
  <2> QED
    BY <1>4, <1>6, <1>7, <2>1, <2>2
<1>9. q = u
  BY <1>6, <1>7, <1>8, SameBytes
<1>10. /\ (s + k) % Len(b) \in 0 .. Len(b) - 1
       /\ Ring(b, (s + k) % Len(b), n - k) = q
  BY <1>2, <1>5, Zenon
<1> QED
  BY <1>3, <1>7, <1>9, <1>10, Zenon

(* The contents as a ring, and what TypeOK says of it. *)
LEMMA ContentsIs ==
  ASSUME TypeOK
  PROVE  /\ Contents = Ring(buf, start, size)
         /\ Capacity = Len(buf) /\ Capacity \in Nat /\ Capacity > 0
         /\ start \in Nat /\ start < Capacity /\ size \in Nat /\ size <= Capacity
         /\ Contents \in Seq(Bytes) /\ Len(Contents) = size
         /\ \A i \in 1 .. size : Contents[i] = buf[Wrap(Capacity, start + i)]
<1>1. /\ buf \in Seq(Bytes) /\ start \in 0 .. Len(buf) - 1 /\ size \in 0 .. Len(buf)
      /\ Capacity = Len(buf) /\ Capacity \in Nat /\ Capacity > 0
      /\ start \in Nat /\ start < Capacity /\ size \in Nat /\ size <= Capacity
  BY RingAssumption DEF TypeOK, Capacity
<1>2. Contents = Ring(buf, start, size)
  BY <1>1 DEF Contents, Ring
<1>3. /\ Ring(buf, start, size) \in Seq(Bytes) /\ Len(Ring(buf, start, size)) = size
      /\ \A i \in 1 .. size : Ring(buf, start, size)[i] = buf[Wrap(Len(buf), start + i)]
  BY <1>1, RingLinear
<1> QED
  BY <1>1, <1>2, <1>3, Zenon

(* The pieces that read copies from are the contents, in order, whether or *)
(* not they wrap around the end of buf.                                    *)
LEMMA PiecesAreContents ==
  ASSUME TypeOK
  PROVE  IF start + size <= Capacity
         THEN Slice(start, start + size) = Contents
         ELSE Slice(start, Capacity) \o Slice(0, (start + size) % Capacity) = Contents
<1>0. PICK C \in Nat : C = Capacity
  BY ContentsIs
<1>1. /\ C = Len(buf) /\ C \in Nat /\ C > 0 /\ buf \in Seq(Bytes)
      /\ start \in Nat /\ start < C /\ size \in Nat /\ size <= C
  BY <1>0, ContentsIs DEF TypeOK
<1>2. /\ Contents \in Seq(Bytes) /\ Len(Contents) = size
      /\ \A i \in 1 .. size : Contents[i] = buf[Wrap(C, start + i)]
  BY <1>0, ContentsIs, Zenon
<1>3. CASE start + size <= C
  <2>1. PICK v \in Seq(Bytes) : /\ v = Slice(start, start + size) /\ Len(v) = size
                                /\ \A i \in 1 .. size : v[i] = buf[start + i]
    <3>1. /\ start <= start + size /\ start + size <= Len(buf) /\ start + size \in Nat
          /\ start + size - start = size
      BY <1>1, <1>3
    <3>2. /\ SubSeq(buf, start + 1, start + size) \in Seq(Bytes)
          /\ Len(SubSeq(buf, start + 1, start + size)) = size
          /\ \A i \in 1 .. size : SubSeq(buf, start + 1, start + size)[i] = buf[start + i]
      <4>1. /\ SubSeq(buf, start + 1, start + size) \in Seq(Bytes)
            /\ Len(SubSeq(buf, start + 1, start + size)) = start + size - start
            /\ \A i \in 1 .. start + size - start :
                 SubSeq(buf, start + 1, start + size)[i] = buf[start + i]
        BY <1>1, <3>1, Piece
      <4> QED
        BY <3>1, <4>1
    <3> QED
      BY <3>2, Zenon DEF Slice
  <2>2. \A i \in 1 .. size : Wrap(C, start + i) = start + i
    BY <1>1, <1>3 DEF Wrap
  <2>3. v = Contents
    BY <1>2, <2>1, <2>2, SameBytes
  <2> QED
    BY <1>0, <1>3, <2>1, <2>3, Zenon
<1>4. CASE start + size > C
  <2>1. PICK m \in Nat : m = (start + size) % C /\ m = start + size - C
    <3>1. C <= start + size /\ start + size < C + C /\ start + size \in Nat
      BY <1>1, <1>4
    <3>2. (start + size) % C = start + size - C
      <4>1. PICK a \in Nat : a = start + size
        BY <1>1, <3>1
      <4>2. a % C = a - C
        BY <3>1, <4>1, ModOnce
      <4> QED
        BY <1>1, <4>1, <4>2
    <3> QED
      BY <1>1, <3>1, <3>2, SMTT(30)
  <2>2. m = start + size - C /\ m \in Nat /\ m <= C
    <3>1. m = start + size - C
      BY <2>1, Zenon
    <3> QED
      BY <3>1, <1>1
  <2>3. PICK v \in Seq(Bytes) : /\ v = Slice(start, C) /\ Len(v) = C - start
                                /\ \A i \in 1 .. C - start : v[i] = buf[start + i]
    <3>1. start <= C /\ C <= Len(buf)
      BY <1>1
    <3> QED
      BY <1>1, <3>1, Piece, Zenon, SMTT(30) DEF Slice
  <2>4. PICK w \in Seq(Bytes) : /\ w = Slice(0, m) /\ Len(w) = m
                                /\ \A i \in 1 .. m : w[i] = buf[i]
    <3>1. m <= Len(buf) /\ 0 + 1 = 1
      BY <1>1, <2>2
    <3>2. /\ SubSeq(buf, 1, m) \in Seq(Bytes) /\ Len(SubSeq(buf, 1, m)) = m
          /\ \A i \in 1 .. m : SubSeq(buf, 1, m)[i] = buf[i]
      BY <1>1, <3>1, FirstPiece, Zenon
    <3> QED
      BY <3>1, <3>2, Zenon DEF Slice
  <2>5. PICK u \in Seq(Bytes) :
          /\ u = v \o w /\ Len(u) = size
          /\ \A i \in 1 .. size : u[i] = IF i <= C - start THEN v[i] ELSE w[i - (C - start)]
    <3>1. /\ v \o w \in Seq(Bytes) /\ Len(v \o w) = Len(v) + Len(w)
          /\ \A i \in 1 .. Len(v) + Len(w) :
               (v \o w)[i] = IF i <= Len(v) THEN v[i] ELSE w[i - Len(v)]
      BY ConcatProperties
    <3>2. Len(v) + Len(w) = size
      BY <1>1, <2>2, <2>3, <2>4
    <3>3. /\ v \o w \in Seq(Bytes) /\ Len(v \o w) = size
          /\ \A i \in 1 .. size : (v \o w)[i] =
               IF i <= C - start THEN v[i] ELSE w[i - (C - start)]
      BY <2>3, <3>1, <3>2, Zenon
    <3> QED
      BY <3>3, Zenon
  <2>6. \A i \in 1 .. size : u[i] = Contents[i]
    <3> TAKE i \in 1 .. size
    <3>1. CASE i <= C - start
      <4>1. i \in 1 .. C - start /\ Wrap(C, start + i) = start + i
        BY <1>1, <3>1 DEF Wrap
      <4> QED
        BY <1>2, <2>3, <2>5, <3>1, <4>1
    <3>2. CASE i > C - start
      <4>1. /\ i - (C - start) \in 1 .. m /\ ~(i <= C - start)
            /\ Wrap(C, start + i) = i - (C - start)
        BY <1>1, <2>2, <3>2 DEF Wrap
      <4> QED
        BY <1>2, <2>4, <2>5, <4>1
    <3> QED
      BY <1>1, <3>1, <3>2
  <2>7. u = Contents
    BY <1>2, <2>5, <2>6, SameBytes
  <2>8. Slice(start, C) \o Slice(0, (start + size) % C) = Contents
    BY <2>1, <2>3, <2>4, <2>5, <2>7, Zenon
  <2>9. ~(start + size <= C)
    BY <1>1, <1>4
  <2> QED
    BY <1>0, <2>8, <2>9, Zenon
<1> QED
  BY <1>1, <1>3, <1>4

(* What read copies is the front of the contents, as much as is asked for  *)
(* or there is.                                                            *)
LEMMA PeekIsFront ==
  ASSUME TypeOK, NEW n \in Nat
  PROVE  Peek(n) = SubSeq(Contents, 1, IF n < size THEN n ELSE size)
<1>1. Len(Contents) = size
  BY ContentsIs
<1>2. Peek(n) = UpTo(Contents, n)
  BY PiecesAreContents, Zenon DEF Peek
<1> QED
  BY <1>1, <1>2, Zenon DEF UpTo

(* What trySlice returns is the same, whether it is a slice of buf or a    *)
(* copy.                                                                   *)
LEMMA TakeIsFront ==
  ASSUME TypeOK, NEW n \in Nat
  PROVE  Take(n) = SubSeq(Contents, 1, IF size < n THEN size ELSE n)
<1>1. PICK k \in Nat : k = IF size < n THEN size ELSE n
  BY ContentsIs
<1>2. /\ Capacity = Len(buf) /\ Capacity \in Nat /\ Capacity > 0 /\ buf \in Seq(Bytes)
      /\ start \in Nat /\ start < Capacity /\ size \in Nat /\ size <= Capacity
      /\ k <= size
  BY <1>1, ContentsIs DEF TypeOK
<1>3. /\ Contents \in Seq(Bytes) /\ Len(Contents) = size
      /\ \A i \in 1 .. size : Contents[i] = buf[Wrap(Capacity, start + i)]
  BY ContentsIs
<1>4. CASE start + k <= Capacity
  <2>1. PICK v \in Seq(Bytes) : /\ v = Slice(start, start + k) /\ Len(v) = k
                                /\ \A i \in 1 .. k : v[i] = buf[start + i]
    <3>1. /\ start <= start + k /\ start + k <= Len(buf) /\ start + k \in Nat
          /\ start + k - start = k
      BY <1>2, <1>4
    <3>2. /\ SubSeq(buf, start + 1, start + k) \in Seq(Bytes)
          /\ Len(SubSeq(buf, start + 1, start + k)) = start + k - start
          /\ \A i \in 1 .. start + k - start :
               SubSeq(buf, start + 1, start + k)[i] = buf[start + i]
      <4>1. PICK e \in Nat : e = start + k
        BY <1>2
      <4>2. /\ SubSeq(buf, start + 1, e) \in Seq(Bytes)
            /\ Len(SubSeq(buf, start + 1, e)) = e - start
            /\ \A i \in 1 .. e - start : SubSeq(buf, start + 1, e)[i] = buf[start + i]
        <5>1. start <= e /\ e <= Len(buf)
          BY <3>1, <4>1
        <5> QED
          BY <1>2, <5>1, Piece, Zenon
      <4> QED
        BY <1>2, <4>1, <4>2
    <3>3. /\ SubSeq(buf, start + 1, start + k) \in Seq(Bytes)
          /\ Len(SubSeq(buf, start + 1, start + k)) = k
          /\ \A i \in 1 .. k : SubSeq(buf, start + 1, start + k)[i] = buf[start + i]
      BY <3>1, <3>2
    <3> QED
      BY <3>3, Zenon DEF Slice
  <2>2. PICK u \in Seq(Bytes) : /\ u = SubSeq(Contents, 1, k) /\ Len(u) = k
                                /\ \A i \in 1 .. k : u[i] = Contents[i]
    <3>1. /\ SubSeq(Contents, 1, k) \in Seq(Bytes) /\ Len(SubSeq(Contents, 1, k)) = k
          /\ \A i \in 1 .. k : SubSeq(Contents, 1, k)[i] = Contents[i]
      BY <1>2, <1>3, FirstPiece, Zenon
    <3> QED
      BY <3>1, Zenon
  <2>3. \A i \in 1 .. k : i \in 1 .. size /\ Wrap(Capacity, start + i) = start + i
    BY <1>2, <1>4 DEF Wrap
  <2>4. v = u
    <3>1. \A i \in 1 .. k : u[i] = v[i]
      BY <1>3, <2>1, <2>2, <2>3, Zenon
    <3> QED
      BY <2>1, <2>2, <3>1, SameBytes
  <2>5. Take(n) = Slice(start, start + k)
    BY <1>1, <1>4, Zenon DEF Take
  <2> QED
    BY <1>1, <2>1, <2>2, <2>4, <2>5, Zenon
<1>5. CASE ~(start + k <= Capacity)
  <2>1. Take(n) = Peek(k)
    BY <1>1, <1>5, Zenon DEF Take
  <2>2. Peek(k) = SubSeq(Contents, 1, IF k < size THEN k ELSE size)
    BY PeekIsFront
  <2>3. (IF k < size THEN k ELSE size) = k
    BY <1>2
  <2> QED
    BY <1>1, <2>1, <2>2, <2>3, Zenon
<1> QED
  BY <1>4, <1>5

(* The two copies of write put p behind the contents: the first as far as  *)
(* buf reaches, the second from its beginning, which ends before the       *)
(* contents because p fits.                                                *)
LEMMA CopyAppends ==
  \A b, p \in Seq(Bytes) : \A m, s, n \in Nat : \A b2 :
    /\ s < Len(b) /\ s + n <= Len(b) /\ n + Len(p) <= Len(b)
    /\ m = (IF Len(b) - (s + n) < Len(p) THEN Len(b) - (s + n) ELSE Len(p))
    /\ b2 = CopyTo(CopyTo(b, s + n, SubSeq(p, 1, m)), 0, SubSeq(p, m + 1, Len(p)))
    => /\ b2 \in Seq(Bytes) /\ Len(b2) = Len(b)
       /\ Ring(b2, s, n + Len(p)) = Ring(b, s, n) \o p
<1> TAKE b, p \in Seq(Bytes)
<1> TAKE m, s, n \in Nat
<1> TAKE b2
<1>s. HAVE /\ s < Len(b) /\ s + n <= Len(b) /\ n + Len(p) <= Len(b)
           /\ m = (IF Len(b) - (s + n) < Len(p) THEN Len(b) - (s + n) ELSE Len(p))
           /\ b2 = CopyTo(CopyTo(b, s + n, SubSeq(p, 1, m)), 0, SubSeq(p, m + 1, Len(p)))
<1>1. PICK C \in Nat, L \in Nat :
        /\ C = Len(b) /\ L = Len(p)
        /\ s < C /\ s + n <= C /\ n + L <= C
        /\ m = (IF C - (s + n) < L THEN C - (s + n) ELSE L)
  BY <1>s
<1>0. /\ s < C /\ s + n <= C /\ n + L <= C
      /\ m = (IF C - (s + n) < L THEN C - (s + n) ELSE L)
  BY <1>1, Zenon
<1>2. m <= L /\ L - m \in Nat /\ L - m <= s /\ m <= C - (s + n)
  BY <1>0
<1>3. PICK p1 \in Seq(Bytes) : /\ p1 = SubSeq(p, 1, m) /\ Len(p1) = m
                               /\ \A i \in 1 .. m : p1[i] = p[i]
  <2>1. /\ SubSeq(p, 1, m) \in Seq(Bytes) /\ Len(SubSeq(p, 1, m)) = m
        /\ \A i \in 1 .. m : SubSeq(p, 1, m)[i] = p[i]
    BY <1>1, <1>2, FirstPiece, Zenon
  <2> QED
    BY <2>1, Zenon
<1>4. PICK p2 \in Seq(Bytes) : /\ p2 = SubSeq(p, m + 1, Len(p)) /\ Len(p2) = L - m
                               /\ \A i \in 1 .. L - m : p2[i] = p[m + i]
  <2>1. /\ SubSeq(p, m + 1, L) \in Seq(Bytes) /\ Len(SubSeq(p, m + 1, L)) = L - m
        /\ \A i \in 1 .. L - m : SubSeq(p, m + 1, L)[i] = p[m + i]
    <3>1. L <= Len(p)
      BY <1>1
    <3>2. \A n1 \in Nat : m <= n1 /\ n1 <= Len(p) =>
            /\ SubSeq(p, m + 1, n1) \in Seq(Bytes) /\ Len(SubSeq(p, m + 1, n1)) = n1 - m
            /\ \A i \in 1 .. n1 - m : SubSeq(p, m + 1, n1)[i] = p[m + i]
      BY Piece
    <3> QED
      BY <1>2, <3>1, <3>2, Zenon
  <2> QED
    BY <1>1, <2>1, Zenon
<1>5. PICK b1 \in Seq(Bytes) :
        /\ b1 = CopyTo(b, s + n, p1) /\ Len(b1) = C
        /\ \A j \in 1 .. C : b1[j] = IF j > s + n /\ j - (s + n) <= m THEN p1[j - (s + n)] ELSE b[j]
  <2>1. \A j \in 1 .. C :
          CopyTo(b, s + n, p1)[j] = IF j > s + n /\ j - (s + n) <= m THEN p1[j - (s + n)] ELSE b[j]
    BY <1>1, <1>3 DEF CopyTo
  <2>2. \A j \in 1 .. C : CopyTo(b, s + n, p1)[j] \in Bytes
    <3> TAKE j \in 1 .. C
    <3>1. j > s + n /\ j - (s + n) <= m => p1[j - (s + n)] \in Bytes
      BY <1>1, <1>3
    <3>2. b[j] \in Bytes
      BY <1>1
    <3> QED
      BY <2>1, <3>1, <3>2
  <2>3. CopyTo(b, s + n, p1) \in [1 .. C -> Bytes]
    BY <1>1, <2>2 DEF CopyTo
  <2>4. CopyTo(b, s + n, p1) \in Seq(Bytes) /\ Len(CopyTo(b, s + n, p1)) = C
    BY <2>3
  <2> QED
    BY <2>1, <2>4, Zenon
<1>6. /\ b2 \in Seq(Bytes) /\ Len(b2) = C
      /\ \A j \in 1 .. C : b2[j] = IF j <= L - m THEN p2[j] ELSE b1[j]
  <2>1. b2 = CopyTo(b1, 0, p2)
    BY <1>s, <1>3, <1>4, <1>5, Zenon
  <2>2. \A j \in 1 .. C : b2[j] = IF j > 0 /\ j - 0 <= L - m THEN p2[j - 0] ELSE b1[j]
    BY <2>1, <1>1, <1>4, <1>5 DEF CopyTo
  <2>3. \A j \in 1 .. C : b2[j] = IF j <= L - m THEN p2[j] ELSE b1[j]
    <3> TAKE j \in 1 .. C
    <3>1. j > 0 /\ j - 0 = j
      OBVIOUS
    <3> QED
      BY <2>2, <3>1, Zenon
  <2>4. \A j \in 1 .. C : b2[j] \in Bytes
    <3> TAKE j \in 1 .. C
    <3>1. j <= L - m => p2[j] \in Bytes
      BY <1>1, <1>2, <1>4, SMTT(30)
    <3>2. b1[j] \in Bytes
      BY <1>5
    <3> QED
      BY <2>3, <3>1, <3>2
  <2>5. b2 \in [1 .. C -> Bytes]
    BY <1>1, <1>5, <2>1, <2>4 DEF CopyTo
  <2>6. b2 \in Seq(Bytes) /\ Len(b2) = C
    BY <2>5
  <2> QED
    BY <2>3, <2>6, Zenon
<1>7. PICK r \in Seq(Bytes) : /\ r = Ring(b, s, n) /\ Len(r) = n
                              /\ \A i \in 1 .. n : r[i] = b[Wrap(C, s + i)]
  <2>1. s \in 0 .. Len(b) - 1 /\ n \in 0 .. Len(b)
    BY <1>1
  <2>2. /\ Ring(b, s, n) \in Seq(Bytes) /\ Len(Ring(b, s, n)) = n
        /\ \A i \in 1 .. n : Ring(b, s, n)[i] = b[Wrap(Len(b), s + i)]
    BY <2>1, RingLinear
  <2> QED
    BY <1>1, <2>2, Zenon
<1>8. PICK q \in Seq(Bytes) : /\ q = Ring(b2, s, n + L) /\ Len(q) = n + L
                              /\ \A i \in 1 .. n + L : q[i] = b2[Wrap(C, s + i)]
  <2>1. s \in 0 .. Len(b2) - 1 /\ n + L \in 0 .. Len(b2)
    BY <1>1, <1>6
  <2>2. /\ Ring(b2, s, n + L) \in Seq(Bytes) /\ Len(Ring(b2, s, n + L)) = n + L
        /\ \A i \in 1 .. n + L : Ring(b2, s, n + L)[i] = b2[Wrap(Len(b2), s + i)]
    BY <1>6, <2>1, RingLinear
  <2>3. \A i \in 1 .. n + L : Ring(b2, s, n + L)[i] = b2[Wrap(C, s + i)]
    BY <1>6, <2>2, Zenon
  <2> QED
    BY <2>2, <2>3, Zenon
<1>9. PICK u \in Seq(Bytes) : /\ u = r \o p /\ Len(u) = n + L
                              /\ \A i \in 1 .. n + L : u[i] = IF i <= n THEN r[i] ELSE p[i - n]
  <2>1. /\ r \o p \in Seq(Bytes) /\ Len(r \o p) = Len(r) + Len(p)
        /\ \A i \in 1 .. Len(r) + Len(p) :
             (r \o p)[i] = IF i <= Len(r) THEN r[i] ELSE p[i - Len(r)]
    BY ConcatProperties
  <2>2. /\ r \o p \in Seq(Bytes) /\ Len(r \o p) = n + L
        /\ \A i \in 1 .. n + L : (r \o p)[i] = IF i <= n THEN r[i] ELSE p[i - n]
    BY <1>1, <1>7, <2>1, Zenon
  <2> QED
    BY <2>2, Zenon
<1>10. \A i \in 1 .. n + L : q[i] = u[i]
  <2> TAKE i \in 1 .. n + L
  <2>0. i \in Int /\ 1 <= i /\ i <= n + L
    OBVIOUS
  <2>1. CASE i <= n
    <3>1. /\ i \in 1 .. n /\ Wrap(C, s + i) = s + i /\ s + i \in 1 .. C
          /\ ~(s + i <= L - m) /\ ~(s + i > s + n)
      BY <1>0, <2>0, <2>1 DEF Wrap
    <3>2. b2[s + i] = b1[s + i] /\ b1[s + i] = b[s + i]
      BY <1>5, <1>6, <3>1
    <3> QED
      BY <1>7, <1>8, <1>9, <2>1, <3>1, <3>2
  <2>2. CASE i > n /\ s + i <= C
    <3>1. /\ ~(i <= n) /\ Wrap(C, s + i) = s + i /\ s + i \in 1 .. C
          /\ ~(s + i <= L - m) /\ s + i > s + n /\ s + i - (s + n) <= m
          /\ s + i - (s + n) = i - n /\ i - n \in 1 .. m
      BY <1>0, <2>0, <2>2 DEF Wrap
    <3>2. b2[s + i] = b1[s + i]
      BY <1>6, <3>1
    <3>3. b1[s + i] = p1[s + i - (s + n)]
      <4>1. PICK a \in 1 .. C : a = s + i
        BY <3>1, Zenon
      <4>2. a > s + n /\ a - (s + n) <= m
        BY <2>0, <3>1, <4>1
      <4>3. b1[a] = p1[a - (s + n)]
        BY <1>5, <4>2, Zenon
      <4> QED
        BY <2>0, <4>1, <4>3
    <3>4. p1[i - n] = p[i - n]
      BY <1>3, <3>1
    <3> QED
      BY <1>8, <1>9, <3>1, <3>2, <3>3, <3>4
  <2>3. CASE s + i > C
    <3>1. /\ ~(i <= n) /\ Wrap(C, s + i) = s + i - C /\ s + i - C \in 1 .. C
          /\ s + i - C <= L - m /\ s + i - C \in 1 .. L - m /\ m + (s + i - C) = i - n
      BY <1>0, <2>0, <2>3 DEF Wrap
    <3>2. b2[s + i - C] = p2[s + i - C] /\ p2[s + i - C] = p[i - n]
      BY <1>4, <1>6, <3>1
    <3> QED
      BY <1>8, <1>9, <3>1, <3>2
  <2> QED
    BY <2>0, <2>1, <2>2, <2>3
<1>11. q = u
  BY <1>8, <1>9, <1>10, SameBytes
<1> QED
  BY <1>1, <1>6, <1>7, <1>8, <1>9, <1>11, Zenon

(* What Write is called with: at least one byte. *)
LEMMA ChunkTypes ==
  ASSUME NEW p \in Chunks
  PROVE  p \in Seq(Bytes) /\ Len(p) \in Nat /\ Len(p) > 0
<1>1. PICK m \in 0 .. MaxChunk : p \in [1 .. m -> Bytes]
  BY DEF Chunks, BoundedSeq, SeqOf
<1>2. p \in Seq(Bytes) /\ p # <<>>
  BY <1>1, RingAssumption DEF Chunks
<1> QED
  BY <1>2

(* The contents in the next state, in terms of the fields. *)
LEMMA NextContents ==
  Contents' = Ring(buf', start', size')
  BY DEF Contents, Ring, Capacity

(* Consuming k bytes keeps the fields in range and leaves the contents     *)
(* without their first k bytes.                                            *)
LEMMA ConsumeDrops ==
  ASSUME TypeOK, NEW k \in Nat, k <= size, Consume(k)
  PROVE  /\ start' \in 0 .. Capacity - 1 /\ size' \in 0 .. Capacity
         /\ buf' = buf /\ panicked' = panicked
         /\ Contents' = SubSeq(Contents, k + 1, size)
<1>1. /\ buf \in Seq(Bytes) /\ start \in 0 .. Len(buf) - 1 /\ size \in 0 .. Len(buf)
      /\ k \in 0 .. size /\ Capacity = Len(buf) /\ size - k \in 0 .. Len(buf)
  BY ContentsIs DEF TypeOK
<1>2. /\ start' = (start + k) % Len(buf) /\ size' = size - k
      /\ buf' = buf /\ panicked' = panicked
  BY <1>1, Zenon DEF Consume
<1>3. /\ (start + k) % Len(buf) \in 0 .. Len(buf) - 1
      /\ Ring(buf, (start + k) % Len(buf), size - k) = SubSeq(Ring(buf, start, size), k + 1, size)
  BY <1>1, RingDrop
<1>4. Contents = Ring(buf, start, size)
  BY ContentsIs
<1>5. Contents' = Ring(buf, (start + k) % Len(buf), size - k)
  BY <1>2, NextContents, Zenon
<1> QED
  BY <1>1, <1>2, <1>3, <1>4, <1>5, Zenon

(* Bytes handed to a reader: k bytes from the front, which are then gone,  *)
(* are what the queue of bytes gives.                                      *)
LEMMA GetStep ==
  ASSUME TypeOK, NEW k \in Nat, k <= size,
         io' = <<"get", SubSeq(Contents, 1, k)>>, Consume(k)
  PROVE  TypeOK' /\ Queue!Next
<1>1. /\ Contents \in Seq(Bytes) /\ Len(Contents) = size /\ size \in Nat
  BY ContentsIs
<1>2. SubSeq(Contents, 1, k) \in Seq(Bytes)
  BY <1>1, FirstPiece, Zenon
<1>3. /\ start' \in 0 .. Capacity - 1 /\ size' \in 0 .. Capacity
      /\ buf' = buf /\ panicked' = panicked
      /\ Contents' = SubSeq(Contents, k + 1, size)
  BY ConsumeDrops
<1>4. TypeOK'
  BY <1>2, <1>3 DEF TypeOK, Capacity
<1>5. k \in 0 .. Len(Contents)
  BY <1>1
<1>6. Queue!Get(k)
  BY <1>1, <1>3, Zenon DEF Queue!Get
<1> QED
  BY <1>4, <1>5, <1>6, Zenon DEF Queue!Next

(* read. *)
LEMMA ReadStep ==
  ASSUME TypeOK, NEW n \in 1 .. MaxCapacity, Read(n)
  PROVE  TypeOK' /\ Queue!Next
<1>1. n \in Nat
  BY RingAssumption
<1>2. /\ Contents \in Seq(Bytes) /\ Len(Contents) = size /\ size \in Nat
  BY ContentsIs
<1>3. PICK k \in Nat : k = (IF n < size THEN n ELSE size) /\ k <= size
  BY <1>1, <1>2
<1>4. Peek(n) = SubSeq(Contents, 1, k)
  BY <1>1, <1>3, PeekIsFront, Zenon
<1>5. Len(Peek(n)) = k
  BY <1>2, <1>3, <1>4, FirstPiece, Zenon
<1>6. io' = <<"get", SubSeq(Contents, 1, k)>> /\ Consume(k)
  BY <1>4, <1>5, Zenon DEF Read
<1> QED
  BY <1>3, <1>6, GetStep

(* trySlice: n bytes from the front, or all if there are fewer. *)
LEMMA TrySliceTakes ==
  ASSUME TypeOK, NEW n \in Nat, TrySlice(n)
  PROVE  \E k \in Nat : /\ k = (IF size < n THEN size ELSE n) /\ k <= size
                        /\ io' = <<"get", SubSeq(Contents, 1, k)>> /\ Consume(k)
                        /\ SubSeq(Contents, 1, k) \in Seq(Bytes) /\ Len(SubSeq(Contents, 1, k)) = k
<1>2. /\ Contents \in Seq(Bytes) /\ Len(Contents) = size /\ size \in Nat
  BY ContentsIs
<1>3. PICK k \in Nat : k = (IF size < n THEN size ELSE n) /\ k <= size
  BY <1>2
<1>4. Take(n) = SubSeq(Contents, 1, k)
  BY <1>3, TakeIsFront, Zenon
<1>5. Len(SubSeq(Contents, 1, k)) = k /\ SubSeq(Contents, 1, k) \in Seq(Bytes)
  BY <1>2, <1>3, FirstPiece, Zenon
<1>6. size = 0 => <<>> = SubSeq(Contents, 1, k)
  <2>1. size = 0 => Len(SubSeq(Contents, 1, k)) = 0
    BY <1>3, <1>5
  <2> QED
    BY <1>5, <2>1, EmptySeq
<1>7. io' = <<"get", SubSeq(Contents, 1, k)>>
  BY <1>4, <1>6, Zenon DEF TrySlice
<1>8. io'[2] = SubSeq(Contents, 1, k)
  BY <1>7
<1>9. Consume(k)
  BY <1>5, <1>8, Zenon DEF TrySlice
<1> QED
  BY <1>3, <1>5, <1>7, <1>9, Zenon

(* trySlice is a read of the queue of bytes. *)
LEMMA TrySliceStep ==
  ASSUME TypeOK, NEW n \in Nat, TrySlice(n)
  PROVE  TypeOK' /\ Queue!Next
<1>1. PICK k \in Nat : /\ k <= size /\ io' = <<"get", SubSeq(Contents, 1, k)>> /\ Consume(k)
  BY TrySliceTakes, Zenon
<1> QED
  BY <1>1, GetStep

(* write, when buf is replaced by one that holds the contents and p. *)
LEMMA WriteGrowsStep ==
  ASSUME TypeOK, NEW p \in Seq(Bytes), Len(p) > 0, WriteGrows(p)
  PROVE  /\ TypeOK' /\ size' = size + Len(p) /\ panicked' = panicked
         /\ Contents' = Contents \o p /\ io' = <<"put", p>>
<1>1. /\ Contents \in Seq(Bytes) /\ Len(Contents) = size /\ size \in Nat
  BY ContentsIs
<1>2. p \in Seq(Bytes) /\ Len(p) \in Nat /\ Len(p) > 0
  OBVIOUS
<1>3. Take(size) = Contents
  <2>1. Take(size) = SubSeq(Contents, 1, size)
    BY <1>1, TakeIsFront
  <2> QED
    BY <1>1, <2>1, SubSeqFull
<1>4. size = 0 => <<>> = Contents
  BY <1>1, EmptySeq
<1>5. buf' = Contents \o p
  BY <1>3, <1>4, Zenon DEF WriteGrows
<1>6. start' = 0 /\ size' = size + Len(p) /\ io' = <<"put", p>> /\ panicked' = panicked
      /\ size + Len(p) <= MaxCapacity
  BY DEF WriteGrows
<1>7. PICK u \in Seq(Bytes) : u = Contents \o p /\ Len(u) = size + Len(p)
  <2>1. Contents \o p \in Seq(Bytes) /\ Len(Contents \o p) = size + Len(p)
    BY <1>1, <1>2, ConcatProperties
  <2> QED
    BY <2>1, Zenon
<1>8. Len(u) \in 1 .. MaxCapacity /\ 0 \in 0 .. Len(u) - 1 /\ Len(u) \in 0 .. Len(u)
  BY <1>1, <1>2, <1>6, <1>7, RingAssumption
<1>9. TypeOK'
  BY <1>2, <1>5, <1>6, <1>7, <1>8 DEF TypeOK, Capacity
<1>10. Contents' = u
  <2>1. Contents' = Ring(u, 0, Len(u))
    BY <1>5, <1>6, <1>7, NextContents, Zenon
  <2>2. PICK r \in Seq(Bytes) : /\ r = Ring(u, 0, Len(u)) /\ Len(r) = Len(u)
                                /\ \A i \in 1 .. Len(u) : r[i] = u[Wrap(Len(u), 0 + i)]
    <3>1. /\ Ring(u, 0, Len(u)) \in Seq(Bytes) /\ Len(Ring(u, 0, Len(u))) = Len(u)
          /\ \A i \in 1 .. Len(u) : Ring(u, 0, Len(u))[i] = u[Wrap(Len(u), 0 + i)]
      BY <1>8, RingLinear
    <3> QED
      BY <3>1, Zenon
  <2>3. \A i \in 1 .. Len(u) : Wrap(Len(u), 0 + i) = i
    BY DEF Wrap
  <2>4. r = u
    BY <2>2, <2>3, SameBytes
  <2> QED
    BY <2>1, <2>2, <2>4, Zenon
<1> QED
  BY <1>6, <1>7, <1>9, <1>10, Zenon

(* write, in place. *)
LEMMA WriteFitsStep ==
  ASSUME TypeOK, NEW p \in Seq(Bytes), Len(p) > 0, WriteFits(p)
  PROVE  /\ TypeOK' /\ size' = size + Len(p) /\ panicked' = panicked
         /\ Contents' = Contents \o p /\ io' = <<"put", p>>
<1>1. /\ buf \in Seq(Bytes) /\ Capacity = Len(buf)
      /\ start \in Nat /\ size \in Nat /\ start < Len(buf) /\ size <= Len(buf)
      /\ Len(buf) \in Nat
  BY ContentsIs DEF TypeOK
<1>2. p \in Seq(Bytes) /\ Len(p) \in Nat /\ Len(p) > 0
  OBVIOUS
<1>3. size + Len(p) <= Len(buf) /\ start + size <= Len(buf)
  BY <1>1, Zenon DEF WriteFits, Fits
<1>4. PICK m \in Nat : /\ m = (IF Len(buf) - (start + size) < Len(p)
                               THEN Len(buf) - (start + size) ELSE Len(p))
                       /\ m <= Len(p)
  BY <1>1, <1>2, <1>3
<1>5. Len(UpTo(p, Capacity - (start + size))) = m
  <2>1. UpTo(p, Capacity - (start + size)) = SubSeq(p, 1, m)
    BY <1>1, <1>4, Zenon DEF UpTo
  <2> QED
    BY <1>2, <1>4, <2>1, FirstPiece, Zenon
<1>6. /\ buf' = CopyTo(CopyTo(buf, start + size, SubSeq(p, 1, m)), 0, SubSeq(p, m + 1, Len(p)))
      /\ size' = size + Len(p) /\ io' = <<"put", p>> /\ start' = start /\ panicked' = panicked
  BY <1>5, Zenon DEF WriteFits
<1>7. /\ buf' \in Seq(Bytes) /\ Len(buf') = Len(buf)
      /\ Ring(buf', start, size + Len(p)) = Ring(buf, start, size) \o p
  <2>1. \A k, s, n \in Nat : \A b2 :
          /\ s < Len(buf) /\ s + n <= Len(buf) /\ n + Len(p) <= Len(buf)
          /\ k = (IF Len(buf) - (s + n) < Len(p) THEN Len(buf) - (s + n) ELSE Len(p))
          /\ b2 = CopyTo(CopyTo(buf, s + n, SubSeq(p, 1, k)), 0, SubSeq(p, k + 1, Len(p)))
          => /\ b2 \in Seq(Bytes) /\ Len(b2) = Len(buf)
             /\ Ring(b2, s, n + Len(p)) = Ring(buf, s, n) \o p
    BY <1>1, <1>2, CopyAppends, Zenon
  <2>2. PICK s \in Nat, n \in Nat : s = start /\ n = size
    BY <1>1
  <2>3. /\ s < Len(buf) /\ s + n <= Len(buf) /\ n + Len(p) <= Len(buf)
        /\ m = (IF Len(buf) - (s + n) < Len(p) THEN Len(buf) - (s + n) ELSE Len(p))
        /\ buf' = CopyTo(CopyTo(buf, s + n, SubSeq(p, 1, m)), 0, SubSeq(p, m + 1, Len(p)))
    BY <1>1, <1>3, <1>4, <1>6, <2>2, Zenon
  <2>4. /\ buf' \in Seq(Bytes) /\ Len(buf') = Len(buf)
        /\ Ring(buf', s, n + Len(p)) = Ring(buf, s, n) \o p
    <3>1. \A b2 :
            /\ s < Len(buf) /\ s + n <= Len(buf) /\ n + Len(p) <= Len(buf)
            /\ m = (IF Len(buf) - (s + n) < Len(p) THEN Len(buf) - (s + n) ELSE Len(p))
            /\ b2 = CopyTo(CopyTo(buf, s + n, SubSeq(p, 1, m)), 0, SubSeq(p, m + 1, Len(p)))
            => /\ b2 \in Seq(Bytes) /\ Len(b2) = Len(buf)
               /\ Ring(b2, s, n + Len(p)) = Ring(buf, s, n) \o p
      BY <2>1, Zenon
    <3> QED
      BY <2>3, <3>1, Zenon
  <2> QED
    BY <2>2, <2>4, Zenon
<1>8. TypeOK'
  BY <1>1, <1>2, <1>3, <1>6, <1>7 DEF TypeOK, Capacity
<1>9. Contents' = Contents \o p
  BY <1>6, <1>7, ContentsIs, NextContents, Zenon
<1> QED
  BY <1>6, <1>8, <1>9, Zenon

(* Write appends to the contents, unless it panics and leaves everything   *)
(* as it was.                                                              *)
LEMMA WriteStep ==
  ASSUME TypeOK, NEW p \in Seq(Bytes), Len(p) > 0, Write(p)
  PROVE  /\ TypeOK'
         /\ \/ /\ panicked' = TRUE /\ size' = size
               /\ Contents' = Contents /\ io' = io
            \/ /\ panicked' = panicked /\ size' = size + Len(p)
               /\ Contents' = Contents \o p /\ io' = <<"put", p>>
<1>1. CASE WriteGrows(p)
  BY <1>1, WriteGrowsStep, Zenon
<1>2. CASE WriteFits(p)
  BY <1>2, WriteFitsStep, Zenon
<1>3. CASE WritePanics(p)
  <2>1. start' = start /\ size' = size /\ buf' = buf /\ io' = io /\ panicked' = TRUE
    BY <1>3 DEF WritePanics
  <2>2. TypeOK'
    BY <2>1 DEF TypeOK, Capacity
  <2>3. Contents' = Contents
    BY <2>1, ContentsIs, NextContents, Zenon
  <2> QED
    BY <2>1, <2>2, <2>3, Zenon
<1> QED
  BY <1>1, <1>2, <1>3, Zenon DEF Write

(* Every step keeps the fields in range, and is a step of the queue of     *)
(* bytes or, for a write that panics, none.                                *)
LEMMA RingStep ==
  TypeOK /\ [Next]_vars => TypeOK' /\ [Queue!Next]_<<Contents, io>>
<1> SUFFICES ASSUME TypeOK, [Next]_vars
             PROVE  TypeOK' /\ [Queue!Next]_<<Contents, io>>
  OBVIOUS
<1>1. ASSUME NEW p \in Chunks, Write(p)
      PROVE  TypeOK' /\ [Queue!Next]_<<Contents, io>>
  <2>1. p \in Seq(Bytes) /\ Len(p) > 0
    BY <1>1, ChunkTypes
  <2>2. \/ Contents' = Contents /\ io' = io
        \/ Contents' = Contents \o p /\ io' = <<"put", p>>
    BY <1>1, <2>1, WriteStep, Zenon
  <2>3. TypeOK'
    BY <1>1, <2>1, WriteStep, Zenon
  <2>4. CASE Contents' = Contents /\ io' = io
    BY <2>3, <2>4
  <2>5. CASE Contents' = Contents \o p /\ io' = <<"put", p>>
    <3>1. Queue!Put(p)
      BY <2>5, Zenon DEF Queue!Put
    <3> QED
      BY <1>1, <2>3, <3>1, Zenon DEF Queue!Next
  <2> QED
    BY <2>2, <2>4, <2>5
<1>2. ASSUME NEW n \in 1 .. MaxCapacity, Read(n)
      PROVE  TypeOK' /\ [Queue!Next]_<<Contents, io>>
  BY <1>2, ReadStep
<1>3. ASSUME NEW n \in 1 .. MaxCapacity, TrySlice(n)
      PROVE  TypeOK' /\ [Queue!Next]_<<Contents, io>>
  <2>1. n \in Nat
    BY <1>3, RingAssumption
  <2> QED
    BY <1>3, <2>1, TrySliceStep
<1>4. ASSUME Reset
      PROVE  TypeOK' /\ [Queue!Next]_<<Contents, io>>
  <2>1. /\ start' = 0 /\ size' = 0 /\ buf' = buf /\ io' = <<"clear", <<>>>>
        /\ panicked' = panicked
    BY <1>4 DEF Reset
  <2>2. TypeOK'
    <3>1. <<"clear", <<>>>> \in {"put", "get", "clear"} \X Seq(Bytes)
      BY EmptySeq
    <3>2. 0 \in 0 .. Capacity - 1 /\ 0 \in 0 .. Capacity
      BY ContentsIs
    <3> QED
      BY <2>1, <3>1, <3>2 DEF TypeOK, Capacity
  <2>3. Contents' = <<>>
    <3>1. Ring(buf, 0, 0) = <<>>
      BY DEF Ring
    <3> QED
      BY <2>1, <3>1, NextContents, Zenon
  <2>4. Queue!Clear
    BY <2>1, <2>3, Zenon DEF Queue!Clear
  <2> QED
    BY <2>2, <2>4, Zenon DEF Queue!Next
<1>5. CASE UNCHANGED vars
  <2>1. /\ start' = start /\ size' = size /\ buf' = buf /\ io' = io
        /\ panicked' = panicked
    BY <1>5 DEF vars
  <2>2. TypeOK'
    BY <2>1 DEF TypeOK, Capacity
  <2>3. Contents' = Contents
    BY <2>1, ContentsIs, NextContents, Zenon
  <2> QED
    BY <2>1, <2>2, <2>3
<1> QED
  BY <1>1, <1>2, <1>3, <1>4, <1>5, Zenon DEF Next

(* The new buffer has its fields in range and is an empty queue. *)
LEMMA RingInit ==
  Init => TypeOK /\ Queue!Init
<1> SUFFICES ASSUME Init PROVE TypeOK /\ Queue!Init
  OBVIOUS
<1>1. /\ start = 0 /\ size = 0 /\ io = <<"clear", <<>>>> /\ panicked = FALSE
      /\ buf = [i \in 1 .. InitialCapacity |-> Zero]
  BY DEF Init
<1>2. /\ buf \in Seq(Bytes) /\ Len(buf) = InitialCapacity
  BY <1>1, RingAssumption
<1>3. TypeOK
  <2>1. <<"clear", <<>>>> \in {"put", "get", "clear"} \X Seq(Bytes)
    BY EmptySeq
  <2>2. 0 \in 0 .. Len(buf) - 1 /\ 0 \in 0 .. Len(buf) /\ Len(buf) \in 1 .. MaxCapacity
    BY <1>2, RingAssumption
  <2> QED
    BY <1>1, <1>2, <2>1, <2>2 DEF TypeOK, Capacity
<1>4. Contents = <<>>
  BY <1>1 DEF Contents
<1> QED
  BY <1>1, <1>3, <1>4, Zenon DEF Queue!Init

(* start, size and buf of ringBuffer are in range after every sequence of  *)
(* writes, reads and resets, for every capacity: the slice expressions of  *)
(* read and trySlice do not panic.                                         *)
THEOREM RingTypes == Spec => []TypeOK
<1>1. Init => TypeOK
  BY RingInit
<1>2. TypeOK /\ [Next]_vars => TypeOK'
  BY RingStep
<1> QED
  BY <1>1, <1>2, PTL DEF Spec

(* ringBuffer is a queue of bytes, for every capacity, every size of write *)
(* and read, across every wrap around the end of buf and every growth.     *)
THEOREM RingIsQueue == Spec => ImplementsByteQueue
<1>1. Init => Queue!Init
  BY RingInit
<1>2. TypeOK /\ [Next]_vars => [Queue!Next]_<<Contents, io>>
  BY RingStep
<1> QED
  BY <1>1, <1>2, RingTypes, PTL DEF Spec, ImplementsByteQueue, Queue!Spec
=============================================================================
