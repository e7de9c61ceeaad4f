----------------------------- MODULE ByteQueue -----------------------------
(***************************************************************************)
(* What pkg/iorpc/buffer.go's ringBuffer promises: a queue of bytes of     *)
(* unlimited length, read in the order it was written.                     *)
(***************************************************************************)
EXTENDS Naturals, Sequences

CONSTANT Chunks     \* what may be written at once

VARIABLES
  bytes,            \* written and not yet read
  io                \* the last operation and the bytes it took or returned

Init == bytes = <<>> /\ io = <<"clear", <<>>>>

Put(p) == bytes' = bytes \o p /\ io' = <<"put", p>>

Get(n) ==
  /\ io' = <<"get", SubSeq(bytes, 1, n)>>
  /\ bytes' = SubSeq(bytes, n + 1, Len(bytes))

Clear == bytes' = <<>> /\ io' = <<"clear", <<>>>>

Next == \/ \E p \in Chunks : Put(p)
        \/ \E n \in 0 .. Len(bytes) : Get(n)
        \/ Clear

Spec == Init /\ [][Next]_<<bytes, io>>
=============================================================================
