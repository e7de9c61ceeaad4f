----------------------------- MODULE MCConnPool -----------------------------
(* Instances of ConnPool for TLC. *)
EXTENDS ConnPool, TLC

(* The block of command 1 comes in two pieces. *)
SmallBlocks == [k \in Known |-> IF k = 1 THEN 2 ELSE 1]
=============================================================================
