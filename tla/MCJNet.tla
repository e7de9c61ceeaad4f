------------------------------- MODULE MCJNet -------------------------------
(* Instances of JNet for TLC. *)
EXTENDS JNet, TLC

CONSTANTS g1, g2, g3, qa, qb

(* Two connections that share the worker pool. *)
TwoQueues == g1 :> qa @@ g2 :> qa @@ g3 :> qb
=============================================================================
