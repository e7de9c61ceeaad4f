------------------------------ MODULE MCBatch ------------------------------
(* Symmetry for the instances of Batch: AsyncResult objects differ in      *)
(* nothing but their names.                                                *)
EXTENDS Batch, TLC

Symmetry == Permutations(Objects)
=============================================================================
