----------------------------- MODULE MCVecCache -----------------------------
(* Two threads over four vectors: one fills while the other, deep in its
   recursion, waits for the same vector or reads ahead of the stores. *)
EXTENDS VecCache
=============================================================================
