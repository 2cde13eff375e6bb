----------------------------- MODULE MCFuseBatch -----------------------------
(* Two workers and eight rows: several pairs of blocks wait for their fusion,
   and the completer meets a full priority ring. *)
EXTENDS FuseBatch

NoTask == << >>
=============================================================================
