----------------------------- MODULE MCRegionDag -----------------------------
(* All DAGs of four images with up to two inputs each, and all ways for
   their setup to fail. *)
EXTENDS RegionDag
=============================================================================
