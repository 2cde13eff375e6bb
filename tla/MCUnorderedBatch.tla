--------------------------- MODULE MCUnorderedBatch ---------------------------
(* Rings of three slots between a maker with four tasks, three workers and
   the completer: every ring fills. *)
EXTENDS UnorderedBatch
=============================================================================
