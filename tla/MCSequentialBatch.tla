-------------------------- MODULE MCSequentialBatch --------------------------
(* Three workers, so that two of them can overtake the one whose result the
   completer waits for, and tasks enough for every ring to fill and every
   worker to get a second task. *)
EXTENDS SequentialBatch
=============================================================================
