---------------------------- MODULE MCRingBuffer ----------------------------
(* Three slots, so that the indices wrap at a size that is no power of two,
   two producers and two takers of the same ring. *)
EXTENDS RingBuffer
=============================================================================
