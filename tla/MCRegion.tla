------------------------------ MODULE MCRegion ------------------------------
(* What does not hold of the blocks of a region: of three callers with one
   edge each, and of one caller that has the region for both its inputs, as
   op::math::matrix::multiply of an image with itself. *)
EXTENDS Region

OneInput == { << 1, 1 >>, << 2, 1 >>, << 3, 1 >> }

Squaring == { << 1, 1 >>, << 1, 2 >> }
=============================================================================
