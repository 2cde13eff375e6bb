------------------------------- MODULE MCImages -------------------------------
(* Two variables, two kinds of meta data, three images. *)
EXTENDS Images
=============================================================================
