------------------------------ MODULE MCRegions ------------------------------
(***************************************************************************)
(* The two modules about regions, each a subject of its own: the blocks of *)
(* a region shared by three callers, the second of which has it for both   *)
(* its inputs, so that a caller can be the reader of the first block,      *)
(* share it with another, or conflict over each of its edges; and all DAGs *)
(* of four images with up to two inputs each, with all ways for their      *)
(* setup to fail: diamonds, images used twice by one operator, sharing     *)
(* below sharing.                                                          *)
(***************************************************************************)
EXTENDS Region, RegionDag

VARIABLE subject

TwoInputs == { << 1, 1 >>, << 2, 1 >>, << 2, 2 >>, << 3, 1 >> }

Single == inputs = [i \in Images |-> << >>] /\ failing = {}

MCInit == \/ subject = "blocks" /\ Init /\ Single /\ InitDag
          \/ subject = "dag" /\ Init /\ InitDag

MCNext == \/ subject = "blocks" /\ Next /\ UNCHANGED << subject, dagVars >>
          \/ subject = "dag" /\ DagStep /\ UNCHANGED << subject, vars >>

MCSpec == MCInit /\ [][MCNext]_<< subject, vars, dagVars >>
=============================================================================
