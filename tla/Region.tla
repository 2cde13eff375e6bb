------------------------------- MODULE Region -------------------------------
(***************************************************************************)
(* runtime/region.c: the pixel storage of a region that several branches   *)
(* of the runtime DAG share.  This module is about one such region S, in   *)
(* one thread, and the regions that call it.                               *)
(*                                                                         *)
(* A caller reaches S over one edge per input that is S; the edge records  *)
(* in `slot` which result block of S it uses.  All start with the first    *)
(* block; an edge whose request conflicts with the reader of its block     *)
(* gets a block of its own.  Fetches nest: between a caller's request to S *)
(* and its use of the answer other callers may run, namely those on the    *)
(* way to its remaining inputs.  Callers are numbered so that the inputs   *)
(* of a caller lead to higher numbers only.                                *)
(*                                                                         *)
(* A request is its rectangle; of a block only the rectangle it holds and  *)
(* its reader matter.  The pixels are computed before the fetch returns.   *)
(***************************************************************************)
EXTENDS Naturals, Sequences, FiniteSets

CONSTANTS Edges,        \* pairs << caller, input >> whose input is S
          Areas,        \* the rectangles requested
          NoArea        \* of a block or edge that holds nothing

ASSUME EdgesAssumption ==
    IsFiniteSet(Edges) /\ Edges # {} /\ Edges \subseteq Nat \X Nat
ASSUME NoAreaAssumption == NoArea \notin Areas

VARIABLES result,       \* region->result: blocks; ruse is their number
          slot,         \* per edge: the caller's slots.v [input]
          frames,       \* the callers in their fetch callback, innermost last
          held          \* per edge: area of the block its caller still uses

vars == << result, slot, frames, held >>

Caller(e) == e[1]
Callers   == {Caller(e) : e \in Edges}

(* Every construction of an edge to S adds one to rcap (aktive_region_new). *)
rcap == Cardinality(Edges)

Init == /\ result = << >>
        /\ slot = [e \in Edges |-> 1]
        /\ frames = << >>
        /\ held = [e \in Edges |-> NoArea]

Innermost == frames[Len(frames)]

(* The sink, or an input of the innermost caller, leads to a fetch of c. *)
Begin(c) == /\ frames # << >> => Innermost < c
            /\ frames' = Append(frames, c)
            /\ UNCHANGED << result, slot, held >>

(* The callback is done: its pixels are in the block of the caller. *)
End == /\ frames # << >>
       /\ held' = [e \in Edges |-> IF Caller(e) = Innermost THEN NoArea ELSE held[e]]
       /\ frames' = SubSeq(frames, 1, Len(frames) - 1)
       /\ UNCHANGED << result, slot >>

(* The callback has copied what it needs out of a block. *)
Process(e) == /\ frames # << >> /\ Innermost = Caller(e)
              /\ held[e] # NoArea
              /\ held' = [held EXCEPT ![e] = NoArea]
              /\ UNCHANGED << result, slot, frames >>

-----------------------------------------------------------------------------
(* aktive_region_fetch_area_core *)

(* The first request of all sets up the first block. *)
Blocks(e) == IF result = << >> THEN << [area |-> NoArea, reader |-> Caller(e)] >> ELSE result

(* The area last seen: the block is returned as it is. *)
Same(e, a) == /\ Blocks(e)[slot[e]].area = a
              /\ UNCHANGED << result, slot >>

(* Faulty forms of Refill and Conflict: the reader is not compared; the edge
   keeps its slot, or uses the last block before the new one. *)
RefillAny(e, a) == /\ Blocks(e)[slot[e]].area # a
                   /\ result' = [Blocks(e) EXCEPT ![slot[e]].area = a]
                   /\ UNCHANGED slot

ConflictKeepsSlot(e, a) ==
    /\ Blocks(e)[slot[e]].area # a
    /\ Blocks(e)[slot[e]].reader # Caller(e)
    /\ result' = Append(Blocks(e), [area |-> a, reader |-> Caller(e)])
    /\ UNCHANGED slot

ConflictPrevious(e, a) ==
    /\ Blocks(e)[slot[e]].area # a
    /\ Blocks(e)[slot[e]].reader # Caller(e)
    /\ result' = Append(Blocks(e), [area |-> a, reader |-> Caller(e)])
    /\ slot' = [slot EXCEPT ![e] = Len(result)]

(* A request of the block's reader: the block gets the new area. *)
Refill(e, a) == /\ Blocks(e)[slot[e]].area # a
                /\ Blocks(e)[slot[e]].reader = Caller(e)
                /\ result' = [Blocks(e) EXCEPT ![slot[e]].area = a]
                /\ UNCHANGED slot

(* Anybody else gets a new block, and the edge uses that one from now on. *)
Conflict(e, a) == /\ Blocks(e)[slot[e]].area # a
                  /\ Blocks(e)[slot[e]].reader # Caller(e)
                  /\ result' = Append(Blocks(e), [area |-> a, reader |-> Caller(e)])
                  /\ slot' = [slot EXCEPT ![e] = Len(result')]

Fetch(e, a) == /\ frames # << >> /\ Innermost = Caller(e)
               /\ Same(e, a) \/ Refill(e, a) \/ Conflict(e, a)
               /\ held' = [held EXCEPT ![e] = a]
               /\ UNCHANGED frames

Next == \/ \E c \in Callers : Begin(c)
        \/ \E e \in Edges, a \in Areas : Fetch(e, a)
        \/ \E e \in Edges : Process(e)
        \/ End

Spec == Init /\ [][Next]_vars

-----------------------------------------------------------------------------
TypeOK == /\ result \in Seq([area : Areas \cup {NoArea}, reader : Callers])
          /\ slot \in [Edges -> 1 .. rcap]
          /\ frames \in Seq(Callers)
          /\ held \in [Edges -> Areas \cup {NoArea}]

(* The assertion "too many conflicts": each edge conflicts at most once, and
   one edge never does, so the blocks allocated for the region are enough. *)
SlotsSuffice == Len(result) <= rcap

(* The rewrite of the caller settles the conflict for good: a block beyond
   the first is used by one edge only, and its caller is the reader. *)
Settled == \A e, f \in Edges :
               slot[e] # 1 => /\ slot[e] <= Len(result)
                              /\ result[slot[e]].reader = Caller(e)
                              /\ slot[f] = slot[e] => f = e

(* A block in use by its reader keeps its area, whatever other callers ask
   for in between. *)
OwnerIntact == \A e \in Edges :
    /\ held[e] # NoArea
    /\ result[slot[e]].reader = Caller(e)
    /\ \A f \in Edges \ {e} : Caller(f) = Caller(e) => slot[f] # slot[e]
    => result[slot[e]].area = held[e]

(* region.h: "Future requests for the same area are also safe, regardless of
   caller." *)
SameAreaSafe == \A e \in Edges :
    held[e] # NoArea /\ result[slot[e]].reader # Caller(e)
        => result[slot[e]].area = held[e]

(* region.h: "It is assumed that the owning caller has already processed
   everything from the preceding calls." *)
PrecedingProcessed == \A e \in Edges :
    held[e] # NoArea /\ result[slot[e]].reader = Caller(e)
        => result[slot[e]].area = held[e]
=============================================================================
