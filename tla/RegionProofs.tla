---------------------------- MODULE RegionProofs ----------------------------
(***************************************************************************)
(* Proofs about Region, for any set of edges and areas, and about          *)
(* RegionDag, for any DAG of images and any way for their setup to fail.   *)
(***************************************************************************)
EXTENDS Region, RegionDag, FiniteSetTheorems, SequenceTheorems, TLAPS

Block == [area : Areas \cup {NoArea}, reader : Callers]
Moved == {e \in Edges : slot[e] # 1}

(* Types, without the bound on the slots, which follows from StorageInv. *)
Types == /\ result \in Seq(Block)
         /\ slot \in [Edges -> Nat \ {0}]
         /\ frames \in Seq(Callers)
         /\ held \in [Edges -> Areas \cup {NoArea}]

(* Before the first request nothing is held.  After it there is one block for
   each edge that has moved, and the first one, which the edge that came
   first never leaves. *)
StorageInv ==
    /\ result = << >> => \A e \in Edges : slot[e] = 1 /\ held[e] = NoArea
    /\ result # << >> => /\ Len(result) = Cardinality(Moved) + 1
                         /\ \E e \in Edges : slot[e] = 1 /\ result[1].reader = Caller(e)

IInv == Types /\ StorageInv /\ Settled /\ OwnerIntact

LEMMA MovedFinite == IsFiniteSet(Moved) /\ Cardinality(Moved) \in Nat
  <1>1. Moved \subseteq Edges
    BY DEF Moved
  <1> QED  BY <1>1, EdgesAssumption, FS_Subset, FS_CardinalityType

(* The bound: an edge that has not moved is left. *)
LEMMA Bounds == ASSUME IInv PROVE SlotsSuffice /\ TypeOK
  <1>1. rcap \in Nat /\ rcap >= 1
    BY EdgesAssumption, FS_CardinalityType, FS_EmptySet DEF rcap
  <1>2. Len(result) <= rcap
    <2>1. CASE result = << >>
      BY <1>1, <2>1
    <2>2. CASE result # << >>
      <3>1. PICK e \in Edges : slot[e] = 1
        BY <2>2 DEF IInv, StorageInv
      <3>2. Moved \subseteq Edges \ {e}
        BY <3>1 DEF Moved
      <3>3. IsFiniteSet(Edges \ {e}) /\ Cardinality(Edges \ {e}) = rcap - 1
        BY EdgesAssumption, FS_RemoveElement DEF rcap
      <3>4. Cardinality(Moved) <= rcap - 1
        BY <3>2, <3>3, FS_Subset
      <3> QED  BY <1>1, <2>2, <3>4, MovedFinite DEF IInv, StorageInv
    <2> QED  BY <2>1, <2>2
  <1>3. \A e \in Edges : slot[e] \in 1 .. rcap
    <2> TAKE e \in Edges
    <2>1. slot[e] \in Nat \ {0}
      BY DEF IInv, Types
    <2>2. CASE slot[e] = 1
      BY <1>1, <2>2
    <2>3. CASE slot[e] # 1
      <3>1. slot[e] <= Len(result)
        BY <2>3 DEF IInv, Settled
      <3>2. Len(result) \in Nat
        BY DEF IInv, Types
      <3> QED  BY <1>1, <1>2, <2>1, <3>1, <3>2
    <2> QED  BY <2>2, <2>3
  <1>4. slot \in [Edges -> 1 .. rcap]
    BY <1>3 DEF IInv, Types
  <1> QED  BY <1>2, <1>4 DEF IInv, Types, TypeOK, SlotsSuffice, Block

LEMMA InitIInv == Init => IInv
  <1> SUFFICES ASSUME Init PROVE IInv
    OBVIOUS
  <1>1. Types
    BY DEF Init, Types
  <1>2. StorageInv
    BY DEF Init, StorageInv
  <1>3. Settled
    BY DEF Init, Settled
  <1>4. OwnerIntact
    BY DEF Init, OwnerIntact
  <1> QED  BY <1>1, <1>2, <1>3, <1>4 DEF IInv

-----------------------------------------------------------------------------
(* The block an edge uses exists once it has been set up. *)
LEMMA BlocksType ==
    ASSUME IInv, NEW e \in Edges
    PROVE  /\ Blocks(e) \in Seq(Block)
           /\ Len(Blocks(e)) >= 1
           /\ slot[e] \in 1 .. Len(Blocks(e))
           /\ result # << >> => Blocks(e) = result
           /\ result = << >> => Blocks(e) = << [area |-> NoArea, reader |-> Caller(e)] >>
  <1>1. [area |-> NoArea, reader |-> Caller(e)] \in Block
    BY DEF Block, Callers
  <1>2. /\ Blocks(e) \in Seq(Block)
        /\ result # << >> => Blocks(e) = result
        /\ result = << >> => Blocks(e) = << [area |-> NoArea, reader |-> Caller(e)] >>
    BY <1>1 DEF Blocks, IInv, Types
  <1>3. Len(Blocks(e)) >= 1
    <2>1. CASE result = << >>
      <3>1. \E x : Blocks(e) = << x >>
        BY <1>2, <2>1
      <3>2. PICK x : Blocks(e) = << x >>
        BY <3>1
      <3> QED  BY <3>2
    <2>2. CASE result # << >>
      <3>1. result \in Seq(Block) /\ Blocks(e) = result
        BY <1>2, <2>2 DEF IInv, Types
      <3>2. Len(result) \in Nat /\ Len(result) # 0
        BY <2>2, <3>1, EmptySeq
      <3> QED  BY <3>1, <3>2
    <2> QED  BY <2>1, <2>2
  <1>4. slot[e] \in 1 .. Len(Blocks(e))
    <2>1. slot[e] \in Nat \ {0}
      BY DEF IInv, Types
    <2>2. CASE slot[e] = 1
      BY <1>2, <1>3, <2>2
    <2>3. CASE slot[e] # 1
      <3>1. slot[e] <= Len(result)
        BY <2>3 DEF IInv, Settled
      <3>2. result # << >>
        BY <2>3 DEF IInv, StorageInv
      <3> QED  BY <1>2, <2>1, <3>1, <3>2
    <2> QED  BY <2>2, <2>3
  <1> QED  BY <1>2, <1>3, <1>4

LEMMA StepSame ==
    ASSUME IInv, NEW e \in Edges, NEW a \in Areas, Fetch(e, a), Same(e, a)
    PROVE  IInv'
  <1>1. result # << >>
    BY BlocksType, NoAreaAssumption DEF Same
  <1>2. /\ result[slot[e]].area = a
        /\ UNCHANGED << result, slot, frames >>
        /\ held' = [held EXCEPT ![e] = a]
    BY <1>1, BlocksType DEF Same, Fetch
  <1>3. Types'
    BY <1>2 DEF IInv, Types
  <1>4. StorageInv'
    BY <1>1, <1>2 DEF IInv, StorageInv, Moved
  <1>5. Settled'
    BY <1>2 DEF IInv, Settled
  <1>6. OwnerIntact'
    BY <1>2 DEF IInv, OwnerIntact, Types
  <1> QED  BY <1>3, <1>4, <1>5, <1>6 DEF IInv

LEMMA StepRefill ==
    ASSUME IInv, NEW e \in Edges, NEW a \in Areas, Fetch(e, a), Refill(e, a)
    PROVE  IInv'
  <1> DEFINE b == Blocks(e)
  <1>0. /\ b \in Seq(Block) /\ Len(b) >= 1 /\ slot[e] \in 1 .. Len(b)
        /\ result # << >> => b = result
        /\ result = << >> => b = << [area |-> NoArea, reader |-> Caller(e)] >>
    BY BlocksType
  <1>1. /\ b[slot[e]].reader = Caller(e)
        /\ result' = [b EXCEPT ![slot[e]].area = a]
        /\ UNCHANGED << slot, frames >>
        /\ held' = [held EXCEPT ![e] = a]
    BY DEF Refill, Fetch
  <1> HIDE DEF b
  <1>2. /\ result' \in Seq(Block) /\ Len(result') = Len(b)
        /\ \A k \in 1 .. Len(b) : /\ result'[k].reader = b[k].reader
                                  /\ k # slot[e] => result'[k] = b[k]
        /\ result'[slot[e]].area = a
    <2>1. b[slot[e]] \in Block
      BY <1>0
    <2>2. [b[slot[e]] EXCEPT !.area = a] \in Block
      BY <2>1 DEF Block
    <2>3. result' = [b EXCEPT ![slot[e]] = [b[slot[e]] EXCEPT !.area = a]]
      BY <1>1
    <2>4. result' \in Seq(Block) /\ Len(result') = Len(b)
      BY <1>0, <2>2, <2>3
    <2>5. result'[slot[e]] = [b[slot[e]] EXCEPT !.area = a]
      BY <1>0, <2>3
    <2>6. result'[slot[e]].area = a /\ result'[slot[e]].reader = b[slot[e]].reader
      BY <2>1, <2>5 DEF Block
    <2>7. \A k \in 1 .. Len(b) : k # slot[e] => result'[k] = b[k]
      BY <1>0, <2>3
    <2> QED  BY <2>4, <2>6, <2>7
  <1>3. Types'
    BY <1>1, <1>2 DEF IInv, Types
  <1>4. result' # << >>
    BY <1>0, <1>2
  <1>5. Len(result') = Cardinality(Moved') + 1
    <2>1. Moved' = Moved
      BY <1>1 DEF Moved
    <2>2. CASE result = << >>
      <3>1. Moved = {}
        BY <2>2 DEF IInv, StorageInv, Moved
      <3>2. Len(b) = 1
        BY <1>0, <2>2
      <3> QED  BY <1>2, <2>1, <3>1, <3>2, FS_EmptySet
    <2>3. CASE result # << >>
      BY <1>0, <1>2, <2>1, <2>3 DEF IInv, StorageInv
    <2> QED  BY <2>2, <2>3
  <1>6. \E f \in Edges : slot'[f] = 1 /\ result'[1].reader = Caller(f)
    <2>1. CASE result = << >>
      <3>1. slot[e] = 1
        BY <2>1 DEF IInv, StorageInv
      <3> QED  BY <1>0, <1>1, <1>2, <2>1, <3>1
    <2>2. CASE result # << >>
      BY <1>0, <1>1, <1>2, <2>2 DEF IInv, StorageInv
    <2> QED  BY <2>1, <2>2
  <1>7. Settled'
    <2>1. CASE result = << >>
      BY <1>1, <2>1 DEF IInv, Settled, StorageInv
    <2>2. CASE result # << >>
      BY <1>0, <1>1, <1>2, <2>2 DEF IInv, Settled, Types
    <2> QED  BY <2>1, <2>2
  <1>8. OwnerIntact'
    <2> SUFFICES ASSUME NEW d \in Edges, held'[d] # NoArea,
                        result'[slot'[d]].reader = Caller(d),
                        \A f \in Edges \ {d} : Caller(f) = Caller(d) => slot'[f] # slot'[d]
                 PROVE  result'[slot'[d]].area = held'[d]
      BY DEF OwnerIntact
    <2>1. CASE d = e
      BY <1>1, <1>2, <2>1 DEF IInv, Types
    <2>2. CASE d # e
      <3>1. held[d] # NoArea /\ held'[d] = held[d]
        BY <1>1, <2>2 DEF IInv, Types
      <3>2. result # << >>
        BY <3>1 DEF IInv, StorageInv
      <3>3. slot[d] \in 1 .. Len(result)
        BY <3>2, BlocksType
      <3>4. result[slot[d]].reader = Caller(d)
        BY <1>0, <1>1, <1>2, <3>2, <3>3
      <3>5. slot[d] # slot[e]
        BY <1>0, <1>1, <2>2, <3>2, <3>4
      <3>6. result'[slot[d]] = result[slot[d]]
        BY <1>0, <1>2, <3>2, <3>3, <3>5
      <3> QED  BY <1>1, <3>1, <3>4, <3>6 DEF IInv, OwnerIntact
    <2> QED  BY <2>1, <2>2
  <1> QED  BY <1>3, <1>4, <1>5, <1>6, <1>7, <1>8 DEF IInv, StorageInv

(* A conflict comes after the first request: that one finds itself reader. *)
LEMMA StepConflict ==
    ASSUME IInv, NEW e \in Edges, NEW a \in Areas, Fetch(e, a), Conflict(e, a)
    PROVE  IInv'
  <1>1. result # << >>
    <2> SUFFICES ASSUME result = << >> PROVE FALSE
      OBVIOUS
    <2>1. slot[e] = 1 /\ Blocks(e)[1].reader = Caller(e)
      BY BlocksType DEF IInv, StorageInv
    <2> QED  BY <2>1 DEF Conflict
  <1>2. slot[e] \in 1 .. Len(result) /\ Blocks(e) = result
    BY <1>1, BlocksType
  <1>3. /\ result[slot[e]].reader # Caller(e)
        /\ result' = Append(result, [area |-> a, reader |-> Caller(e)])
        /\ slot' = [slot EXCEPT ![e] = Len(result')]
        /\ UNCHANGED frames
        /\ held' = [held EXCEPT ![e] = a]
    BY <1>2 DEF Conflict, Fetch
  <1>4. /\ result' \in Seq(Block) /\ Len(result') = Len(result) + 1
        /\ Len(result) \in Nat /\ Len(result) >= 1
        /\ \A k \in 1 .. Len(result) : result'[k] = result[k]
        /\ result'[Len(result) + 1] = [area |-> a, reader |-> Caller(e)]
    <2>1. [area |-> a, reader |-> Caller(e)] \in Block
      BY DEF Block, Callers
    <2> QED  BY <1>1, <1>3, <2>1 DEF IInv, Types
  <1>5. /\ slot'[e] = Len(result) + 1
        /\ \A d \in Edges \ {e} : slot'[d] = slot[d]
    BY <1>3, <1>4 DEF IInv, Types
  <1>6. Types'
    BY <1>3, <1>4 DEF IInv, Types
  <1>7. slot[e] = 1
    BY <1>3 DEF IInv, Settled
  <1>8. Len(result') = Cardinality(Moved') + 1
    <2>1. Moved' = Moved \cup {e} /\ e \notin Moved
      BY <1>4, <1>5, <1>7 DEF Moved
    <2>2. Cardinality(Moved') = Cardinality(Moved) + 1
      BY <2>1, MovedFinite, FS_AddElement
    <2> QED  BY <1>1, <1>4, <2>2, MovedFinite DEF IInv, StorageInv
  <1>9. \E f \in Edges : slot'[f] = 1 /\ result'[1].reader = Caller(f)
    <2>1. PICK f \in Edges : slot[f] = 1 /\ result[1].reader = Caller(f)
      BY <1>1 DEF IInv, StorageInv
    <2>2. f # e
      BY <1>3, <1>7, <2>1
    <2> QED  BY <1>4, <1>5, <2>1, <2>2
  <1>10. \A d \in Edges : slot[d] \in 1 .. Len(result)
    BY <1>1, BlocksType
  <1>11. Settled'
    BY <1>4, <1>5, <1>10 DEF IInv, Settled
  <1>12. OwnerIntact'
    <2> SUFFICES ASSUME NEW d \in Edges, held'[d] # NoArea,
                        result'[slot'[d]].reader = Caller(d),
                        \A f \in Edges \ {d} : Caller(f) = Caller(d) => slot'[f] # slot'[d]
                 PROVE  result'[slot'[d]].area = held'[d]
      BY DEF OwnerIntact
    <2>1. CASE d = e
      BY <1>3, <1>4, <1>5, <2>1 DEF IInv, Types
    <2>2. CASE d # e
      <3>1. held'[d] = held[d] /\ slot'[d] = slot[d] /\ result'[slot[d]] = result[slot[d]]
        BY <1>3, <1>4, <1>5, <1>10, <2>2 DEF IInv, Types
      <3>2. result[slot[d]].reader = Caller(d)
        BY <3>1
      <3>3. Caller(e) = Caller(d) => slot[e] # slot[d]
        BY <1>3, <3>2
      <3>4. \A f \in Edges \ {d} : Caller(f) = Caller(d) => slot[f] # slot[d]
        BY <1>5, <3>1, <3>3
      <3> QED  BY <3>1, <3>2, <3>4 DEF IInv, OwnerIntact
    <2> QED  BY <2>1, <2>2
  <1> QED  BY <1>4, <1>6, <1>8, <1>9, <1>11, <1>12 DEF IInv, StorageInv

-----------------------------------------------------------------------------
LEMMA StepIInv == IInv /\ [Next]_vars => IInv'
  <1> SUFFICES ASSUME IInv, [Next]_vars PROVE IInv'
    OBVIOUS
  <1>1. ASSUME NEW c \in Callers, Begin(c) PROVE IInv'
    <2>1. UNCHANGED << result, slot, held >> /\ frames' \in Seq(Callers)
      BY <1>1 DEF Begin, IInv, Types
    <2> QED  BY <2>1 DEF IInv, Types, StorageInv, Moved, Settled, OwnerIntact
  <1>2. ASSUME NEW e \in Edges, NEW a \in Areas, Fetch(e, a) PROVE IInv'
    BY <1>2, StepSame, StepRefill, StepConflict DEF Fetch
  <1>3. ASSUME NEW e \in Edges, Process(e) PROVE IInv'
    <2>1. /\ UNCHANGED << result, slot, frames >>
          /\ held' \in [Edges -> Areas \cup {NoArea}]
          /\ \A d \in Edges : held'[d] \in {held[d], NoArea}
      BY <1>3 DEF Process, IInv, Types
    <2> QED  BY <2>1 DEF IInv, Types, StorageInv, Moved, Settled, OwnerIntact
  <1>4. ASSUME End PROVE IInv'
    <2>1. /\ UNCHANGED << result, slot >>
          /\ held' \in [Edges -> Areas \cup {NoArea}]
          /\ \A d \in Edges : held'[d] \in {held[d], NoArea}
      BY <1>4 DEF End, IInv, Types
    <2>2. frames' \in Seq(Callers)
      BY <1>4 DEF End, IInv, Types
    <2> QED  BY <2>1, <2>2 DEF IInv, Types, StorageInv, Moved, Settled, OwnerIntact
  <1>5. CASE UNCHANGED vars
    BY <1>5 DEF vars, IInv, Types, StorageInv, Moved, Settled, OwnerIntact
  <1> QED  BY <1>1, <1>2, <1>3, <1>4, <1>5 DEF Next

(* The inductive invariant holds in every reachable state. *)
THEOREM Invariance == Spec => []IInv
  BY InitIInv, StepIInv, PTL DEF Spec

(* The assertion "too many conflicts" never fails, and every slot an edge
   records exists, however many callers share the region. *)
THEOREM StorageSuffices == Spec => [](TypeOK /\ SlotsSuffice)
  BY Invariance, Bounds, PTL

(* A conflict is settled once and for all. *)
THEOREM ConflictsSettle == Spec => []Settled
  BY Invariance, PTL DEF IInv

(* The reader of a block finds what it asked for as long as it uses it, at
   any depth of nesting, unless it shares the block with itself. *)
THEOREM OwnersIntact == Spec => []OwnerIntact
  BY Invariance, PTL DEF IInv
-----------------------------------------------------------------------------
(* Construction and destruction of the runtime DAG. *)
Positions == 1 .. Len(stack)
OnStack   == {stack[p].image : p \in Positions}
Frames    == [op : {"new", "destroy"}, image : Images, next : Nat \ {0}]

DagTypes == /\ inputs \in [Images -> Seq(Images)]
            /\ \A i \in Images : \A k \in 1 .. Len(inputs[i]) : inputs[i][k] > i
            /\ \A i \in Images : Len(inputs[i]) <= MaxInputs
            /\ phase \in {"new", "use", "destroy", "done", "crashed"}
            /\ stack \in Seq(Frames)
            /\ context \in SUBSET Images
            /\ srcs \in [Images -> Seq(BOOLEAN)]
            /\ rcaps \in [Images -> Nat]
            /\ news \in [Images -> Nat]
            /\ frees \in [Images -> Nat]
            /\ error \in BOOLEAN

(* A caller is at the input whose call is above it; regions are destroyed only
   above the calls that create some. *)
Path == /\ \A p \in Positions : stack[p].next <= Len(inputs[stack[p].image]) + 1
        /\ \A p \in 1 .. Len(stack) - 1 :
               /\ stack[p].next <= Len(inputs[stack[p].image])
               /\ inputs[stack[p].image][stack[p].next] = stack[p + 1].image
        /\ \A p, q \in Positions : p < q => /\ stack[p].image < stack[q].image
                                            /\ stack[q].op = "new" => stack[p].op = "new"

Outermost == /\ stack = << >> <=> phase \notin {"new", "destroy"}
             /\ stack # << >> => stack[1].image = Root
             /\ phase = "destroy" => stack[1].op = "destroy"
             /\ phase = "use" => Root \in context /\ ~ error

(* A region under construction is not known yet; the inputs that a destruction
   has passed are known no more. *)
Passed == \A p \in Positions :
    IF stack[p].op = "new" THEN stack[p].image \notin context
    ELSE \A k \in 1 .. stack[p].next - 1 : inputs[stack[p].image][k] \notin context

(* Each region holds one reference to its image, until it is destroyed. *)
Referenced == \A i \in Images :
    /\ frees[i] <= news[i]
    /\ phase # "crashed" => news[i] = frees[i] + (IF i \in context \cup OnStack THEN 1 ELSE 0)

(* Input k of image j will still be looked at when the region of j is destroyed. *)
Pending(j, k) ==
    /\ k \in 1 .. Len(inputs[j])
    /\ \/ j \in context \ OnStack
       \/ \E p \in Positions : /\ stack[p].image = j
                               /\ IF stack[p].op = "new" THEN k < stack[p].next ELSE k >= stack[p].next

(* No region is out of reach of the destructions to come. *)
Reached == phase # "crashed" =>
    \A i \in context : \/ i \in OnStack
                       \/ i = Root /\ phase = "use"
                       \/ \E j \in Images, k \in Nat : Pending(j, k) /\ inputs[j][k] = i

(* As long as nothing fails: what has been connected, and how often. *)
Users(i) == {e \in Images \X (1 .. MaxInputs) : e[2] <= Len(srcs[e[1]]) /\ inputs[e[1]][e[2]] = i}

Connected == ~ error /\ phase \in {"new", "use"} =>
    /\ \A p \in Positions : stack[p].op = "new" /\ Len(srcs[stack[p].image]) = stack[p].next - 1
    /\ \A j \in context : Len(srcs[j]) = Len(inputs[j])
    /\ \A j \in Images : j \notin context \cup OnStack => srcs[j] = << >>
    /\ \A j \in Images : \A k \in 1 .. Len(srcs[j]) :
           k <= Len(inputs[j]) /\ srcs[j][k] /\ inputs[j][k] \in context
    /\ \A i \in Images : frees[i] = 0
    /\ \A i \in context : rcaps[i] = Cardinality(Users(i)) + (IF i = Root THEN 1 ELSE 0)

DagInv == DagTypes /\ Path /\ Outermost /\ Passed /\ Referenced /\ Reached /\ Connected

-----------------------------------------------------------------------------
(* Facts about numbers and sequences. *)

(* Images in a set have a first one.  The sets of those up to one of them are
   finite; a least of these sets ends in the first image. *)
LEMMA First ==
    ASSUME NEW n \in Nat, NEW S \in SUBSET (1 .. n), S # {}
    PROVE  \E m \in S : \A i \in S : m <= i
  <1> DEFINE UpTo(i) == {k \in S : k <= i}
             Sets == {UpTo(i) : i \in S}
             All == 1 .. n
  <1>1. IsWellFoundedOn(StrictSubsetOrdering(All), FiniteSubsetsOf(All))
    BY FS_StrictSubsetOrderingWellFounded
  <1>2. IsFiniteSet(All)
    BY FS_Interval
  <1>3. FiniteSubsetsOf(All) = SUBSET All
    BY <1>2, FS_FiniteSubsetsOfFinite
  <1>4. Sets \subseteq SUBSET All /\ Sets # {}
    OBVIOUS
  <1>5. PICK x \in Sets : \A y \in Sets : ~ (<< y, x >> \in StrictSubsetOrdering(All))
    <2> HIDE DEF All, Sets
    <2>1. IsWellFoundedOn(StrictSubsetOrdering(All), SUBSET All)
      BY <1>1, <1>3
    <2> QED  BY <2>1, <1>4, WFMin
  <1>6. PICK m \in S : x = UpTo(m)
    OBVIOUS
  <1>7. ASSUME NEW i \in S, i < m PROVE FALSE
    <2>1. i \in Int /\ m \in Int /\ \A k \in S : k \in Int
      OBVIOUS
    <2>2. \A k \in S : k <= i => k <= m
      BY <1>7, <2>1
    <2>3. UpTo(i) \subseteq UpTo(m)
      BY <2>2
    <2>4. m \in UpTo(m) /\ m \notin UpTo(i)
      BY <1>7, <2>1
    <2>5. << UpTo(i), UpTo(m) >> \in StrictSubsetOrdering(All)
      BY <2>3, <2>4 DEF StrictSubsetOrdering
    <2> QED  BY <2>5, <1>5, <1>6
  <1> QED  BY <1>7

LEMMA TopFrame ==
    ASSUME stack \in Seq(Frames), stack # << >>
    PROVE  /\ Len(stack) \in Nat \ {0} /\ Len(stack) \in Positions
           /\ Top \in Frames
           /\ Outer \in Seq(Frames) /\ Len(Outer) = Len(stack) - 1
           /\ \A p \in 1 .. Len(stack) - 1 : Outer[p] = stack[p]
  <1>1. Len(stack) \in Nat \ {0}
    OBVIOUS
  <1>2. Len(stack) \in Positions /\ Top \in Frames
    BY <1>1 DEF Positions, Top
  <1>3. \A i \in 1 .. Len(stack) - 1 : stack[i] \in Frames
    BY <1>1
  <1>4. /\ Outer \in Seq(Frames)
        /\ Len(Outer) = IF 1 <= Len(stack) - 1 THEN ((Len(stack) - 1) - 1) + 1 ELSE 0
        /\ \A i \in 1 .. ((Len(stack) - 1) - 1) + 1 : Outer[i] = stack[(1 + i) - 1]
    BY <1>1, <1>3, SubSeqProperties DEF Outer
  <1>5. Len(Outer) = Len(stack) - 1
    <2> DEFINE n == Len(stack)
               l == Len(Outer)
    <2>1. n \in Nat \ {0} /\ l = IF 1 <= n - 1 THEN ((n - 1) - 1) + 1 ELSE 0
      BY <1>1, <1>4
    <2> HIDE DEF n, l
    <2>2. l = n - 1
      BY <2>1
    <2> QED  BY <2>2 DEF n, l
  <1>6. \A i \in 1 .. Len(stack) - 1 : i \in 1 .. ((Len(stack) - 1) - 1) + 1 /\ (1 + i) - 1 = i
    BY <1>1
  <1>7. \A i \in 1 .. Len(stack) - 1 : Outer[i] = stack[i]
    BY <1>4, <1>6
  <1> QED  BY <1>1, <1>2, <1>4, <1>5, <1>7

LEMMA Advanced ==
    ASSUME NEW s \in Seq(Frames), s # << >>
    PROVE  /\ Advance(s) \in Seq(Frames) /\ Len(Advance(s)) = Len(s) /\ Len(s) \in Nat \ {0}
           /\ \A p \in 1 .. Len(s) - 1 : Advance(s)[p] = s[p]
           /\ Advance(s)[Len(s)].op = s[Len(s)].op
           /\ Advance(s)[Len(s)].image = s[Len(s)].image
           /\ Advance(s)[Len(s)].next = s[Len(s)].next + 1
  <1> DEFINE f == [s[Len(s)] EXCEPT !.next = @ + 1]
  <1>1. Len(s) \in 1 .. Len(s) /\ s[Len(s)] \in Frames
    OBVIOUS
  <1>2. f \in Frames /\ f.op = s[Len(s)].op /\ f.image = s[Len(s)].image /\ f.next = s[Len(s)].next + 1
    BY <1>1 DEF Frames
  <1>3. Advance(s) = [s EXCEPT ![Len(s)] = f]
    BY <1>1 DEF Advance
  <1> HIDE DEF f
  <1>4. /\ Advance(s) \in Seq(Frames) /\ Len(Advance(s)) = Len(s)
        /\ \A p \in 1 .. Len(s) : Advance(s)[p] = IF p = Len(s) THEN f ELSE s[p]
    BY <1>1, <1>2, <1>3, ExceptSeq
  <1> QED  BY <1>1, <1>2, <1>4

(* The images on the stack differ. *)
LEMMA Distinct ==
    ASSUME DagTypes, Path
    PROVE  \A p, q \in Positions : stack[p].image = stack[q].image => p = q
  <1>1. \A p \in Positions : stack[p] \in Frames /\ p \in Int
    BY DEF DagTypes, Positions
  <1>2. \A p \in Positions : stack[p].image \in Int
    BY <1>1, DagAssumption DEF Frames, Images
  <1> QED  BY <1>1, <1>2 DEF Path

-----------------------------------------------------------------------------
(* The walk goes on to the next input of the innermost call: what all steps of
   this kind have in common. *)
Goes == /\ DagTypes /\ Path /\ Outermost /\ stack # << >> /\ MoreInputs
        /\ stack' = Advance(stack)
        /\ UNCHANGED << inputs, phase, context, error, news, frees >>

LEMMA GoesOn ==
    ASSUME Goes
    PROVE  /\ Positions' = Positions /\ Len(stack) \in Positions /\ stack' \in Seq(Frames)
           /\ \A p \in Positions : /\ stack'[p].op = stack[p].op
                                   /\ stack'[p].image = stack[p].image
                                   /\ stack'[p].next = IF p = Len(stack) THEN stack[p].next + 1
                                                       ELSE stack[p].next
           /\ OnStack' = OnStack
  <1>1. stack \in Seq(Frames) /\ stack # << >>
    BY DEF Goes, DagTypes
  <1>2. Positions' = Positions /\ Len(stack) \in Positions /\ stack' \in Seq(Frames)
    BY <1>1, TopFrame, Advanced DEF Goes, Positions
  <1>3. \A p \in Positions : /\ stack'[p].op = stack[p].op
                             /\ stack'[p].image = stack[p].image
                             /\ stack'[p].next = IF p = Len(stack) THEN stack[p].next + 1
                                                 ELSE stack[p].next
    <2> SUFFICES ASSUME NEW p \in Positions
                 PROVE  /\ stack'[p].op = stack[p].op
                        /\ stack'[p].image = stack[p].image
                        /\ stack'[p].next = IF p = Len(stack) THEN stack[p].next + 1 ELSE stack[p].next
      OBVIOUS
    <2>1. CASE p = Len(stack)
      BY <1>1, <2>1, Advanced DEF Goes
    <2>2. CASE p # Len(stack)
      <3>1. p \in 1 .. Len(stack) - 1
        BY <1>1, <2>2 DEF Positions
      <3>2. stack'[p] = stack[p]
        BY <1>1, <3>1, Advanced DEF Goes
      <3> QED  BY <2>2, <3>2
    <2> QED  BY <2>1, <2>2
  <1> QED  BY <1>2, <1>3 DEF OnStack

LEMMA GoesKeeps == ASSUME Goes PROVE Path' /\ Outermost' /\ (Referenced => Referenced')
  <1>1. /\ stack \in Seq(Frames) /\ \A p \in Positions : stack[p] \in Frames /\ p \in Int
        /\ Top.next <= Len(inputs[Top.image]) /\ Len(stack) \in Nat \ {0}
        /\ \A i \in Images : Len(inputs[i]) \in Nat
    BY TopFrame DEF Goes, DagTypes, MoreInputs, Positions
  <1>2. Path'
    <2>1. \A p \in Positions : stack[p].next \in Nat /\ stack[p].image \in Images
      BY <1>1 DEF Frames
    <2>2. \A p \in Positions : stack'[p].next <= Len(inputs[stack[p].image]) + 1
      BY <1>1, <2>1, GoesOn DEF Path, Goes, Top
    <2>3. \A p \in 1 .. Len(stack) - 1 : p \in Positions /\ p + 1 \in Positions /\ p # Len(stack)
      BY <1>1 DEF Positions
    <2>4. \A p \in 1 .. Len(stack) - 1 :
              /\ stack'[p].next <= Len(inputs[stack'[p].image])
              /\ inputs[stack'[p].image][stack'[p].next] = stack'[p + 1].image
      BY <2>3, GoesOn DEF Path, Goes
    <2>5. \A p, q \in Positions : p < q => /\ stack'[p].image < stack'[q].image
                                           /\ stack'[q].op = "new" => stack'[p].op = "new"
      BY GoesOn DEF Path, Goes
    <2>6. Len(stack') = Len(stack)
      BY <1>1, Advanced DEF Goes
    <2>7. /\ \A p \in Positions' : stack'[p].next <= Len(inputs'[stack'[p].image]) + 1
          /\ \A p \in 1 .. Len(stack') - 1 :
                 /\ stack'[p].next <= Len(inputs'[stack'[p].image])
                 /\ inputs'[stack'[p].image][stack'[p].next] = stack'[p + 1].image
      BY <2>2, <2>4, <2>6, GoesOn DEF Goes
    <2> QED  BY <2>5, <2>7, GoesOn DEF Path
  <1>3. Outermost'
    <2>1. stack' # << >> /\ 1 \in Positions
      BY <1>1, GoesOn DEF Positions, Goes
    <2> QED  BY <2>1, GoesOn DEF Outermost, Goes
  <1>4. Referenced => Referenced'
    BY GoesOn DEF Referenced, Goes
  <1> QED  BY <1>2, <1>3, <1>4

LEMMA StepSkipInput == ASSUME DagInv, SkipInput PROVE DagInv'
  <1>1. /\ Goes /\ UNCHANGED << inputs, regions >> /\ Top.op = "destroy"
        /\ Input \notin context /\ phase \in {"new", "destroy"} /\ Top = stack[Len(stack)]
    BY DEF Goes, DagInv, SkipInput, InCall, regions, dag, DagTypes, Outermost, Top
  <1>2. /\ \A p \in Positions : stack[p] \in Frames /\ p \in Int
        /\ Len(stack) \in Positions
    BY <1>1, GoesOn DEF Goes, DagTypes, Positions
  <1>3. DagTypes'
    BY <1>1, GoesOn DEF DagInv, DagTypes, regions, Goes
  <1>4. Passed'
    <2> SUFFICES ASSUME NEW p \in Positions
                 PROVE  IF stack[p].op = "new" THEN stack[p].image \notin context
                        ELSE \A k \in 1 .. stack'[p].next - 1 : inputs[stack[p].image][k] \notin context
      BY <1>1, GoesOn DEF Passed, Goes
    <2>1. IF stack[p].op = "new" THEN stack[p].image \notin context
          ELSE \A k \in 1 .. stack[p].next - 1 : inputs[stack[p].image][k] \notin context
      BY DEF DagInv, Passed
    <2>2. CASE p = Len(stack)
      <3>1. \A k \in 1 .. stack'[p].next - 1 : k \in 1 .. stack[p].next - 1 \/ k = stack[p].next
        BY <1>1, <1>2, <2>2, GoesOn DEF Frames
      <3> QED  BY <1>1, <2>1, <2>2, <3>1 DEF Input, Top
    <2>3. CASE p # Len(stack)
      BY <1>1, <2>1, <2>3, GoesOn
    <2> QED  BY <2>2, <2>3
  <1>5. Reached'
    <2> SUFFICES ASSUME NEW i \in context, i \notin OnStack
                 PROVE  \E j \in Images, k \in Nat : Pending(j, k)' /\ inputs[j][k] = i
      BY <1>1, GoesOn DEF Reached, Goes
    <2>1. PICK j \in Images, k \in Nat : Pending(j, k) /\ inputs[j][k] = i
      BY <1>1 DEF DagInv, Reached
    <2>2. Pending(j, k)'
      <3>1. k \in 1 .. Len(inputs[j])
        BY <2>1 DEF Pending
      <3>2. CASE j \in context \ OnStack
        BY <1>1, <3>1, <3>2, GoesOn DEF Pending, Goes
      <3>3. ASSUME NEW p \in Positions, stack[p].image = j,
                   IF stack[p].op = "new" THEN k < stack[p].next ELSE k >= stack[p].next
            PROVE  Pending(j, k)'
        <4>1. p = Len(stack) => k # stack[p].next
          BY <1>1, <2>1, <3>3 DEF Input, Top
        <4>2. IF stack'[p].op = "new" THEN k < stack'[p].next ELSE k >= stack'[p].next
          BY <1>1, <1>2, <3>3, <4>1, GoesOn DEF Frames, Top
        <4> QED  BY <1>1, <3>1, <3>3, <4>2, GoesOn DEF Pending, Goes
      <3> QED  BY <2>1, <3>2, <3>3 DEF Pending
    <2> QED  BY <2>1, <2>2
  <1>6. Connected'
    <2>1. ~ error /\ phase \in {"new", "use"} => stack[Len(stack)].op = "new"
      BY <1>2 DEF DagInv, Connected
    <2> QED  BY <1>1, <2>1 DEF Connected, Goes
  <1> QED  BY <1>1, <1>3, <1>4, <1>5, <1>6, GoesKeeps DEF DagInv

-----------------------------------------------------------------------------
(* Counting users. *)

LEMMA UsersFinite ==
    ASSUME NEW i
    PROVE  IsFiniteSet(Users(i)) /\ Cardinality(Users(i)) \in Nat
  <1>1. IsFiniteSet(Images) /\ IsFiniteSet(1 .. MaxInputs)
    BY DagAssumption, FS_Interval DEF Images
  <1>2. IsFiniteSet(Images \X (1 .. MaxInputs))
    BY <1>1, FS_Product
  <1>3. Users(i) \subseteq Images \X (1 .. MaxInputs)
    BY DEF Users
  <1> QED  BY <1>2, <1>3, FS_Subset, FS_CardinalityType

(* The region of image j gets that of x as its input n. *)
Connects(j, n, x) == /\ DagTypes /\ UNCHANGED inputs
                     /\ n <= Len(inputs[j]) /\ inputs[j][n] = x /\ Len(srcs[j]) = n - 1
                     /\ srcs' = [srcs EXCEPT ![j] = Append(@, TRUE)]

LEMMA Connecting ==
    ASSUME NEW j \in Images, NEW n \in Nat \ {0}, NEW x \in Images, Connects(j, n, x)
    PROVE  /\ srcs' \in [Images -> Seq(BOOLEAN)]
           /\ Len(srcs'[j]) = n /\ srcs'[j][n]
           /\ \A k \in 1 .. n - 1 : srcs'[j][k] = srcs[j][k]
           /\ \A i \in Images : i # j => srcs'[i] = srcs[i]
           /\ Cardinality(Users(x)') = Cardinality(Users(x)) + 1
           /\ \A i \in Images : i # x => Users(i)' = Users(i)
  <1>1. srcs \in [Images -> Seq(BOOLEAN)] /\ srcs[j] \in Seq(BOOLEAN) /\ TRUE \in BOOLEAN
    BY DEF Connects, DagTypes
  <1>2. srcs'[j] = Append(srcs[j], TRUE) /\ \A i \in Images : i # j => srcs'[i] = srcs[i]
    BY <1>1 DEF Connects
  <1>3. /\ Append(srcs[j], TRUE) \in Seq(BOOLEAN)
        /\ Len(Append(srcs[j], TRUE)) = Len(srcs[j]) + 1
        /\ \A k \in 1 .. Len(srcs[j]) : Append(srcs[j], TRUE)[k] = srcs[j][k]
        /\ Append(srcs[j], TRUE)[Len(srcs[j]) + 1] = TRUE
    BY <1>1, AppendProperties
  <1>4. Len(srcs[j]) + 1 = n
    BY DEF Connects
  <1>5. srcs' \in [Images -> Seq(BOOLEAN)]
    BY <1>1, <1>3 DEF Connects
  <1>6. Len(srcs'[j]) = n
    BY <1>2, <1>3, <1>4
  <1>7. srcs'[j][n] = TRUE
    BY <1>2, <1>3, <1>4
  <1>8. \A k \in 1 .. n - 1 : srcs'[j][k] = srcs[j][k]
    BY <1>2, <1>3 DEF Connects
  <1> DEFINE e == << j, n >>
  <1>9. e \in Images \X (1 .. MaxInputs) /\ e[1] = j /\ e[2] = n
    <2>1. Len(inputs[j]) <= MaxInputs /\ Len(inputs[j]) \in Nat
      BY DEF Connects, DagTypes
    <2> QED  BY <2>1, DagAssumption DEF Connects
  <1>10. \A d \in Images \X (1 .. MaxInputs) : d[1] = j /\ d[2] = n => d = e
    OBVIOUS
  <1> HIDE DEF e
  <1>11. \A d \in Images \X (1 .. MaxInputs) : d # e => (d[2] <= Len(srcs'[d[1]]) <=> d[2] <= Len(srcs[d[1]]))
    <2> SUFFICES ASSUME NEW d \in Images \X (1 .. MaxInputs), d # e
                 PROVE  d[2] <= Len(srcs'[d[1]]) <=> d[2] <= Len(srcs[d[1]])
      OBVIOUS
    <2>1. CASE d[1] # j
      BY <1>2, <2>1
    <2>2. CASE d[1] = j
      <3>1. d[2] # n /\ d[2] \in Int
        BY <1>10, <2>2
      <3> QED  BY <1>4, <1>6, <2>2, <3>1
    <2> QED  BY <2>1, <2>2
  <1>12. \A i \in Images : i # x => Users(i)' = Users(i)
    <2> SUFFICES ASSUME NEW i \in Images, i # x PROVE Users(i)' = Users(i)
      OBVIOUS
    <2>1. inputs[e[1]][e[2]] # i
      BY <1>9 DEF Connects
    <2> QED  BY <1>11, <2>1 DEF Users, Connects
  <1>13. Users(x)' = Users(x) \cup {e} /\ e \notin Users(x)
    <2>1. e[2] <= Len(srcs'[e[1]]) /\ ~ (e[2] <= Len(srcs[e[1]])) /\ inputs[e[1]][e[2]] = x
      BY <1>4, <1>6, <1>9 DEF Connects
    <2> QED  BY <1>9, <1>11, <2>1 DEF Users, Connects
  <1>14. Cardinality(Users(x)') = Cardinality(Users(x)) + 1
    BY <1>13, UsersFinite, FS_AddElement
  <1> QED  BY <1>2, <1>5, <1>6, <1>7, <1>8, <1>12, <1>14

-----------------------------------------------------------------------------
LEMMA StepInputKnown == ASSUME DagInv, InputKnown PROVE DagInv'
  <1>1. /\ Goes /\ UNCHANGED << inputs, context, news, frees, error, phase >> /\ Top.op = "new"
        /\ Input \in context /\ phase \in {"new", "destroy"} /\ Top = stack[Len(stack)]
        /\ Input = inputs[Top.image][Top.next] /\ Top.next <= Len(inputs[Top.image])
        /\ rcaps' = [rcaps EXCEPT ![Input] = @ + 1]
        /\ srcs' = [srcs EXCEPT ![Top.image] = Append(@, TRUE)]
    BY DEF Goes, DagInv, InputKnown, InCall, MoreInputs, dag, DagTypes, Outermost, Top, Input
  <1>2. /\ \A p \in Positions : stack[p] \in Frames /\ p \in Int
        /\ Len(stack) \in Positions /\ Top.image \in Images /\ Top.next \in Nat \ {0}
    <2>1. \A p \in Positions : stack[p] \in Frames /\ p \in Int
      BY DEF DagInv, DagTypes, Positions
    <2>2. Len(stack) \in Positions /\ Top \in Frames
      BY <1>1, TopFrame DEF DagInv, DagTypes, Goes
    <2> QED  BY <2>1, <2>2 DEF Frames
  <1> Input \in Images
    BY <1>1 DEF DagInv, DagTypes
  <1>3. DagTypes'
    <2>1. srcs' \in [Images -> Seq(BOOLEAN)]
      <3>1. srcs \in [Images -> Seq(BOOLEAN)] /\ srcs[Top.image] \in Seq(BOOLEAN) /\ TRUE \in BOOLEAN
        BY <1>2 DEF DagInv, DagTypes
      <3>2. Append(srcs[Top.image], TRUE) \in Seq(BOOLEAN)
        BY <3>1, AppendProperties
      <3> QED  BY <1>1, <3>1, <3>2
    <2>2. rcaps' \in [Images -> Nat]
      <3>1. rcaps \in [Images -> Nat] /\ rcaps[Input] + 1 \in Nat
        BY DEF DagInv, DagTypes
      <3> QED  BY <1>1, <3>1
    <2> QED  BY <1>1, <2>1, <2>2, GoesOn DEF DagInv, DagTypes
  <1>4. Passed'
    <2> SUFFICES ASSUME NEW p \in Positions
                 PROVE  IF stack[p].op = "new" THEN stack[p].image \notin context
                        ELSE \A k \in 1 .. stack'[p].next - 1 : inputs[stack[p].image][k] \notin context
      BY <1>1, GoesOn DEF Passed, Goes
    <2>1. IF stack[p].op = "new" THEN stack[p].image \notin context
          ELSE \A k \in 1 .. stack[p].next - 1 : inputs[stack[p].image][k] \notin context
      BY DEF DagInv, Passed
    <2>2. stack[p].op # "new" => p # Len(stack)
      BY <1>1
    <2> QED  BY <1>1, <2>1, <2>2, GoesOn
  <1>5. Reached'
    <2> SUFFICES ASSUME NEW i \in context, i \notin OnStack
                 PROVE  \E j \in Images, k \in Nat : Pending(j, k)' /\ inputs[j][k] = i
      BY <1>1, GoesOn DEF Reached, Goes
    <2>1. PICK j \in Images, k \in Nat : Pending(j, k) /\ inputs[j][k] = i
      BY <1>1 DEF DagInv, Reached
    <2>2. k \in 1 .. Len(inputs[j])
      BY <2>1 DEF Pending
    <2>3. CASE j \in context \ OnStack
      BY <1>1, <2>1, <2>2, <2>3, GoesOn DEF Pending, Goes
    <2>4. ASSUME NEW p \in Positions, stack[p].image = j,
                 IF stack[p].op = "new" THEN k < stack[p].next ELSE k >= stack[p].next
          PROVE  Pending(j, k)'
      <3>1. stack[p].op # "new" => p # Len(stack)
        BY <1>1
      <3>2. IF stack'[p].op = "new" THEN k < stack'[p].next ELSE k >= stack'[p].next
        BY <1>1, <1>2, <2>4, <3>1, GoesOn DEF Frames
      <3> QED  BY <1>1, <2>2, <2>4, <3>2, GoesOn DEF Pending, Goes
    <2> QED  BY <2>1, <2>3, <2>4 DEF Pending
  <1>6. Connected'
    <2>1. PICK j \in Images, n \in Nat \ {0}, x \in Images : j = Top.image /\ n = Top.next /\ x = Input
      BY <1>2
    <2>10. SUFFICES ASSUME ~ error, phase = "new"
                   PROVE  /\ \A p \in Positions : stack[p].op = "new" /\ Len(srcs'[stack[p].image]) = stack'[p].next - 1
                          /\ \A i \in context : Len(srcs'[i]) = Len(inputs[i])
                          /\ \A i \in Images : i \notin context \cup OnStack => srcs'[i] = << >>
                          /\ \A i \in Images : \A k \in 1 .. Len(srcs'[i]) :
                                 k <= Len(inputs[i]) /\ srcs'[i][k] /\ inputs[i][k] \in context
                          /\ \A i \in Images : frees[i] = 0
                          /\ \A i \in context :
                                 rcaps'[i] = Cardinality(Users(i)') + (IF i = Root THEN 1 ELSE 0)
      BY <1>1, GoesOn DEF Connected
    <2>2. /\ \A p \in Positions : stack[p].op = "new" /\ Len(srcs[stack[p].image]) = stack[p].next - 1
          /\ \A i \in context : Len(srcs[i]) = Len(inputs[i])
          /\ \A i \in Images : i \notin context \cup OnStack => srcs[i] = << >>
          /\ \A i \in Images : \A k \in 1 .. Len(srcs[i]) :
                 k <= Len(inputs[i]) /\ srcs[i][k] /\ inputs[i][k] \in context
          /\ \A i \in Images : frees[i] = 0
          /\ \A i \in context : rcaps[i] = Cardinality(Users(i)) + (IF i = Root THEN 1 ELSE 0)
      BY <2>10 DEF DagInv, Connected
    <2>3. Connects(j, n, x) /\ j \in Images /\ n \in Nat \ {0} /\ x \in Images /\ x \in context
      BY <1>1, <1>2, <2>1, <2>2 DEF Connects, DagInv
    <2>4. j \in OnStack /\ j \notin context
      BY <1>1, <1>2, <2>1 DEF OnStack, DagInv, Passed
    <2>5. /\ Len(srcs'[j]) = n /\ srcs'[j][n]
          /\ \A k \in 1 .. n - 1 : srcs'[j][k] = srcs[j][k]
          /\ \A i \in Images : i # j => srcs'[i] = srcs[i]
          /\ Cardinality(Users(x)') = Cardinality(Users(x)) + 1
          /\ \A i \in Images : i # x => Users(i)' = Users(i)
      BY <2>3, Connecting
    <2>6. \A p \in Positions : Len(srcs'[stack[p].image]) = stack'[p].next - 1
      <3> SUFFICES ASSUME NEW p \in Positions
                   PROVE  Len(srcs'[stack[p].image]) = stack'[p].next - 1
        OBVIOUS
      <3>1. stack[p].image \in Images /\ stack[p].next \in Nat
        BY <1>2 DEF Frames
      <3>2. CASE p = Len(stack)
        <4>1. stack[p].image = j /\ stack'[p].next = n + 1
          BY <1>1, <2>1, <3>2, GoesOn
        <4> QED  BY <2>5, <4>1
      <3>3. CASE p # Len(stack)
        <4>1. stack[p].image # j
          BY <1>1, <1>2, <2>1, <3>3, Distinct DEF DagInv
        <4>2. stack'[p].next = stack[p].next
          BY <1>1, <3>3, GoesOn
        <4>3. Len(srcs[stack[p].image]) = stack[p].next - 1 /\ srcs'[stack[p].image] = srcs[stack[p].image]
          BY <2>2, <2>5, <3>1, <4>1
        <4> QED  BY <4>2, <4>3
      <3> QED  BY <3>2, <3>3
    <2>7. \A i \in Images : \A k \in 1 .. Len(srcs'[i]) :
                 k <= Len(inputs[i]) /\ srcs'[i][k] /\ inputs[i][k] \in context
      <3> SUFFICES ASSUME NEW i \in Images, NEW k \in 1 .. Len(srcs'[i])
                   PROVE  k <= Len(inputs[i]) /\ srcs'[i][k] /\ inputs[i][k] \in context
        OBVIOUS
      <3>1. CASE i # j
        BY <2>2, <2>5, <3>1
      <3>2. CASE i = j /\ k = n
        BY <2>3, <2>5, <3>2 DEF Connects
      <3>3. CASE i = j /\ k # n
        <4>1. k \in 1 .. n - 1 /\ Len(srcs[j]) = n - 1
          BY <2>3, <2>5, <3>3 DEF Connects
        <4> QED  BY <2>2, <2>5, <3>3, <4>1
      <3> QED  BY <3>1, <3>2, <3>3
    <2>8. \A i \in context : rcaps'[i] = Cardinality(Users(i)') + (IF i = Root THEN 1 ELSE 0)
      <3> SUFFICES ASSUME NEW i \in context
                   PROVE  rcaps'[i] = Cardinality(Users(i)') + (IF i = Root THEN 1 ELSE 0)
        OBVIOUS
      <3>1. i \in Images /\ rcaps \in [Images -> Nat] /\ rcaps' = [rcaps EXCEPT ![x] = @ + 1]
        BY <1>1, <2>1 DEF DagInv, DagTypes
      <3>2. CASE i = x
        BY <2>2, <2>5, <3>1, <3>2, UsersFinite
      <3>3. CASE i # x
        BY <2>2, <2>5, <3>1, <3>3
      <3> QED  BY <3>2, <3>3
    <2>9. \A i \in context : Len(srcs'[i]) = Len(inputs[i])
      <3>1. context \subseteq Images
        BY DEF DagInv, DagTypes
      <3> QED  BY <2>2, <2>4, <2>5, <3>1
    <2> QED  BY <2>2, <2>4, <2>5, <2>6, <2>7, <2>8, <2>9
  <1> QED  BY <1>1, <1>3, <1>4, <1>5, <1>6, GoesKeeps DEF DagInv

-----------------------------------------------------------------------------
(* The walk descends into the input: what both steps of this kind have in
   common. *)
Descends(op, i) ==
    /\ DagInv /\ stack # << >> /\ MoreInputs /\ i = Input
    /\ IF op = "new" THEN Top.op = "new" /\ i \notin context ELSE op = "destroy" /\ i \in context
    /\ stack' = Append(stack, Frame(op, i))
    /\ UNCHANGED << inputs, phase, context, error, frees >>

LEMMA Descending ==
    ASSUME NEW op, NEW i, Descends(op, i)
    PROVE  /\ i \in Images /\ i \notin OnStack
           /\ Positions' = Positions \cup {Len(stack) + 1}
           /\ stack' \in Seq(Frames) /\ Len(stack') = Len(stack) + 1 /\ Len(stack) \in Nat \ {0}
           /\ \A p \in Positions : stack'[p] = stack[p] /\ stack[p].image < i /\ p \in 1 .. Len(stack)
           /\ stack'[Len(stack) + 1] = [op |-> op, image |-> i, next |-> 1]
           /\ OnStack' = OnStack \cup {i}
  <1>1. /\ stack \in Seq(Frames) /\ stack # << >>
        /\ Len(stack) \in Nat \ {0} /\ Len(stack) \in Positions /\ Top \in Frames
        /\ \A p \in Positions : stack[p] \in Frames /\ p \in Int
    BY TopFrame DEF Descends, DagInv, DagTypes, Positions
  <1>2. /\ Top.image \in Images /\ Top.next \in 1 .. Len(inputs[Top.image])
        /\ inputs[Top.image] \in Seq(Images)
    BY <1>1 DEF Descends, DagInv, DagTypes, MoreInputs, Frames
  <1>3. i \in Images /\ i > Top.image
    <2>1. i = inputs[Top.image][Top.next]
      BY DEF Descends, Input
    <2>2. \A h \in Images : \A k \in 1 .. Len(inputs[h]) : inputs[h][k] > h
      BY DEF Descends, DagInv, DagTypes
    <2>3. inputs[Top.image][Top.next] \in Images
      BY <1>2
    <2> QED  BY <1>2, <2>1, <2>2, <2>3
  <1>4. \A p \in Positions : stack[p].image < i
    <2> SUFFICES ASSUME NEW p \in Positions PROVE stack[p].image < i
      OBVIOUS
    <2>1. stack[p].image \in Int /\ Top.image \in Int /\ i \in Int
      BY <1>1, <1>2, <1>3, DagAssumption DEF Frames, Images
    <2>2. p = Len(stack) \/ p < Len(stack)
      BY <1>1 DEF Positions
    <2>3. stack[p].image <= Top.image
      BY <1>1, <2>1, <2>2 DEF Descends, DagInv, Path, Top
    <2> QED  BY <1>3, <2>1, <2>3
  <1>5. i \notin OnStack
    <2>1. \A p \in Positions : stack[p].image \in Int
      BY <1>1, DagAssumption DEF Frames, Images
    <2> QED  BY <1>4, <2>1 DEF OnStack
  <1>6. Frame(op, i) \in Frames /\ Frame(op, i) = [op |-> op, image |-> i, next |-> 1]
    BY <1>3 DEF Frame, Frames, Descends
  <1>7. /\ stack' \in Seq(Frames) /\ Len(stack') = Len(stack) + 1
        /\ \A p \in 1 .. Len(stack) : stack'[p] = stack[p]
        /\ stack'[Len(stack) + 1] = [op |-> op, image |-> i, next |-> 1]
    BY <1>1, <1>6, AppendProperties DEF Descends
  <1>8. Positions' = Positions \cup {Len(stack) + 1}
    BY <1>1, <1>7 DEF Positions
  <1>9. \A p \in Positions : p \in 1 .. Len(stack) /\ stack'[p] = stack[p]
    BY <1>7 DEF Positions
  <1>10. OnStack' = OnStack \cup {i}
    <2>1. stack'[Len(stack) + 1].image = i
      BY <1>7
    <2> QED  BY <1>8, <1>9, <2>1 DEF OnStack
  <1> QED  BY <1>1, <1>3, <1>4, <1>5, <1>7, <1>8, <1>9, <1>10

LEMMA DescentKeeps ==
    ASSUME NEW op, NEW i, Descends(op, i)
    PROVE  Path' /\ Outermost' /\ Passed' /\ Reached'
  <1> DEFINE n == Len(stack) + 1
  <1>1. /\ i \in Images /\ i \notin OnStack
        /\ Positions' = Positions \cup {n} /\ Len(stack') = n /\ n \in Nat
        /\ \A p \in Positions : stack'[p] = stack[p] /\ stack[p].image < i /\ p \in 1 .. n - 1 /\ p < n
        /\ stack'[n].op = op /\ stack'[n].image = i /\ stack'[n].next = 1
        /\ OnStack' = OnStack \cup {i} /\ n \notin Positions /\ stack' # << >>
    <2>1. Len(stack) \in Nat \ {0} /\ stack' \in Seq(Frames) /\ Len(stack') = n
      BY Descending
    <2>2. stack'[n] = [op |-> op, image |-> i, next |-> 1]
      BY Descending
    <2>3. n \in Nat /\ n \notin Positions /\ \A p \in 1 .. Len(stack) : p \in 1 .. n - 1 /\ p < n
      BY <2>1 DEF Positions
    <2>4. stack' # << >>
      BY <2>1, <2>3
    <2>5. /\ i \in Images /\ i \notin OnStack
          /\ Positions' = Positions \cup {n}
          /\ \A p \in Positions : stack'[p] = stack[p] /\ stack[p].image < i /\ p \in 1 .. Len(stack)
          /\ OnStack' = OnStack \cup {i}
      BY Descending
    <2> HIDE DEF n
    <2> QED  BY <2>1, <2>2, <2>3, <2>4, <2>5
  <1>2. /\ DagInv /\ MoreInputs /\ i = Input /\ Top = stack[n - 1] /\ n - 1 \in Positions
        /\ IF op = "new" THEN Top.op = "new" /\ i \notin context ELSE op = "destroy" /\ i \in context
        /\ UNCHANGED << inputs, phase, context, error >>
    BY Descending DEF Descends, Top, Positions
  <1> HIDE DEF n
  <1>3. Path'
    <2>1. \A p \in Positions' : stack'[p].next <= Len(inputs'[stack'[p].image]) + 1
      <3>1. Len(inputs[i]) \in Nat
        BY <1>1, <1>2 DEF DagInv, DagTypes
      <3>2. \A p \in Positions : stack[p].next <= Len(inputs[stack[p].image]) + 1
        BY <1>2 DEF DagInv, Path
      <3>3. \A p \in Positions : stack'[p].next <= Len(inputs'[stack'[p].image]) + 1
        BY <1>1, <1>2, <3>2
      <3>4. stack'[n].next <= Len(inputs'[stack'[n].image]) + 1
        BY <1>1, <1>2, <3>1
      <3> QED  BY <1>1, <3>3, <3>4
    <2>2. ASSUME NEW p \in 1 .. Len(stack') - 1
          PROVE  /\ stack'[p].next <= Len(inputs'[stack'[p].image])
                 /\ inputs'[stack'[p].image][stack'[p].next] = stack'[p + 1].image
      <3>1. p \in Positions /\ Len(stack) = n - 1
        BY <1>1 DEF Positions, n
      <3>2. CASE p = n - 1
        <4>1. stack'[p] = Top /\ p + 1 = n
          BY <1>1, <1>2, <3>1, <3>2
        <4> QED  BY <1>1, <1>2, <4>1 DEF MoreInputs, Input
      <3>3. CASE p # n - 1
        <4>1. p \in 1 .. Len(stack) - 1 /\ p + 1 \in Positions
          BY <1>1, <3>1, <3>3 DEF Positions
        <4> QED  BY <1>1, <1>2, <3>1, <4>1 DEF DagInv, Path
      <3> QED  BY <3>2, <3>3
    <2>3. ASSUME NEW p \in Positions', NEW q \in Positions', p < q
          PROVE  stack'[p].image < stack'[q].image /\ (stack'[q].op = "new" => stack'[p].op = "new")
      <3>1. p \in Positions
        BY <1>1, <2>3 DEF Positions
      <3>2. CASE q \in Positions
        BY <1>1, <1>2, <2>3, <3>1, <3>2 DEF DagInv, Path
      <3>3. CASE q = n
        <4>1. Top.op = "new" => stack[p].op = "new"
          <5>1. p = n - 1 \/ p < n - 1
            BY <1>1, <2>3, <3>1, <3>3
          <5> QED  BY <1>2, <3>1, <5>1 DEF DagInv, Path
        <4> QED  BY <1>1, <1>2, <3>1, <3>3, <4>1
      <3> QED  BY <1>1, <3>2, <3>3
    <2> QED  BY <2>1, <2>2, <2>3 DEF Path
  <1>4. Outermost'
    <2>1. 1 \in Positions /\ stack # << >>
      BY <1>1, <1>2 DEF Positions, Descends
    <2> QED  BY <1>1, <1>2, <2>1 DEF DagInv, Outermost
  <1>5. Passed'
    <2> SUFFICES ASSUME NEW p \in Positions'
                 PROVE  IF stack'[p].op = "new" THEN stack'[p].image \notin context
                        ELSE \A k \in 1 .. stack'[p].next - 1 : inputs[stack'[p].image][k] \notin context
      BY <1>2 DEF Passed
    <2>1. CASE p \in Positions
      BY <1>1, <1>2, <2>1 DEF DagInv, Passed
    <2>2. CASE p = n
      BY <1>1, <1>2, <2>2
    <2> QED  BY <1>1, <2>1, <2>2
  <1>6. Reached'
    <2> SUFFICES ASSUME phase # "crashed", NEW h \in context, h \notin OnStack, ~ (h = Root /\ phase = "use")
                 PROVE  \E j \in Images, k \in Nat : Pending(j, k)' /\ inputs[j][k] = h
      BY <1>1, <1>2 DEF Reached
    <2>1. PICK j \in Images, k \in Nat : Pending(j, k) /\ inputs[j][k] = h
      BY <1>2 DEF DagInv, Reached
    <2>2. k \in 1 .. Len(inputs[j])
      BY <2>1 DEF Pending
    <2>3. CASE j \in context \ OnStack /\ j # i
      BY <1>1, <1>2, <2>1, <2>2, <2>3 DEF Pending
    <2>4. CASE j \in context \ OnStack /\ j = i
      <3>1. n \in Positions' /\ stack'[n].image = j /\ stack'[n].op # "new" /\ k >= stack'[n].next
        BY <1>1, <1>2, <2>2, <2>4
      <3> QED  BY <1>2, <2>1, <2>2, <3>1 DEF Pending
    <2>5. ASSUME NEW p \in Positions, stack[p].image = j,
                 IF stack[p].op = "new" THEN k < stack[p].next ELSE k >= stack[p].next
          PROVE  Pending(j, k)'
      <3>1. p \in Positions' /\ stack'[p] = stack[p]
        BY <1>1
      <3> QED  BY <1>2, <2>2, <2>5, <3>1 DEF Pending
    <2> QED  BY <2>1, <2>3, <2>4, <2>5 DEF Pending
  <1> QED  BY <1>3, <1>4, <1>5, <1>6

LEMMA StepDestroyInput == ASSUME DagInv, DestroyInput PROVE DagInv'
  <1>1. PICK i : i = Input
    OBVIOUS
  <1>2. Descends("destroy", i) /\ UNCHANGED << regions, phase, error, inputs >> /\ Top.op = "destroy"
    BY <1>1 DEF DestroyInput, InCall, Descends, regions, dag
  <1>3. DagTypes'
    BY <1>2, Descending DEF DagInv, DagTypes, regions
  <1>4. Referenced'
    <2>1. i \in context /\ OnStack' = OnStack \cup {i}
      BY <1>2, Descending DEF Descends
    <2> QED  BY <1>2, <2>1 DEF DagInv, Referenced, regions
  <1>5. Connected'
    <2>1. ~ (~ error /\ phase \in {"new", "use"})
      BY <1>2, Descending, TopFrame DEF DagInv, Connected, Top, Descends, DagTypes
    <2> QED  BY <1>2, <2>1 DEF Connected
  <1> QED  BY <1>2, <1>3, <1>4, <1>5, DescentKeeps DEF DagInv

LEMMA StepInputFresh == ASSUME DagInv, InputFresh PROVE DagInv'
  <1>1. PICK i : i = Input
    OBVIOUS
  <1>2. /\ Descends("new", i) /\ UNCHANGED << phase, error, inputs, context, rcaps, frees >>
        /\ i \notin context
        /\ news' = [news EXCEPT ![i] = @ + 1] /\ srcs' = [srcs EXCEPT ![i] = << >>]
    BY <1>1 DEF InputFresh, InCall, Descends, dag
  <1>3. i \in Images /\ i \notin OnStack /\ OnStack' = OnStack \cup {i}
    BY <1>2, Descending
  <1>4. DagTypes'
    <2>1. srcs' \in [Images -> Seq(BOOLEAN)] /\ news' \in [Images -> Nat]
      <3>1. << >> \in Seq(BOOLEAN) /\ news[i] + 1 \in Nat
        BY <1>3 DEF DagInv, DagTypes
      <3> QED  BY <1>2, <1>3, <3>1 DEF DagInv, DagTypes
    <2> QED  BY <1>2, <2>1, Descending DEF DagInv, DagTypes
  <1>5. Referenced'
    <2> SUFFICES ASSUME NEW h \in Images
                 PROVE  /\ frees[h] <= news'[h]
                        /\ phase # "crashed" =>
                               news'[h] = frees[h] + (IF h \in context \cup OnStack \cup {i} THEN 1 ELSE 0)
      BY <1>2, <1>3 DEF Referenced
    <2>1. /\ frees[h] <= news[h] /\ frees[h] \in Nat /\ news[h] \in Nat
          /\ phase # "crashed" => news[h] = frees[h] + (IF h \in context \cup OnStack THEN 1 ELSE 0)
      BY DEF DagInv, Referenced, DagTypes
    <2>2. CASE h = i
      <3>1. news'[h] = news[h] + 1
        BY <1>2, <1>3, <2>2 DEF DagInv, DagTypes
      <3> QED  BY <1>2, <1>3, <2>1, <2>2, <3>1
    <2>3. CASE h # i
      <3>1. news'[h] = news[h]
        BY <1>2, <1>3, <2>3 DEF DagInv, DagTypes
      <3> QED  BY <2>1, <2>3, <3>1
    <2> QED  BY <2>2, <2>3
  <1>6. Connected'
    <2> SUFFICES ASSUME ~ error, phase \in {"new", "use"} PROVE Connected'
      BY <1>2 DEF Connected
    <2>1. srcs[i] = << >> /\ Connected
      BY <1>2, <1>3 DEF DagInv, Connected
    <2>2. srcs' = srcs
      BY <1>2, <1>3, <2>1 DEF DagInv, DagTypes
    <2>3. \A h : Users(h)' = Users(h)
      BY <1>2, <2>2 DEF Users
    <2>4. \A p \in Positions' : stack'[p].op = "new" /\ Len(srcs[stack'[p].image]) = stack'[p].next - 1
      <3>1. /\ Positions' = Positions \cup {Len(stack) + 1}
            /\ \A p \in Positions : stack'[p] = stack[p]
            /\ stack'[Len(stack) + 1] = [op |-> "new", image |-> i, next |-> 1]
        BY <1>2, Descending
      <3>2. \A p \in Positions : stack[p].op = "new" /\ Len(srcs[stack[p].image]) = stack[p].next - 1
        BY <2>1 DEF Connected
      <3>3. /\ stack'[Len(stack) + 1].op = "new" /\ stack'[Len(stack) + 1].image = i
            /\ stack'[Len(stack) + 1].next = 1
        BY <3>1
      <3>4. Len(srcs[i]) = 0
        BY <2>1
      <3> QED  BY <3>1, <3>2, <3>3, <3>4
    <2> QED  BY <1>2, <1>3, <2>1, <2>2, <2>3, <2>4 DEF Connected
  <1> QED  BY <1>2, <1>4, <1>5, <1>6, DescentKeeps DEF DagInv

-----------------------------------------------------------------------------
(* A call returns to its caller: what both steps of this kind have in common. *)
Ascends == /\ DagInv /\ stack # << >> /\ Outer # << >>
           /\ ~ MoreInputs
           /\ stack' = Advance(Outer)
           /\ UNCHANGED << inputs, phase, error >>

LEMMA Ascending ==
    ASSUME Ascends, NEW m, m = Len(stack) - 1
    PROVE  /\ m \in Nat \ {0} /\ Positions' = 1 .. m /\ Positions = 1 .. m + 1
           /\ Positions = Positions' \cup {m + 1}
           /\ stack' \in Seq(Frames) /\ Len(stack') = m
           /\ Top = stack[m + 1] /\ Top \in Frames
           /\ inputs[stack[m].image][stack[m].next] = Top.image
           /\ stack[m].next <= Len(inputs[stack[m].image])
           /\ Top.next = Len(inputs[Top.image]) + 1
           /\ \A p \in 1 .. m : /\ stack[p] \in Frames
                                /\ stack'[p].op = stack[p].op
                                /\ stack'[p].image = stack[p].image
                                /\ stack'[p].next = IF p = m THEN stack[p].next + 1 ELSE stack[p].next
                                /\ stack[p].image # Top.image
           /\ OnStack' = OnStack \ {Top.image} /\ Top.image \in OnStack
  <1>1. stack \in Seq(Frames) /\ stack # << >> /\ Path /\ DagTypes
    BY DEF Ascends, DagInv, DagTypes
  <1>2. /\ Len(stack) \in Nat \ {0} /\ Top \in Frames
        /\ Outer \in Seq(Frames) /\ Len(Outer) = m /\ \A p \in 1 .. m : Outer[p] = stack[p]
    BY <1>1, TopFrame
  <1>3. m \in Nat \ {0} /\ Len(stack) = m + 1
    BY <1>2 DEF Ascends
  <1>4. Positions = 1 .. m + 1 /\ m \in Positions /\ m + 1 \in Positions /\ \A p \in 1 .. m : p \in Positions /\ p # m + 1
    BY <1>3 DEF Positions
  <1>5. /\ stack' \in Seq(Frames) /\ Len(stack') = m
        /\ \A p \in 1 .. m - 1 : stack'[p] = Outer[p]
        /\ stack'[m].op = Outer[m].op /\ stack'[m].image = Outer[m].image
        /\ stack'[m].next = Outer[m].next + 1
    BY <1>2, Advanced DEF Ascends
  <1>6. Positions' = 1 .. m
    BY <1>5 DEF Positions
  <1>7. Top = stack[m + 1]
    BY <1>3 DEF Top
  <1>8. \A p \in 1 .. m : stack[p] \in Frames /\ stack[p].image # Top.image
    <2>1. \A p \in 1 .. m : stack[p] \in Frames
      BY <1>1, <1>3
    <2>2. ASSUME NEW p \in 1 .. m, stack[p].image = stack[m + 1].image PROVE FALSE
      BY <1>1, <1>4, <2>2, Distinct
    <2> QED  BY <1>7, <2>1, <2>2
  <1>9. \A p \in 1 .. m : /\ stack'[p].op = stack[p].op
                          /\ stack'[p].image = stack[p].image
                          /\ stack'[p].next = IF p = m THEN stack[p].next + 1 ELSE stack[p].next
    <2> SUFFICES ASSUME NEW p \in 1 .. m
                 PROVE  /\ stack'[p].op = stack[p].op
                        /\ stack'[p].image = stack[p].image
                        /\ stack'[p].next = IF p = m THEN stack[p].next + 1 ELSE stack[p].next
      OBVIOUS
    <2>1. CASE p = m
      BY <1>2, <1>5, <2>1
    <2>2. CASE p # m
      <3>1. p \in 1 .. m - 1
        BY <1>3, <2>2
      <3>2. stack'[p] = stack[p]
        BY <1>2, <1>5, <3>1
      <3> QED  BY <2>2, <3>2
    <2> QED  BY <2>1, <2>2
  <1>10. inputs[stack[m].image][stack[m].next] = Top.image /\ stack[m].next <= Len(inputs[stack[m].image])
    <2>1. m \in 1 .. Len(stack) - 1
      BY <1>3
    <2> QED  BY <1>1, <1>7, <2>1 DEF Path
  <1>11. Top.next = Len(inputs[Top.image]) + 1
    <2>1. Top.next <= Len(inputs[Top.image]) + 1 /\ ~ (Top.next <= Len(inputs[Top.image]))
      BY <1>1, <1>4, <1>7 DEF Path, Ascends, MoreInputs
    <2>2. Top.next \in Nat /\ Len(inputs[Top.image]) \in Nat
      BY <1>1, <1>2 DEF DagTypes, Frames
    <2> QED  BY <2>1, <2>2
  <1>12. Positions = Positions' \cup {m + 1}
    BY <1>3, <1>4, <1>6
  <1>13. OnStack' = OnStack \ {Top.image} /\ Top.image \in OnStack
    BY <1>6, <1>7, <1>8, <1>9, <1>12 DEF OnStack
  <1> QED  BY <1>2, <1>3, <1>4, <1>5, <1>6, <1>7, <1>8, <1>9, <1>10, <1>11, <1>12, <1>13

LEMMA AscentKeeps == ASSUME Ascends PROVE Path' /\ Outermost'
  <1>1. PICK m : m = Len(stack) - 1
    OBVIOUS
  <1>2. /\ m \in Nat \ {0} /\ Positions' = 1 .. m /\ Positions = 1 .. m + 1 /\ Len(stack') = m
        /\ \A p \in 1 .. m : /\ stack[p] \in Frames
                             /\ stack'[p].op = stack[p].op
                             /\ stack'[p].image = stack[p].image
                             /\ stack'[p].next = IF p = m THEN stack[p].next + 1 ELSE stack[p].next
    BY <1>1, Ascending, SMTT(20)
  <1>3. UNCHANGED << inputs, phase, error >> /\ DagInv /\ Path /\ stack # << >>
    BY DEF Ascends, DagInv
  <1>4. /\ \A p \in 1 .. m : p \in Positions /\ p \in 1 .. Len(stack) - 1
        /\ \A p \in 1 .. m - 1 : p \in 1 .. m /\ p + 1 \in 1 .. m /\ p # m
    BY <1>1, <1>2
  <1>5. \A p \in 1 .. m : stack'[p].next <= Len(inputs[stack[p].image]) + 1
    <2> SUFFICES ASSUME NEW p \in 1 .. m PROVE stack'[p].next <= Len(inputs[stack[p].image]) + 1
      OBVIOUS
    <2>1. stack[p].next <= Len(inputs[stack[p].image])
      BY <1>3, <1>4 DEF Path
    <2>2. stack[p].next \in Nat /\ stack[p].image \in Images
      BY <1>2 DEF Frames
    <2>3. Len(inputs[stack[p].image]) \in Nat
      BY <1>3, <2>2 DEF DagInv, DagTypes
    <2> QED  BY <1>2, <2>1, <2>2, <2>3
  <1>6. \A p \in 1 .. m - 1 : /\ stack'[p].next <= Len(inputs[stack'[p].image])
                              /\ inputs[stack'[p].image][stack'[p].next] = stack'[p + 1].image
    BY <1>2, <1>3, <1>4 DEF Path
  <1>7. \A p, q \in 1 .. m : p < q => /\ stack'[p].image < stack'[q].image
                                      /\ stack'[q].op = "new" => stack'[p].op = "new"
    <2> SUFFICES ASSUME NEW p \in 1 .. m, NEW q \in 1 .. m, p < q
                 PROVE  /\ stack'[p].image < stack'[q].image
                        /\ stack'[q].op = "new" => stack'[p].op = "new"
      OBVIOUS
    <2>1. stack[p].image < stack[q].image /\ (stack[q].op = "new" => stack[p].op = "new")
      BY <1>3, <1>4 DEF Path
    <2> QED  BY <1>2, <2>1
  <1>8. Path'
    BY <1>2, <1>3, <1>5, <1>6, <1>7 DEF Path
  <1>9. Outermost'
    <2>1. stack' # << >> /\ 1 \in 1 .. m
      BY <1>2
    <2> QED  BY <1>2, <1>3, <2>1 DEF DagInv, Outermost
  <1> QED  BY <1>8, <1>9

LEMMA DestroyedInner == ASSUME DagInv, Destroyed, Outer # << >> PROVE DagInv'
  <1>1. PICK m, x : m = Len(stack) - 1 /\ x = Top.image
    OBVIOUS
  <1>2. /\ Ascends /\ Top.op = "destroy" /\ UNCHANGED << inputs, phase, error, news, rcaps >>
        /\ context' = context \ {x} /\ frees' = [frees EXCEPT ![x] = @ + 1]
    BY <1>1 DEF Destroyed, InCall, Return, Ascends, dag
  <1>3. /\ m \in Nat \ {0} /\ Positions' = 1 .. m /\ Positions = Positions' \cup {m + 1}
        /\ stack' \in Seq(Frames)
        /\ Top = stack[m + 1] /\ x \in Images
        /\ inputs[stack[m].image][stack[m].next] = x
        /\ Top.next = Len(inputs[x]) + 1
        /\ \A p \in 1 .. m : /\ stack[p] \in Frames
                             /\ stack'[p].op = stack[p].op
                             /\ stack'[p].image = stack[p].image
                             /\ stack'[p].next = IF p = m THEN stack[p].next + 1 ELSE stack[p].next
        /\ OnStack' = OnStack \ {x} /\ x \in OnStack
    <2>1. Top.image \in Images
      BY <1>1, <1>2, Ascending DEF Frames
    <2> QED  BY <1>1, <1>2, <2>1, Ascending
  <1>4. DagTypes'
    <2>1. frees' \in [Images -> Nat]
      <3>1. frees \in [Images -> Nat]
        BY DEF DagInv, DagTypes
      <3>2. frees[x] + 1 \in Nat
        BY <1>3, <3>1
      <3> QED  BY <1>2, <1>3, <3>1, <3>2
    <2>2. srcs' \in [Images -> Seq(BOOLEAN)]
      <3>1. Outer[Len(Outer)].image \in Images
        <4>1. Outer[Len(Outer)] \in Frames
          BY <1>2, TopFrame DEF DagInv, DagTypes, Ascends
        <4> QED  BY <4>1 DEF Frames
      <3>2. /\ srcs \in [Images -> Seq(BOOLEAN)] /\ FALSE \in BOOLEAN
            /\ srcs[Outer[Len(Outer)].image] \in Seq(BOOLEAN)
        BY <3>1 DEF DagInv, DagTypes
      <3>3. Append(srcs[Outer[Len(Outer)].image], FALSE) \in Seq(BOOLEAN)
        BY <3>2, AppendProperties
      <3> QED  BY <3>1, <3>2, <3>3 DEF Destroyed, Return
    <2> QED  BY <1>2, <1>3, <2>1, <2>2 DEF DagInv, DagTypes
  <1>5. Passed'
    <2> SUFFICES ASSUME NEW p \in 1 .. m
                 PROVE  IF stack[p].op = "new" THEN stack[p].image \notin context'
                        ELSE \A k \in 1 .. stack'[p].next - 1 : inputs[stack[p].image][k] \notin context'
      BY <1>2, <1>3 DEF Passed
    <2>1. IF stack[p].op = "new" THEN stack[p].image \notin context
          ELSE \A k \in 1 .. stack[p].next - 1 : inputs[stack[p].image][k] \notin context
      BY <1>3 DEF DagInv, Passed
    <2>2. CASE p # m
      BY <1>2, <1>3, <2>1, <2>2
    <2>3. CASE p = m
      <3>1. PICK n \in Nat \ {0} : n = stack[m].next /\ stack'[m].next = n + 1
        BY <1>3, <2>3 DEF Frames
      <3>2. \A k \in 1 .. stack'[m].next - 1 : k \in 1 .. stack[m].next - 1 \/ k = stack[m].next
        BY <3>1
      <3> QED  BY <1>2, <1>3, <2>1, <2>3, <3>2
    <2> QED  BY <2>2, <2>3
  <1>6. Referenced'
    <2> SUFFICES ASSUME NEW h \in Images
                 PROVE  /\ frees'[h] <= news[h]
                        /\ phase # "crashed" =>
                               news[h] = frees'[h] + (IF h \in (context \cup OnStack) \ {x} THEN 1 ELSE 0)
      BY <1>2, <1>3 DEF Referenced
    <2>1. /\ frees[h] \in Nat /\ news[h] \in Nat /\ phase # "crashed"
          /\ news[h] = frees[h] + (IF h \in context \cup OnStack THEN 1 ELSE 0)
      BY <1>2 DEF DagInv, Referenced, DagTypes, Outermost, Ascends
    <2>2. CASE h = x
      <3>1. frees'[h] = frees[h] + 1 /\ h \in context \cup OnStack
        BY <1>2, <1>3, <2>2 DEF DagInv, DagTypes
      <3> QED  BY <2>1, <2>2, <3>1
    <2>3. CASE h # x
      <3>1. frees'[h] = frees[h]
        BY <1>2, <1>3, <2>3 DEF DagInv, DagTypes
      <3> QED  BY <2>1, <2>3, <3>1
    <2> QED  BY <2>2, <2>3
  <1>7. Reached'
    <2> SUFFICES ASSUME NEW h \in context, h # x, h \notin OnStack, ~ (h = Root /\ phase = "use"),
                        phase # "crashed"
                 PROVE  \E j \in Images, k \in Nat : Pending(j, k)' /\ inputs[j][k] = h
      BY <1>2, <1>3 DEF Reached
    <2>1. PICK j \in Images, k \in Nat : Pending(j, k) /\ inputs[j][k] = h
      BY DEF DagInv, Reached
    <2>2. k \in 1 .. Len(inputs[j])
      BY <2>1 DEF Pending
    <2>3. CASE j \in context \ OnStack
      BY <1>2, <1>3, <2>1, <2>2, <2>3 DEF Pending
    <2>4. ASSUME NEW p \in 1 .. m, stack[p].image = j,
                 IF stack[p].op = "new" THEN k < stack[p].next ELSE k >= stack[p].next
          PROVE  Pending(j, k)'
      <3>1. p = m => k # stack[p].next
        BY <1>3, <2>1, <2>4
      <3>2. stack[p].next \in Nat
        BY <1>3 DEF Frames
      <3>3. IF stack'[p].op = "new" THEN k < stack'[p].next ELSE k >= stack'[p].next
        BY <1>3, <2>4, <3>1, <3>2
      <3> QED  BY <1>2, <1>3, <2>2, <2>4, <3>3 DEF Pending
    <2>5. ~ (/\ stack[m + 1].image = j
             /\ IF stack[m + 1].op = "new" THEN k < stack[m + 1].next ELSE k >= stack[m + 1].next)
      <3>1. Len(inputs[j]) \in Nat
        BY DEF DagInv, DagTypes
      <3> QED  BY <1>1, <1>2, <1>3, <2>2, <3>1
    <2> QED  BY <1>3, <2>1, <2>3, <2>4, <2>5 DEF Pending
  <1>8. Connected'
    <2>1. ~ (~ error /\ phase \in {"new", "use"})
      BY <1>2, <1>3 DEF DagInv, Connected
    <2> QED  BY <1>2, <2>1 DEF Connected
  <1> QED  BY <1>2, <1>4, <1>5, <1>6, <1>7, <1>8, AscentKeeps DEF DagInv

LEMMA ReadyInner == ASSUME DagInv, Ready, Outer # << >> PROVE DagInv'
  <1>1. PICK m, x : m = Len(stack) - 1 /\ x = Top.image
    OBVIOUS
  <1>2. /\ Ascends /\ Top.op = "new" /\ UNCHANGED << inputs, phase, error, news, frees >> /\ ~ error
        /\ context' = context \cup {x} /\ rcaps' = [rcaps EXCEPT ![x] = 1]
    BY <1>1 DEF Ready, InCall, Return, Ascends, dag
  <1>3. /\ m \in Nat \ {0} /\ Positions' = 1 .. m /\ Positions = Positions' \cup {m + 1}
        /\ stack' \in Seq(Frames)
        /\ Top = stack[m + 1] /\ x \in Images
        /\ inputs[stack[m].image][stack[m].next] = x
        /\ stack[m].next <= Len(inputs[stack[m].image])
        /\ Top.next = Len(inputs[x]) + 1
        /\ \A p \in 1 .. m : /\ stack[p] \in Frames
                             /\ stack'[p].op = stack[p].op
                             /\ stack'[p].image = stack[p].image
                             /\ stack'[p].next = IF p = m THEN stack[p].next + 1 ELSE stack[p].next
                             /\ stack[p].image # x
        /\ OnStack' = OnStack \ {x} /\ x \in OnStack
    <2>1. Top.image \in Images
      BY <1>1, <1>2, Ascending DEF Frames
    <2> QED  BY <1>1, <1>2, <2>1, Ascending
  <1>4. \A p \in 1 .. m : stack[p].op = "new"
    <2>1. \A p \in 1 .. m : p \in Positions /\ m + 1 \in Positions /\ p < m + 1
      BY <1>3
    <2> QED  BY <1>2, <1>3, <2>1 DEF DagInv, Path
  <1>5. PICK j \in Images, n \in Nat \ {0} : j = stack[m].image /\ n = stack[m].next
    BY <1>3 DEF Frames
  <1>6. srcs' = [srcs EXCEPT ![j] = Append(@, TRUE)]
    <2>1. Outer[Len(Outer)] = stack[m]
      <3>1. Len(Outer) = m /\ \A p \in 1 .. m : Outer[p] = stack[p]
        BY <1>1, <1>2, TopFrame DEF DagInv, DagTypes, Ascends
      <3>2. m \in 1 .. m
        BY <1>3
      <3> QED  BY <3>1, <3>2
    <2>2. srcs' = IF Outer[Len(Outer)].op = "new"
                  THEN [srcs EXCEPT ![Outer[Len(Outer)].image] = Append(@, TRUE)]
                  ELSE srcs
      BY DEF Ready, Return
    <2> QED  BY <1>3, <1>4, <1>5, <2>1, <2>2
  <1>7. DagTypes'
    <2>1. rcaps' \in [Images -> Nat]
      BY <1>2, <1>3 DEF DagInv, DagTypes
    <2>2. srcs' \in [Images -> Seq(BOOLEAN)]
      <3>1. srcs \in [Images -> Seq(BOOLEAN)] /\ TRUE \in BOOLEAN /\ srcs[j] \in Seq(BOOLEAN)
        BY <1>5 DEF DagInv, DagTypes
      <3>2. Append(srcs[j], TRUE) \in Seq(BOOLEAN)
        BY <3>1, AppendProperties
      <3> QED  BY <1>5, <1>6, <3>1, <3>2
    <2> QED  BY <1>2, <1>3, <2>1, <2>2 DEF DagInv, DagTypes
  <1>8. Passed'
    <2>1. \A p \in 1 .. m : p \in Positions
      BY <1>3
    <2>2. \A p \in 1 .. m : stack[p].image \notin context'
      BY <1>2, <1>3, <1>4, <2>1 DEF DagInv, Passed
    <2> QED  BY <1>3, <1>4, <2>2 DEF Passed
  <1>9. Referenced'
    <2>1. (context \cup OnStack)' = context \cup OnStack
      BY <1>2, <1>3
    <2> QED  BY <1>2, <2>1 DEF DagInv, Referenced
  <1>10. Reached'
    <2> SUFFICES ASSUME NEW h \in context', h \notin OnStack', ~ (h = Root /\ phase = "use"),
                        phase # "crashed"
                 PROVE  \E i \in Images, k \in Nat : Pending(i, k)' /\ inputs[i][k] = h
      BY <1>2 DEF Reached
    <2>1. CASE h = x
      <3>1. /\ m \in 1 .. m /\ stack'[m].image = j /\ stack'[m].op = "new" /\ n < stack'[m].next
            /\ inputs[j][n] = h
        BY <1>3, <1>4, <1>5, <2>1
      <3>2. n \in 1 .. Len(inputs[j])
        BY <1>3, <1>5 DEF DagInv, DagTypes
      <3> QED  BY <1>2, <1>3, <1>5, <3>1, <3>2 DEF Pending
    <2>2. CASE h # x
      <3>1. h \in context /\ h \notin OnStack
        BY <1>2, <1>3, <2>2
      <3>2. PICK i \in Images, k \in Nat : Pending(i, k) /\ inputs[i][k] = h
        BY <3>1 DEF DagInv, Reached
      <3>3. k \in 1 .. Len(inputs[i])
        BY <3>2 DEF Pending
      <3>4. CASE i \in context \ OnStack
        BY <1>2, <1>3, <3>2, <3>3, <3>4 DEF Pending
      <3>5. ASSUME NEW p \in 1 .. m, stack[p].image = i,
                   IF stack[p].op = "new" THEN k < stack[p].next ELSE k >= stack[p].next
            PROVE  Pending(i, k)'
        <4>1. stack'[p].op = "new" /\ k < stack'[p].next
          <5>1. stack[p].next \in Nat
            BY <1>3 DEF Frames
          <5> QED  BY <1>3, <1>4, <3>5, <5>1
        <4>2. p \in Positions' /\ stack'[p].image = i /\ inputs' = inputs
          BY <1>2, <1>3, <3>5
        <4> QED  BY <3>3, <4>1, <4>2 DEF Pending
      <3>6. CASE stack[m + 1].image = i
        BY <1>1, <1>2, <1>3, <3>2, <3>3, <3>6 DEF Pending
      <3> QED  BY <1>3, <3>2, <3>4, <3>5, <3>6 DEF Pending
    <2> QED  BY <2>1, <2>2
  <1>11. Connected'
    <2>1. SUFFICES ASSUME phase \in {"new", "use"}
                   PROVE  /\ \A p \in 1 .. m : stack'[p].op = "new" /\ Len(srcs'[stack'[p].image]) = stack'[p].next - 1
                          /\ \A i \in context' : Len(srcs'[i]) = Len(inputs[i])
                          /\ \A i \in Images : i \notin context' \cup OnStack' => srcs'[i] = << >>
                          /\ \A i \in Images : \A k \in 1 .. Len(srcs'[i]) :
                                 k <= Len(inputs[i]) /\ srcs'[i][k] /\ inputs[i][k] \in context'
                          /\ \A i \in Images : frees[i] = 0
                          /\ \A i \in context' :
                                 rcaps'[i] = Cardinality(Users(i)') + (IF i = Root THEN 1 ELSE 0)
      BY <1>2, <1>3 DEF Connected
    <2>2. /\ \A p \in Positions : stack[p].op = "new" /\ Len(srcs[stack[p].image]) = stack[p].next - 1
          /\ \A i \in context : Len(srcs[i]) = Len(inputs[i])
          /\ \A i \in Images : i \notin context \cup OnStack => srcs[i] = << >>
          /\ \A i \in Images : \A k \in 1 .. Len(srcs[i]) :
                 k <= Len(inputs[i]) /\ srcs[i][k] /\ inputs[i][k] \in context
          /\ \A i \in Images : frees[i] = 0
          /\ \A i \in context : rcaps[i] = Cardinality(Users(i)) + (IF i = Root THEN 1 ELSE 0)
      BY <1>2, <2>1 DEF DagInv, Connected
    <2>3. /\ \A p \in 1 .. m : p \in Positions
          /\ m + 1 \in Positions /\ m \in Positions /\ m \in 1 .. m
          /\ x \notin context /\ j \notin context /\ j \in OnStack /\ j # x /\ context \subseteq Images
      <3>1. /\ \A p \in 1 .. m : p \in Positions
            /\ m + 1 \in Positions /\ m \in Positions /\ m \in 1 .. m
        BY <1>3
      <3>2. stack[m + 1].op = "new" /\ stack[m + 1].image = x /\ stack[m].op = "new"
            /\ stack[m].image = j /\ j # x
        BY <1>1, <1>2, <1>3, <1>4, <1>5, <3>1
      <3>3. x \notin context /\ j \notin context
        BY <3>1, <3>2 DEF DagInv, Passed
      <3> QED  BY <3>1, <3>2, <3>3 DEF DagInv, OnStack, DagTypes
    <2>4. Connects(j, n, x)
      BY <1>2, <1>3, <1>5, <1>6, <2>2, <2>3 DEF Connects, DagInv
    <2>11. PICK y \in Images : y = x
      BY <1>3
    <2>12. Connects(j, n, y)
      BY <2>4, <2>11
    <2>13. /\ Len(srcs'[j]) = n /\ srcs'[j][n]
           /\ \A k \in 1 .. n - 1 : srcs'[j][k] = srcs[j][k]
           /\ \A i \in Images : i # j => srcs'[i] = srcs[i]
           /\ Cardinality(Users(y)') = Cardinality(Users(y)) + 1
           /\ \A i \in Images : i # y => Users(i)' = Users(i)
      BY <2>12, Connecting
    <2>5. /\ Len(srcs'[j]) = n /\ srcs'[j][n]
          /\ \A k \in 1 .. n - 1 : srcs'[j][k] = srcs[j][k]
          /\ \A i \in Images : i # j => srcs'[i] = srcs[i]
          /\ Cardinality(Users(x)') = Cardinality(Users(x)) + 1
          /\ \A i \in Images : i # x => Users(i)' = Users(i)
      BY <2>11, <2>13
    <2>6. \A p \in 1 .. m : stack'[p].op = "new" /\ Len(srcs'[stack'[p].image]) = stack'[p].next - 1
      <3> SUFFICES ASSUME NEW p \in 1 .. m
                   PROVE  Len(srcs'[stack[p].image]) = stack'[p].next - 1
        BY <1>3, <1>4
      <3>1. stack[p].image \in Images /\ stack[p].next \in Nat
        BY <1>3 DEF Frames
      <3>2. CASE p = m
        <4>1. stack[p].image = j /\ stack'[p].next = n + 1
          BY <1>3, <1>5, <3>2
        <4> QED  BY <2>5, <4>1
      <3>3. CASE p # m
        <4>1. stack[p].image # j
          BY <1>5, <2>3, <3>3, Distinct DEF DagInv
        <4>2. stack'[p].next = stack[p].next
          BY <1>3, <3>3
        <4>3. Len(srcs[stack[p].image]) = stack[p].next - 1 /\ srcs'[stack[p].image] = srcs[stack[p].image]
          BY <2>2, <2>3, <2>5, <3>1, <4>1
        <4> QED  BY <4>2, <4>3
      <3> QED  BY <3>2, <3>3
    <2>7. \A i \in Images : \A k \in 1 .. Len(srcs'[i]) :
                 k <= Len(inputs[i]) /\ srcs'[i][k] /\ inputs[i][k] \in context'
      <3> SUFFICES ASSUME NEW i \in Images, NEW k \in 1 .. Len(srcs'[i])
                   PROVE  k <= Len(inputs[i]) /\ srcs'[i][k] /\ inputs[i][k] \in context'
        OBVIOUS
      <3>1. CASE i # j
        BY <1>2, <2>2, <2>5, <3>1
      <3>2. CASE i = j /\ k = n
        BY <1>2, <2>4, <2>5, <3>2 DEF Connects
      <3>3. CASE i = j /\ k # n
        <4>1. k \in 1 .. n - 1 /\ Len(srcs[j]) = n - 1
          BY <2>4, <2>5, <3>3, <1>5 DEF Connects
        <4> QED  BY <1>2, <2>2, <2>5, <3>3, <4>1
      <3> QED  BY <3>1, <3>2, <3>3
    <2>8. \A i \in context' : rcaps'[i] = Cardinality(Users(i)') + (IF i = Root THEN 1 ELSE 0)
      <3> SUFFICES ASSUME NEW i \in context'
                   PROVE  rcaps'[i] = Cardinality(Users(i)') + (IF i = Root THEN 1 ELSE 0)
        OBVIOUS
      <3>1. rcaps \in [Images -> Nat] /\ i \in Images
        BY <1>2, <1>3, <2>3 DEF DagInv, DagTypes
      <3>2. CASE i = x
        <4>1. Users(x) = {}
          BY <2>2, <2>3 DEF Users
        <4>2. Cardinality(Users(x)) = 0
          BY <4>1, FS_EmptySet
        <4>3. x # Root
          <5>1. stack[m].image < x
            BY <2>3, <1>1, <1>3 DEF DagInv, Path
          <5>2. stack[m].image \in 1 .. NumImages
            BY <1>5 DEF Images
          <5> QED  BY <1>3, <5>1, <5>2, DagAssumption DEF Root, Images
        <4> QED  BY <1>2, <2>5, <3>1, <3>2, <4>2, <4>3
      <3>3. CASE i # x
        BY <1>2, <2>2, <2>5, <3>1, <3>3
      <3> QED  BY <3>2, <3>3
    <2>9. \A i \in context' : Len(srcs'[i]) = Len(inputs[i])
      <3>1. Len(srcs[x]) = Len(inputs[x])
        <4>1. Len(srcs[stack[m + 1].image]) = stack[m + 1].next - 1 /\ stack[m + 1].image = x
          BY <1>1, <1>3, <2>2, <2>3
        <4>2. stack[m + 1].next = Len(inputs[x]) + 1 /\ Len(inputs[x]) \in Nat
          BY <1>3 DEF DagInv, DagTypes
        <4> QED  BY <4>1, <4>2
      <3>2. srcs'[x] = srcs[x]
        BY <1>3, <2>3, <2>5
      <3>3. \A i \in context : Len(srcs'[i]) = Len(inputs[i])
        BY <2>2, <2>3, <2>5
      <3>4. Len(srcs'[x]) = Len(inputs[x])
        BY <3>1, <3>2
      <3> QED  BY <1>2, <3>3, <3>4
    <2>10. \A i \in Images : i \notin context' \cup OnStack' => srcs'[i] = << >>
      <3>1. context' \cup OnStack' = context \cup OnStack
        BY <1>2, <1>3
      <3> QED  BY <2>2, <2>3, <2>5, <3>1
    <2>14. \A i \in Images : frees[i] = 0
      BY <2>2
    <2> QED  BY <2>6, <2>7, <2>8, <2>9, <2>10, <2>14
  <1> QED  BY <1>2, <1>7, <1>8, <1>9, <1>10, <1>11, AscentKeeps DEF DagInv

-----------------------------------------------------------------------------
(* The outermost call, and the steps that begin or end it. *)
LEMMA Lone ==
    ASSUME DagInv, stack # << >>, Outer = << >>
    PROVE  /\ Positions = {1} /\ OnStack = {Root} /\ Top = stack[1] /\ Top.image = Root
           /\ Root \in Images /\ Top.next \in Nat
           /\ ~ MoreInputs => Top.next = Len(inputs[Root]) + 1
  <1>1. Len(stack) \in Nat \ {0} /\ Len(Outer) = Len(stack) - 1 /\ Top \in Frames
    BY TopFrame DEF DagInv, DagTypes
  <1>2. Len(stack) = 1
    BY <1>1
  <1>3. Positions = {1} /\ Top = stack[1] /\ Top.image = Root /\ Root \in Images
    BY <1>2, DagAssumption DEF Positions, Top, DagInv, Outermost, Root, Images
  <1>4. OnStack = {Root}
    BY <1>3 DEF OnStack
  <1>5. Top.next \in Nat /\ Top.next <= Len(inputs[Root]) + 1 /\ Len(inputs[Root]) \in Nat
    <2>1. Len(inputs[Root]) \in Nat /\ Top.next \in Nat
      <3>1. Top.next \in Nat
        BY <1>1 DEF Frames
      <3>2. inputs[Root] \in Seq(Images)
        BY <1>3 DEF DagInv, DagTypes
      <3> QED  BY <3>1, <3>2
    <2>2. stack[1].next <= Len(inputs[stack[1].image]) + 1
      BY <1>3 DEF DagInv, Path
    <2>3. stack[1] = Top /\ stack[1].image = Root
      BY <1>3
    <2> QED  BY <2>1, <2>2, <2>3
  <1> QED  BY <1>3, <1>4, <1>5 DEF MoreInputs

LEMMA Emptied ==
    ASSUME stack' = << >>
    PROVE  Positions' = {} /\ OnStack' = {} /\ Path' /\ Passed' /\ stack' \in Seq(Frames)
  <1>1. Len(stack') = 0 /\ stack' \in Seq(Frames)
    OBVIOUS
  <1>2. Positions' = {} /\ 1 .. Len(stack') - 1 = {}
    BY <1>1 DEF Positions
  <1>3. OnStack' = {}
    BY <1>2 DEF OnStack
  <1> QED  BY <1>1, <1>2, <1>3 DEF Path, Passed

LEMMA ReadyOutermost == ASSUME DagInv, Ready, Outer = << >> PROVE DagInv'
  <1>1. /\ stack # << >> /\ Top.op = "new" /\ ~ MoreInputs /\ ~ error
        /\ stack' = << >> /\ phase' = "use"
        /\ UNCHANGED << inputs, srcs, error, news, frees >>
    BY DEF Ready, InCall, Return, dag
  <1>2. /\ Positions = {1} /\ OnStack = {Root} /\ Top = stack[1] /\ Top.image = Root
        /\ Root \in Images /\ Top.next = Len(inputs[Root]) + 1
    BY <1>1, Lone
  <1>3. context' = context \cup {Root} /\ rcaps' = [rcaps EXCEPT ![Root] = 1] /\ Root \notin context
    BY <1>1, <1>2 DEF Ready, DagInv, Passed
  <1>4. phase = "new"
    BY <1>1, <1>2 DEF DagInv, Outermost
  <1>5. DagTypes'
    BY <1>1, <1>2, <1>3, Emptied DEF DagInv, DagTypes
  <1>6. Outermost'
    BY <1>1, <1>3 DEF Outermost
  <1>7. Referenced'
    BY <1>1, <1>2, <1>3, <1>4, Emptied DEF DagInv, Referenced
  <1>8. Reached'
    <2> SUFFICES ASSUME NEW h \in context, h # Root
                 PROVE  \E j \in Images, k \in Nat : Pending(j, k)' /\ inputs[j][k] = h
      BY <1>1, <1>3 DEF Reached
    <2>1. PICK j \in Images, k \in Nat : Pending(j, k) /\ inputs[j][k] = h
      BY <1>2, <1>4 DEF DagInv, Reached
    <2>2. k \in 1 .. Len(inputs[j]) /\ (j \in context \/ j = Root)
      BY <1>2, <2>1 DEF Pending
    <2> QED  BY <1>1, <1>3, <2>1, <2>2, Emptied DEF Pending
  <1>9. Connected'
    <2>1. Connected
      BY DEF DagInv
    <2>2. \A i : Users(i)' = Users(i)
      BY <1>1 DEF Users
    <2>3. Len(srcs[Root]) = Len(inputs[Root])
      <3>1. Len(srcs[Root]) = Top.next - 1 /\ Len(inputs[Root]) \in Nat
        BY <1>1, <1>2, <1>4, <2>1 DEF Connected, DagInv, DagTypes
      <3> QED  BY <1>2, <3>1
    <2>4. \A j \in Images : \A k \in 1 .. Len(srcs[j]) :
              k <= Len(inputs[j]) /\ srcs[j][k] /\ inputs[j][k] \in context
      BY <1>1, <1>4, <2>1 DEF Connected
    <2>5. Cardinality(Users(Root)) = 0
      <3>1. \A e \in Users(Root) : FALSE
        <4> SUFFICES ASSUME NEW e \in Users(Root) PROVE FALSE
          OBVIOUS
        <4>1. /\ e[1] \in Images /\ e[2] \in 1 .. MaxInputs /\ e[2] <= Len(srcs[e[1]])
              /\ inputs[e[1]][e[2]] = Root
          BY DEF Users
        <4>2. e[2] \in 1 .. Len(srcs[e[1]])
          <5>1. srcs[e[1]] \in Seq(BOOLEAN)
            BY <4>1 DEF DagInv, DagTypes
          <5>2. PICK n \in Nat : n = Len(srcs[e[1]])
            BY <5>1
          <5> QED  BY <4>1, <5>2
        <4> QED  BY <1>3, <2>4, <4>1, <4>2
      <3>2. Users(Root) = {}
        BY <3>1
      <3> QED  BY <3>2, FS_EmptySet
    <2>6. \A i \in context' : rcaps'[i] = Cardinality(Users(i)') + (IF i = Root THEN 1 ELSE 0)
      <3> SUFFICES ASSUME NEW i \in context'
                   PROVE  rcaps'[i] = Cardinality(Users(i)) + (IF i = Root THEN 1 ELSE 0)
        BY <2>2
      <3>1. rcaps \in [Images -> Nat] /\ context \subseteq Images
        BY DEF DagInv, DagTypes
      <3>2. CASE i = Root
        BY <1>2, <1>3, <2>5, <3>1, <3>2
      <3>3. CASE i # Root
        BY <1>1, <1>3, <1>4, <2>1, <3>1, <3>3 DEF Connected
      <3> QED  BY <3>2, <3>3
    <2>7. /\ \A p \in Positions' : FALSE
          /\ \A j \in context' : Len(srcs'[j]) = Len(inputs'[j])
          /\ \A j \in Images : j \notin context' \cup OnStack' => srcs'[j] = << >>
          /\ \A i \in Images : frees'[i] = 0
      BY <1>1, <1>2, <1>3, <1>4, <2>1, <2>3, Emptied DEF Connected
    <2>8. \A j \in Images : \A k \in 1 .. Len(srcs'[j]) :
              k <= Len(inputs'[j]) /\ srcs'[j][k] /\ inputs'[j][k] \in context'
      BY <1>1, <1>3, <2>4
    <2> QED  BY <2>6, <2>7, <2>8 DEF Connected
  <1> QED  BY <1>1, <1>5, <1>6, <1>7, <1>8, <1>9, Emptied DEF DagInv

LEMMA DestroyedOutermost == ASSUME DagInv, Destroyed, Outer = << >> PROVE DagInv'
  <1>1. /\ stack # << >> /\ Top.op = "destroy" /\ ~ MoreInputs
        /\ stack' = << >> /\ phase' = "done"
        /\ UNCHANGED << inputs, srcs, error, news, rcaps >>
    BY DEF Destroyed, InCall, Return, dag
  <1>2. /\ Positions = {1} /\ OnStack = {Root} /\ Top = stack[1] /\ Top.image = Root
        /\ Root \in Images /\ Top.next = Len(inputs[Root]) + 1 /\ Len(inputs[Root]) \in Nat
    BY <1>1, Lone DEF DagInv, DagTypes
  <1>3. context' = context \ {Root} /\ frees' = [frees EXCEPT ![Root] = @ + 1]
    BY <1>2 DEF Destroyed
  <1>4. phase \in {"new", "destroy"}
    BY <1>1 DEF DagInv, Outermost, DagTypes
  <1>5. DagTypes'
    <2>1. frees' \in [Images -> Nat]
      <3>1. frees \in [Images -> Nat] /\ frees[Root] + 1 \in Nat
        BY <1>2 DEF DagInv, DagTypes
      <3> QED  BY <1>3, <3>1
    <2> QED  BY <1>1, <1>3, <2>1, Emptied DEF DagInv, DagTypes
  <1>6. Outermost'
    BY <1>1 DEF Outermost
  <1>7. Referenced'
    <2> SUFFICES ASSUME NEW h \in Images
                 PROVE  /\ frees'[h] <= news[h]
                        /\ news[h] = frees'[h] + (IF h \in context \ {Root} THEN 1 ELSE 0)
      BY <1>1, <1>3, Emptied DEF Referenced
    <2>1. /\ frees[h] \in Nat /\ news[h] \in Nat
          /\ news[h] = frees[h] + (IF h \in context \cup {Root} THEN 1 ELSE 0)
      BY <1>2, <1>4 DEF DagInv, Referenced, DagTypes
    <2>2. CASE h = Root
      <3>1. frees'[h] = frees[h] + 1
        BY <1>3, <2>2 DEF DagInv, DagTypes
      <3> QED  BY <2>1, <2>2, <3>1
    <2>3. CASE h # Root
      <3>1. frees'[h] = frees[h]
        BY <1>3, <2>3 DEF DagInv, DagTypes
      <3> QED  BY <2>1, <2>3, <3>1
    <2> QED  BY <2>2, <2>3
  <1>8. Reached'
    <2> SUFFICES ASSUME NEW h \in context, h # Root
                 PROVE  \E j \in Images, k \in Nat : Pending(j, k)' /\ inputs[j][k] = h
      BY <1>1, <1>3 DEF Reached
    <2>1. PICK j \in Images, k \in Nat : Pending(j, k) /\ inputs[j][k] = h
      BY <1>2, <1>4 DEF DagInv, Reached
    <2>2. k \in 1 .. Len(inputs[j]) /\ j \in context \ {Root}
      BY <1>1, <1>2, <2>1 DEF Pending
    <2> QED  BY <1>1, <1>3, <2>1, <2>2, Emptied DEF Pending
  <1>9. Connected'
    BY <1>1 DEF Connected
  <1> QED  BY <1>1, <1>5, <1>6, <1>7, <1>8, <1>9, Emptied DEF DagInv

LEMMA StepNoInput == ASSUME DagInv, NoInput PROVE DagInv'
  <1>1. phase' = "crashed" /\ stack' = << >> /\ UNCHANGED << inputs, regions, error >>
    BY DEF NoInput, dag
  <1>2. DagTypes'
    BY <1>1, Emptied DEF DagInv, DagTypes, regions
  <1>3. Outermost' /\ Referenced' /\ Reached' /\ Connected'
    BY <1>1 DEF DagInv, Outermost, Referenced, Reached, Connected, regions
  <1> QED  BY <1>1, <1>2, <1>3, Emptied DEF DagInv

LEMMA StepDestroy == ASSUME DagInv, Destroy PROVE DagInv'
  <1>1. /\ phase = "use" /\ phase' = "destroy" /\ stack = << >>
        /\ stack' = << [op |-> "destroy", image |-> Root, next |-> 1] >>
        /\ UNCHANGED << inputs, regions, error >> /\ Root \in context /\ Root \in Images
    BY DagAssumption DEF Destroy, Frame, DagInv, Outermost, dag, Root, Images
  <1>2. /\ stack' \in Seq(Frames) /\ Len(stack') = 1 /\ stack' # << >>
        /\ stack'[1].op = "destroy" /\ stack'[1].image = Root /\ stack'[1].next = 1
    BY <1>1 DEF Frames
  <1>3. Positions' = {1} /\ 1 .. Len(stack') - 1 = {}
    BY <1>2 DEF Positions
  <1>4. OnStack' = {Root} /\ Positions = {} /\ OnStack = {}
    BY <1>1, <1>2, <1>3 DEF OnStack, Positions
  <1>5. DagTypes'
    BY <1>1, <1>2 DEF DagInv, DagTypes, regions
  <1>6. Path'
    <2>1. Len(inputs[Root]) \in Nat
      BY <1>1 DEF DagInv, DagTypes
    <2> QED  BY <1>1, <1>2, <1>3, <2>1 DEF Path
  <1>7. Outermost' /\ Passed'
    BY <1>1, <1>2, <1>3 DEF Outermost, Passed
  <1>8. Referenced'
    <2>1. (context \cup OnStack)' = context \cup OnStack
      BY <1>1, <1>4 DEF regions
    <2> QED  BY <1>1, <2>1 DEF DagInv, Referenced, regions
  <1>9. Reached'
    <2> SUFFICES ASSUME NEW h \in context, h # Root
                 PROVE  \E j \in Images, k \in Nat : Pending(j, k)' /\ inputs[j][k] = h
      BY <1>1, <1>4 DEF Reached, regions
    <2>1. PICK j \in Images, k \in Nat : Pending(j, k) /\ inputs[j][k] = h
      BY <1>1, <1>4 DEF DagInv, Reached
    <2>2. k \in 1 .. Len(inputs[j]) /\ j \in context
      BY <1>4, <2>1 DEF Pending
    <2>3. CASE j = Root
      BY <1>1, <1>2, <1>3, <2>1, <2>2, <2>3 DEF Pending
    <2>4. CASE j # Root
      BY <1>1, <1>4, <2>1, <2>2, <2>4 DEF Pending, regions
    <2> QED  BY <2>3, <2>4
  <1>10. Connected'
    BY <1>1 DEF Connected
  <1> QED  BY <1>5, <1>6, <1>7, <1>8, <1>9, <1>10 DEF DagInv

-----------------------------------------------------------------------------
(* A failed setup: the construction of the innermost region becomes its
   destruction. *)
LEMMA StepSetupFails == ASSUME DagInv, SetupFails PROVE DagInv'
  <1> DEFINE new == [op |-> "destroy", image |-> Top.image, next |-> 1]
  <1>1. PICK n, x : n = Len(stack) /\ x = Top.image
    OBVIOUS
  <1>2. /\ stack # << >> /\ Top.op = "new" /\ error' = TRUE
        /\ rcaps' = [rcaps EXCEPT ![x] = 1] /\ stack' = Append(Outer, new)
        /\ UNCHANGED << inputs, phase, context, srcs, news, frees >>
        /\ stack \in Seq(Frames)
    BY <1>1 DEF SetupFails, InCall, dag, Frame, DagInv, DagTypes
  <1>3. /\ n \in Nat \ {0} /\ n \in Positions /\ Top \in Frames /\ Top = stack[n]
        /\ Outer \in Seq(Frames) /\ Len(Outer) = n - 1
        /\ \A p \in 1 .. n - 1 : Outer[p] = stack[p]
    BY <1>1, <1>2, TopFrame DEF Top
  <1>4. x \in Images /\ new \in Frames /\ new.op = "destroy" /\ new.image = x /\ new.next = 1
    BY <1>1, <1>3 DEF Frames
  <1> HIDE DEF new
  <1>5. /\ stack' \in Seq(Frames) /\ Len(stack') = n /\ stack'[n] = new
        /\ \A p \in 1 .. n - 1 : stack'[p] = stack[p]
    <2>1. /\ Append(Outer, new) \in Seq(Frames)
          /\ Len(Append(Outer, new)) = Len(Outer) + 1
          /\ \A p \in 1 .. Len(Outer) : Append(Outer, new)[p] = Outer[p]
          /\ Append(Outer, new)[Len(Outer) + 1] = new
      BY <1>3, <1>4, AppendProperties
    <2>2. Len(Outer) + 1 = n
      BY <1>3
    <2> QED  BY <1>2, <1>3, <2>1, <2>2
  <1>6. /\ Positions = 1 .. n /\ Positions' = 1 .. n
        /\ \A p \in 1 .. n : p # n => p \in 1 .. n - 1 /\ stack'[p] = stack[p]
        /\ n \in 1 .. n
        /\ stack'[n].op = "destroy" /\ stack'[n].image = x /\ stack'[n].next = 1
        /\ \A p \in 1 .. n : stack'[p].image = stack[p].image
    <2>1. Positions = 1 .. n /\ Positions' = 1 .. n
      BY <1>1, <1>5 DEF Positions
    <2>2. \A p \in 1 .. n : p # n => p \in 1 .. n - 1 /\ stack'[p] = stack[p]
      BY <1>3, <1>5
    <2>3. stack'[n].op = "destroy" /\ stack'[n].image = x /\ stack'[n].next = 1
      BY <1>4, <1>5
    <2>4. stack[n].image = x /\ n \in 1 .. n
      BY <1>1, <1>3
    <2> QED  BY <2>1, <2>2, <2>3, <2>4
  <1>7. OnStack' = OnStack
    BY <1>6 DEF OnStack
  <1>8. DagTypes'
    BY <1>2, <1>4, <1>5 DEF DagInv, DagTypes
  <1>9. Path'
    <2>1. \A p \in 1 .. n : stack'[p].next <= Len(inputs'[stack'[p].image]) + 1
      <3> SUFFICES ASSUME NEW p \in 1 .. n
                   PROVE  stack'[p].next <= Len(inputs[stack'[p].image]) + 1
        BY <1>2
      <3>1. CASE p = n
        <4>1. Len(inputs[x]) \in Nat
          BY <1>4 DEF DagInv, DagTypes
        <4> QED  BY <1>6, <3>1, <4>1
      <3>2. CASE p # n
        BY <1>6, <3>2 DEF DagInv, Path
      <3> QED  BY <3>1, <3>2
    <2>2. ASSUME NEW p \in 1 .. n - 1
          PROVE  /\ stack'[p].next <= Len(inputs'[stack'[p].image])
                 /\ inputs'[stack'[p].image][stack'[p].next] = stack'[p + 1].image
      <3>1. p \in 1 .. Len(stack) - 1 /\ p + 1 \in 1 .. n /\ stack'[p] = stack[p]
        BY <1>1, <1>3, <1>5
      <3>2. stack'[p + 1].image = stack[p + 1].image
        BY <1>6, <3>1
      <3> QED  BY <1>2, <3>1, <3>2 DEF DagInv, Path
    <2>3. ASSUME NEW p \in 1 .. n, NEW q \in 1 .. n, p < q
          PROVE  stack'[p].image < stack'[q].image /\ (stack'[q].op = "new" => stack'[p].op = "new")
      <3>1. p # n
        BY <2>3, <1>3
      <3>2. CASE q = n
        BY <1>6, <2>3, <3>1, <3>2 DEF DagInv, Path
      <3>3. CASE q # n
        BY <1>6, <2>3, <3>1, <3>3 DEF DagInv, Path
      <3> QED  BY <3>2, <3>3
    <2> QED  BY <1>5, <1>6, <2>1, <2>2, <2>3 DEF Path
  <1>10. Outermost'
    <2>1. stack' # << >> /\ 1 \in 1 .. n
      BY <1>3, <1>5
    <2>2. stack'[1].image = Root /\ (phase = "destroy" => stack'[1].op = "destroy")
      BY <1>2, <1>6, <2>1 DEF DagInv, Outermost
    <2>3. phase \in {"new", "destroy"}
      BY <1>2 DEF DagInv, Outermost
    <2> QED  BY <1>2, <2>1, <2>2, <2>3 DEF Outermost
  <1>11. Passed'
    <2> SUFFICES ASSUME NEW p \in 1 .. n
                 PROVE  IF stack'[p].op = "new" THEN stack'[p].image \notin context
                        ELSE \A k \in 1 .. stack'[p].next - 1 : inputs[stack'[p].image][k] \notin context
      BY <1>2, <1>6 DEF Passed
    <2>1. CASE p = n
      BY <1>6, <2>1
    <2>2. CASE p # n
      BY <1>6, <2>2 DEF DagInv, Passed
    <2> QED  BY <2>1, <2>2
  <1>12. Referenced'
    BY <1>2, <1>7 DEF DagInv, Referenced
  <1>13. Reached'
    <2> SUFFICES ASSUME phase # "crashed", NEW h \in context, h \notin OnStack, ~ (h = Root /\ phase = "use")
                 PROVE  \E j \in Images, k \in Nat : Pending(j, k)' /\ inputs[j][k] = h
      BY <1>2, <1>7 DEF Reached
    <2>1. PICK j \in Images, k \in Nat : Pending(j, k) /\ inputs[j][k] = h
      BY DEF DagInv, Reached
    <2>2. k \in 1 .. Len(inputs[j])
      BY <2>1 DEF Pending
    <2>3. CASE j \in context \ OnStack
      BY <1>2, <1>7, <2>1, <2>2, <2>3 DEF Pending
    <2>4. ASSUME NEW p \in 1 .. n, stack[p].image = j,
                 IF stack[p].op = "new" THEN k < stack[p].next ELSE k >= stack[p].next
          PROVE  Pending(j, k)'
      <3>1. stack'[p].image = j
        BY <1>6, <2>4
      <3>2. IF stack'[p].op = "new" THEN k < stack'[p].next ELSE k >= stack'[p].next
        <4>1. CASE p = n
          BY <1>6, <2>2, <4>1
        <4>2. CASE p # n
          BY <1>6, <2>4, <4>2
        <4> QED  BY <4>1, <4>2
      <3> QED  BY <1>2, <1>6, <2>2, <3>1, <3>2 DEF Pending
    <2> QED  BY <1>6, <2>1, <2>3, <2>4 DEF Pending
  <1>14. Connected'
    BY <1>2 DEF Connected
  <1> QED  BY <1>8, <1>9, <1>10, <1>11, <1>12, <1>13, <1>14 DEF DagInv

-----------------------------------------------------------------------------
LEMMA DagInitially == InitDag => DagInv
  <1> SUFFICES ASSUME InitDag PROVE DagInv
    OBVIOUS
  <1>1. /\ phase = "new" /\ stack = << [op |-> "new", image |-> Root, next |-> 1] >>
        /\ context = {} /\ srcs = [i \in Images |-> << >>] /\ rcaps = [i \in Images |-> 0]
        /\ news = [i \in Images |-> IF i = Root THEN 1 ELSE 0]
        /\ frees = [i \in Images |-> 0] /\ error = FALSE
    BY DEF InitDag, Frame
  <1>2. Root \in Images
    BY DagAssumption DEF Root, Images
  <1>3. /\ stack \in Seq(Frames) /\ Len(stack) = 1 /\ stack # << >>
        /\ stack[1].op = "new" /\ stack[1].image = Root /\ stack[1].next = 1
    BY <1>1, <1>2 DEF Frames
  <1>4. Positions = {1} /\ 1 .. Len(stack) - 1 = {}
    BY <1>3 DEF Positions
  <1>5. OnStack = {Root}
    BY <1>3, <1>4 DEF OnStack
  <1>6. /\ inputs \in [Images -> Seq(Images)]
        /\ \A i \in Images : Len(inputs[i]) <= MaxInputs /\ Len(inputs[i]) \in Nat
        /\ \A i \in Images : \A k \in 1 .. Len(inputs[i]) : inputs[i][k] > i
    <2>1. /\ DOMAIN inputs = Images /\ inputs = [i \in Images |-> inputs[i]]
          /\ \A i \in Images : inputs[i] \in InputsOf(i)
      BY DEF InitDag
    <2>2. ASSUME NEW i \in Images
          PROVE  /\ inputs[i] \in Seq(Images) /\ Len(inputs[i]) <= MaxInputs /\ Len(inputs[i]) \in Nat
                 /\ \A k \in 1 .. Len(inputs[i]) : inputs[i][k] > i
      <3>1. PICK n \in 0 .. MaxInputs : inputs[i] \in [1 .. n -> i + 1 .. NumImages]
        BY <2>1 DEF InputsOf
      <3>2. n \in Nat /\ n <= MaxInputs
        BY <3>1, DagAssumption
      <3>3. \A k \in i + 1 .. NumImages : k \in Images /\ k > i
        BY DagAssumption DEF Images
      <3>4. inputs[i] \in [1 .. n -> Images] /\ \A k \in 1 .. n : inputs[i][k] > i
        BY <3>1, <3>3
      <3>5. inputs[i] \in Seq(Images)
        BY <3>2, <3>4, SeqDef
      <3>6. Len(inputs[i]) = n
        BY <3>2, <3>4, <3>5, LenProperties
      <3> QED  BY <3>2, <3>4, <3>5, <3>6
    <2> QED  BY <2>1, <2>2
  <1>7. DagTypes
    <2>1. << >> \in Seq(BOOLEAN)
      OBVIOUS
    <2> QED  BY <1>1, <1>3, <1>6, <2>1 DEF DagTypes
  <1>8. Path
    BY <1>2, <1>3, <1>4, <1>6 DEF Path
  <1>9. Outermost /\ Passed
    BY <1>1, <1>3, <1>4 DEF Outermost, Passed
  <1>10. Referenced
    BY <1>1, <1>5 DEF Referenced
  <1>11. Reached
    BY <1>1 DEF Reached
  <1>12. Connected
    <2>1. \A i \in Images : srcs[i] = << >> /\ Len(srcs[i]) = 0
      BY <1>1
    <2> QED  BY <1>1, <1>2, <1>3, <1>4, <2>1 DEF Connected
  <1> QED  BY <1>7, <1>8, <1>9, <1>10, <1>11, <1>12 DEF DagInv

LEMMA DagStepKeeps == DagInv /\ [DagStep]_dagVars => DagInv'
  <1> SUFFICES ASSUME DagInv, [DagStep]_dagVars PROVE DagInv'
    OBVIOUS
  <1>1. CASE InputKnown
    BY <1>1, StepInputKnown
  <1>2. CASE InputFresh
    BY <1>2, StepInputFresh
  <1>3. CASE Ready
    BY <1>3, ReadyInner, ReadyOutermost
  <1>4. CASE SetupFails
    BY <1>4, StepSetupFails
  <1>5. CASE Destroy
    BY <1>5, StepDestroy
  <1>6. CASE NoInput
    BY <1>6, StepNoInput
  <1>7. CASE SkipInput
    BY <1>7, StepSkipInput
  <1>8. CASE DestroyInput
    BY <1>8, StepDestroyInput
  <1>9. CASE Destroyed
    BY <1>9, DestroyedInner, DestroyedOutermost
  <1>10. CASE UNCHANGED dagVars
    <2>1. UNCHANGED << inputs, phase, stack, context, srcs, rcaps, news, frees, error >>
      BY <1>10 DEF dagVars, dag, regions
    <2>2. UNCHANGED << Positions, OnStack >> /\ \A i : Users(i)' = Users(i)
      BY <2>1 DEF Positions, OnStack, Users
    <2>3. DagTypes' /\ Path' /\ Outermost' /\ Passed' /\ Referenced'
      BY <2>1, <2>2 DEF DagInv, DagTypes, Path, Outermost, Passed, Referenced
    <2>4. \A j, k : Pending(j, k)' <=> Pending(j, k)
      BY <2>1, <2>2 DEF Pending
    <2>5. Reached'
      BY <2>1, <2>2, <2>4 DEF DagInv, Reached
    <2>6. Connected'
      BY <2>1, <2>2 DEF DagInv, Connected
    <2> QED  BY <2>3, <2>5, <2>6 DEF DagInv
  <1> QED  BY <1>1, <1>2, <1>3, <1>4, <1>5, <1>6, <1>7, <1>8, <1>9, <1>10 DEF DagStep, Stopped

LEMMA DagInvariance == DagSpec => []DagInv
  <1> QED  BY DagInitially, DagStepKeeps, PTL DEF DagSpec

(* In a complete runtime DAG every region reached has its inputs, and counts
   its users: the walk shares what it finds in the context, and nothing else
   makes a region. *)
THEOREM CapacityMatches == DagSpec => []CapacityIsUsers
  <1>1. DagInv => CapacityIsUsers
    <2> SUFFICES ASSUME DagInv, phase = "use"
                 PROVE  /\ Root \in context
                        /\ \A j \in context : \A k \in 1 .. Len(inputs[j]) :
                               inputs[j][k] \in context /\ srcs[j][k]
                        /\ \A i \in context :
                               /\ news[i] = 1
                               /\ rcaps[i] = Cardinality(UsesOf(i)) + (IF i = Root THEN 1 ELSE 0)
      BY DEF CapacityIsUsers
    <2>1. stack = << >> /\ Root \in context /\ ~ error
      BY DEF DagInv, Outermost
    <2>2. Positions = {} /\ OnStack = {}
      BY <2>1 DEF Positions, OnStack
    <2>3. /\ \A j \in context : Len(srcs[j]) = Len(inputs[j])
          /\ \A j \in Images : j \notin context => srcs[j] = << >>
          /\ \A j \in Images : \A k \in 1 .. Len(srcs[j]) :
                 k <= Len(inputs[j]) /\ srcs[j][k] /\ inputs[j][k] \in context
          /\ \A i \in Images : frees[i] = 0
          /\ \A i \in context : rcaps[i] = Cardinality(Users(i)) + (IF i = Root THEN 1 ELSE 0)
      BY <2>1, <2>2 DEF DagInv, Connected
    <2>4. context \subseteq Images
      BY DEF DagInv, DagTypes
    <2>5. \A i : UsesOf(i) = Users(i)
      <3>1. \A j \in Images : j \notin context => Len(srcs[j]) = 0
        BY <2>3
      <3>2. \A n \in 1 .. MaxInputs : ~ (n <= 0)
        OBVIOUS
      <3> QED  BY <2>3, <2>4, <3>1, <3>2 DEF UsesOf, Users
    <2>6. \A i \in context : news[i] = 1
      BY <2>2, <2>3, <2>4 DEF DagInv, DagTypes, Referenced
    <2>7. \A j \in context : \A k \in 1 .. Len(inputs[j]) : inputs[j][k] \in context /\ srcs[j][k]
      BY <2>3, <2>4
    <2> QED  BY <2>1, <2>3, <2>5, <2>6, <2>7
  <1> QED  BY <1>1, DagInvariance, PTL

(* No region is destroyed more often than it was made, and whether the sink
   used the DAG or a setup failed, at the end none is left: the first image
   still in the context would have no user, and none is out of reach. *)
THEOREM NothingRemains == DagSpec => []NothingLeft
  <1>1. DagInv => NothingLeft
    <2> SUFFICES ASSUME DagInv PROVE NothingLeft
      OBVIOUS
    <2>1. \A i \in Images : frees[i] <= news[i]
      BY DEF DagInv, Referenced
    <2>2. ASSUME phase = "done" PROVE context = {} /\ frees = news
      <3>1. Positions = {} /\ OnStack = {}
        BY <2>2 DEF Positions, OnStack, DagInv, Outermost
      <3>2. context = {}
        <4> SUFFICES ASSUME context # {} PROVE FALSE
          OBVIOUS
        <4>1. context \in SUBSET (1 .. NumImages) /\ NumImages \in Nat
          BY DagAssumption DEF DagInv, DagTypes, Images
        <4>2. PICK i \in context : \A h \in context : i <= h
          BY <4>1, First
        <4>3. PICK j \in Images, k \in Nat : Pending(j, k) /\ inputs[j][k] = i
          BY <2>2, <3>1 DEF DagInv, Reached
        <4>4. j \in context /\ k \in 1 .. Len(inputs[j])
          BY <3>1, <4>3 DEF Pending
        <4>5. i > j
          BY <4>3, <4>4 DEF DagInv, DagTypes
        <4> QED  BY <4>1, <4>2, <4>4, <4>5
      <3>3. frees \in [Images -> Nat] /\ news \in [Images -> Nat]
        BY DEF DagInv, DagTypes
      <3>4. \A i \in Images : frees[i] = news[i]
        <4> SUFFICES ASSUME NEW i \in Images PROVE frees[i] = news[i]
          OBVIOUS
        <4>1. news[i] = frees[i] + (IF i \in context \cup OnStack THEN 1 ELSE 0)
          BY <2>2 DEF DagInv, Referenced
        <4> QED  BY <3>1, <3>2, <3>3, <4>1
      <3> QED  BY <3>2, <3>3, <3>4
    <2> QED  BY <2>1, <2>2 DEF NothingLeft
  <1> QED  BY <1>1, DagInvariance, PTL
=============================================================================
