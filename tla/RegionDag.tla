------------------------------ MODULE RegionDag ------------------------------
(***************************************************************************)
(* runtime/region.c, runtime/context.c: construction and destruction of    *)
(* the runtime DAG of regions for a DAG of images, in one thread.          *)
(*                                                                         *)
(* aktive_region_new and aktive_region_destroy walk the images depth       *)
(* first; their C stack is `stack`.  The context maps an image to its      *)
(* region, so that an image with several users gets one region.  Images    *)
(* are numbered from the sink's image, Root, towards the sources.          *)
(*                                                                         *)
(* The setup callback of an operator can fail: a reader whose file can not *)
(* be opened.  Destruction of a shared input looks at a region already     *)
(* destroyed; nothing is allocated in between, and the allocator leaves    *)
(* freed memory as it was, so the walk sees the old contents.              *)
(***************************************************************************)
EXTENDS Naturals, Sequences, FiniteSets

CONSTANTS NumImages,    \* at least one
          MaxInputs     \* bound on the number of inputs of an image

ASSUME DagAssumption == NumImages \in Nat \ {0} /\ MaxInputs \in Nat

Images == 1 .. NumImages
Root   == 1

InputsOf(i) == UNION {[1 .. n -> i + 1 .. NumImages] : n \in 0 .. MaxInputs}

VARIABLES inputs,       \* per image: content->public.srcs, never changes
          failing,      \* the images whose region setup fails, never changes
          phase,        \* what the sink does, or "crashed"
          stack,        \* the calls in progress, innermost last
          context,      \* the images with a region in the context
          srcs,         \* per image: its region's srcs.v, TRUE for a region
          rcaps,        \* per image: its region's rcap
          news,         \* per image: regions created, each referencing it
          frees,        \* per image: regions destroyed
          error         \* an error is pending

dag     == << inputs, failing >>
regions == << context, srcs, rcaps, news, frees >>
dagVars == << dag, phase, stack, regions, error >>

Frame(op, i) == [op |-> op, image |-> i, next |-> 1]

(* The sink has an image and calls aktive_region_new. *)
InitDag ==
    /\ inputs \in {f \in [Images -> UNION {InputsOf(i) : i \in Images}] :
                       \A i \in Images : f[i] \in InputsOf(i)}
    /\ failing \in SUBSET Images
    /\ phase = "new"
    /\ stack = << Frame("new", Root) >>
    /\ context = {}
    /\ srcs = [i \in Images |-> << >>]
    /\ rcaps = [i \in Images |-> 0]
    /\ news = [i \in Images |-> IF i = Root THEN 1 ELSE 0]
    /\ frees = [i \in Images |-> 0]
    /\ error = FALSE

Top      == stack[Len(stack)]
Outer    == SubSeq(stack, 1, Len(stack) - 1)
InCall(op) == stack # << >> /\ Top.op = op
MoreInputs == Top.next <= Len(inputs[Top.image])
Input      == inputs[Top.image][Top.next]

Advance(s) == [s EXCEPT ![Len(s)].next = @ + 1]

(* The return of a call: its caller stores the region, or 0 if there is none,
   as the input it asked for, or goes on with the destruction. *)
Return(region) ==
    IF Outer = << >>
    THEN /\ stack' = << >>
         /\ phase' = IF region THEN "use" ELSE "done"
         /\ UNCHANGED srcs
    ELSE LET caller == Outer[Len(Outer)] IN
         /\ stack' = Advance(Outer)
         /\ srcs' = IF caller.op = "new"
                    THEN [srcs EXCEPT ![caller.image] = Append(@, region)]
                    ELSE srcs
         /\ UNCHANGED phase

-----------------------------------------------------------------------------
(* aktive_region_new *)

(* A faulty form of InputKnown: the further user is not counted. *)
InputKnownUncounted ==
    /\ InCall("new") /\ MoreInputs
    /\ Input \in context
    /\ srcs' = [srcs EXCEPT ![Top.image] = Append(@, TRUE)]
    /\ stack' = Advance(stack)
    /\ UNCHANGED << dag, phase, context, rcaps, news, frees, error >>

(* An input found in the context is shared. *)
InputKnown == /\ InCall("new") /\ MoreInputs
              /\ Input \in context
              /\ rcaps' = [rcaps EXCEPT ![Input] = @ + 1]
              /\ srcs' = [srcs EXCEPT ![Top.image] = Append(@, TRUE)]
              /\ stack' = Advance(stack)
              /\ UNCHANGED << dag, phase, context, news, frees, error >>

(* Any other input gets a region of its own. *)
InputFresh == /\ InCall("new") /\ MoreInputs
              /\ Input \notin context
              /\ news' = [news EXCEPT ![Input] = @ + 1]
              /\ srcs' = [srcs EXCEPT ![Input] = << >>]
              /\ stack' = Append(stack, Frame("new", Input))
              /\ UNCHANGED << dag, phase, context, rcaps, frees, error >>

(* All inputs are there, and the setup succeeds. *)
Ready == /\ InCall("new") /\ ~ MoreInputs
         /\ Top.image \notin failing /\ ~ error
         /\ rcaps' = [rcaps EXCEPT ![Top.image] = 1]
         /\ context' = context \cup {Top.image}
         /\ Return(TRUE)
         /\ UNCHANGED << dag, news, frees, error >>

(* The setup fails, or the error of an input is still pending: the region is
   destroyed again. *)
SetupFails == /\ InCall("new") /\ ~ MoreInputs
              /\ Top.image \in failing \/ error
              /\ error' = TRUE
              /\ rcaps' = [rcaps EXCEPT ![Top.image] = 1]
              /\ stack' = Append(Outer, Frame("destroy", Top.image))
              /\ UNCHANGED << dag, phase, context, srcs, news, frees >>

-----------------------------------------------------------------------------
(* aktive_region_destroy *)

(* The sink is done with its region. *)
Destroy == /\ phase = "use"
           /\ phase' = "destroy"
           /\ stack' = << Frame("destroy", Root) >>
           /\ UNCHANGED << dag, regions, error >>

(* An input that never came to be: a null pointer is followed. *)
NoInput == /\ InCall("destroy") /\ MoreInputs
           /\ ~ srcs[Top.image][Top.next]
           /\ phase' = "crashed"
           /\ stack' = << >>
           /\ UNCHANGED << dag, regions, error >>

(* A shared input that some other user has destroyed already. *)
SkipInput == /\ InCall("destroy") /\ MoreInputs
             /\ srcs[Top.image][Top.next]
             /\ Input \notin context
             /\ stack' = Advance(stack)
             /\ UNCHANGED << dag, phase, regions, error >>

DestroyInput == /\ InCall("destroy") /\ MoreInputs
                /\ srcs[Top.image][Top.next]
                /\ Input \in context
                /\ stack' = Append(stack, Frame("destroy", Input))
                /\ UNCHANGED << dag, phase, regions, error >>

(* A faulty form of Destroyed: the context keeps the region. *)
DestroyedKeeps == /\ InCall("destroy") /\ ~ MoreInputs
                  /\ frees' = [frees EXCEPT ![Top.image] = @ + 1]
                  /\ Return(FALSE)
                  /\ UNCHANGED << dag, context, rcaps, news, error >>

(* The inputs are gone; the region follows. *)
Destroyed == /\ InCall("destroy") /\ ~ MoreInputs
             /\ frees' = [frees EXCEPT ![Top.image] = @ + 1]
             /\ context' = context \ {Top.image}
             /\ Return(FALSE)
             /\ UNCHANGED << dag, rcaps, news, error >>

(* The sink returns, or the program has crashed. *)
Stopped == phase \in {"done", "crashed"} /\ UNCHANGED dagVars

DagStep == \/ InputKnown \/ InputFresh \/ Ready \/ SetupFails
           \/ Destroy \/ NoInput \/ SkipInput \/ DestroyInput \/ Destroyed
           \/ Stopped

DagSpec == InitDag /\ [][DagStep]_dagVars

-----------------------------------------------------------------------------
(* The edges of the runtime DAG into the region of an image. *)
UsesOf(i) == {e \in context \X (1 .. MaxInputs) :
                 e[2] <= Len(inputs[e[1]]) /\ inputs[e[1]][e[2]] = i}

(* In a complete DAG every image that can be reached has one region, and the
   region's result capacity is the number of its users: aktive_region_fetch
   allocates that many blocks, and its assertions rest on it. *)
CapacityIsUsers == phase = "use" =>
    /\ Root \in context
    /\ \A j \in context : \A k \in 1 .. Len(inputs[j]) : inputs[j][k] \in context /\ srcs[j][k]
    /\ \A i \in context :
           news[i] = 1 /\ rcaps[i] = Cardinality(UsesOf(i)) + (IF i = Root THEN 1 ELSE 0)

(* However often a region is shared, it is destroyed once, and neither the end
   of the sink nor the error of a setup leaves a region, a context entry or an
   image reference behind. *)
NothingLeft == /\ \A i \in Images : frees[i] <= news[i]
               /\ phase = "done" => context = {} /\ frees = news

(* region.c: ASSERT (sr->origin == si, "image mismatch region/image").  The
   regions that a destruction walks over exist. *)
InputsExist == phase # "crashed"
=============================================================================
