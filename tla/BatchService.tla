---------------------------- MODULE BatchService ----------------------------
(***************************************************************************)
(* What aktive_batch_run promises its caller, whichever coordinator it     *)
(* uses: every task the maker generates is completed exactly once, in the  *)
(* order of generation for a sequential batch, and the call ends after the *)
(* last of them.                                                           *)
(***************************************************************************)
EXTENDS Naturals, Sequences

CONSTANTS NumTasks,     \* tasks the maker generates before it answers NULL
          Sequential    \* the `sequential` argument of aktive_batch_run

VARIABLES made,         \* number of tasks generated
          completed,    \* results handed to the completer, in that order
          over          \* aktive_batch_run has returned

vars == << made, completed, over >>

Init == made = 0 /\ completed = << >> /\ over = FALSE

IsCompleted(t) == \E i \in 1 .. Len(completed) : completed[i] = t

Make == /\ ~ over
        /\ made < NumTasks
        /\ made' = made + 1
        /\ UNCHANGED << completed, over >>

Complete(t) == /\ ~ over
               /\ t <= made
               /\ ~ IsCompleted(t)
               /\ Sequential => t = Len(completed) + 1
               /\ completed' = Append(completed, t)
               /\ UNCHANGED << made, over >>

Return == /\ ~ over
          /\ Len(completed) = NumTasks
          /\ over' = TRUE
          /\ UNCHANGED << made, completed >>

Next == Make \/ Return \/ \E t \in 1 .. NumTasks : Complete(t)

Spec == Init /\ [][Next]_vars

FairSpec == Spec /\ WF_vars(Next)
=============================================================================
