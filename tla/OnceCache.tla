------------------------------ MODULE OnceCache ------------------------------
(***************************************************************************)
(* What the vector caches promise: a thread that asks for a vector gets    *)
(* it, and a vector is computed once, when the first thread asks, whatever *)
(* the number of threads that ask at the same time.                        *)
(***************************************************************************)
CONSTANTS Threads, Vectors

VARIABLES computed,     \* the vectors that have been computed
          asking        \* per thread: the vector asked for, as a set

vars == << computed, asking >>

Init == computed = {} /\ asking = [t \in Threads |-> {}]

Ask(t, v) == /\ asking[t] = {}
             /\ asking' = [asking EXCEPT ![t] = {v}]
             /\ UNCHANGED computed

Compute(v) == /\ v \notin computed
              /\ computed' = computed \cup {v}
              /\ UNCHANGED asking

Answer(t) == /\ asking[t] # {}
             /\ asking[t] \subseteq computed
             /\ asking' = [asking EXCEPT ![t] = {}]
             /\ UNCHANGED computed

Next == \/ \E v \in Vectors : Compute(v) \/ \E t \in Threads : Ask(t, v)
        \/ \E t \in Threads : Answer(t)

Spec == Init /\ [][Next]_vars
=============================================================================
