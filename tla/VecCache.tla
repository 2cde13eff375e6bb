------------------------------ MODULE VecCache ------------------------------
(***************************************************************************)
(* runtime/veccache.c: the cache of the rows of a text image, shared by    *)
(* all threads reading the image.  Rows are read in sequence, because only *)
(* the end of a row tells the start of the next.  Each vector has its own  *)
(* mutex; `area` and `start` are also read without it.                     *)
(*                                                                         *)
(* aktive_veccache_get recurses from vector k to k-1 while the start of k  *)
(* is unknown, so the frames of a thread are a range of indices: `wanted`  *)
(* is the outermost one, `index` the innermost.  The unlocked reads race   *)
(* with the two plain stores after a fill, which the compiler may order    *)
(* either way; the filler, an opaque call, comes before both of them.      *)
(***************************************************************************)
EXTENDS Integers, FiniteSets

CONSTANTS Threads,
          NumVectors,   \* cache->nvectors
          Base,         \* offset of the first vector in the input, not 0
          Nobody        \* holder of a free mutex

ASSUME NumVectorsAssumption == NumVectors \in Nat \ {0}
ASSUME BaseAssumption       == Base \in Nat \ {0}
ASSUME ThreadsAssumption    == IsFiniteSet(Threads) /\ Nobody \notin Threads

Vectors == 0 .. NumVectors - 1
Unknown == 0            \* a start offset not known yet

VARIABLES start,        \* per vector and the sentinel: offset in the input
          area,         \* per vector: TRUE once the filled memory is visible
          lock,         \* per vector: the thread holding its mutex
          at,           \* where each thread is
          wanted,       \* the vector it was asked for
          index,        \* the vector of its innermost call
          unstored,     \* of the two stores after its fill, those not done
          next,         \* what its last filler call returned
          fills         \* per vector: the number of filler calls

shared == << start, area, lock >>
frames == << wanted, index >>
vars   == << shared, at, frames, unstored, next, fills >>

(* aktive_veccache_new *)
Init == /\ start = [v \in 0 .. NumVectors |-> IF v = 0 THEN Base ELSE Unknown]
        /\ area = [v \in Vectors |-> FALSE]
        /\ lock = [v \in Vectors |-> Nobody]
        /\ at = [t \in Threads |-> "idle"]
        /\ wanted = [t \in Threads |-> 0]
        /\ index = [t \in Threads |-> 0]
        /\ unstored = [t \in Threads |-> {}]
        /\ next = [t \in Threads |-> Unknown]
        /\ fills = [v \in Vectors |-> 0]

Goto(t, place) == at' = [at EXCEPT ![t] = place]

(* A pixel request of thread t needs vector v. *)
Call(t, v) == /\ at[t] = "idle"
              /\ wanted' = [wanted EXCEPT ![t] = v]
              /\ index' = [index EXCEPT ![t] = v]
              /\ Goto(t, "check")
              /\ UNCHANGED << shared, unstored, next, fills >>

(* The return of a call: from the outermost to the reader, from an inner one
   into the loop of the call for the next vector. *)
Return(t) == IF index[t] = wanted[t]
             THEN /\ Goto(t, "idle")
                  /\ index' = [index EXCEPT ![t] = 0]
                  /\ wanted' = [wanted EXCEPT ![t] = 0]
             ELSE /\ Goto(t, "start")
                  /\ index' = [index EXCEPT ![t] = @ + 1]
                  /\ UNCHANGED wanted

(* A faulty form of Check: a vector with a known start is taken for filled. *)
CheckStart(t) == /\ at[t] = "check"
                 /\ IF start[index[t]] # Unknown THEN Return(t)
                    ELSE Goto(t, "start") /\ UNCHANGED frames
                 /\ UNCHANGED << shared, unstored, next, fills >>

(* if (!cache->vec[index].area), without the lock *)
Check(t) == /\ at[t] = "check"
            /\ IF area[index[t]] THEN Return(t)
               ELSE Goto(t, "start") /\ UNCHANGED frames
            /\ UNCHANGED << shared, unstored, next, fills >>

(* while (!cache->vec[index].start) get (index-1), without the lock *)
NeedStart(t) == /\ at[t] = "start"
                /\ IF start[index[t]] = Unknown
                   THEN /\ index' = [index EXCEPT ![t] = @ - 1]
                        /\ Goto(t, "check")
                   ELSE Goto(t, "lock") /\ UNCHANGED index
                /\ UNCHANGED << shared, wanted, unstored, next, fills >>

Lock(t) == /\ at[t] = "lock"
           /\ lock[index[t]] = Nobody
           /\ lock' = [lock EXCEPT ![index[t]] = t]
           /\ Goto(t, "recheck")
           /\ UNCHANGED << start, area, frames, unstored, next, fills >>

(* Faulty forms of Recheck: none at all, or a return without an unlock. *)
RecheckNothing(t) == /\ at[t] = "recheck"
                     /\ Goto(t, "filling")
                     /\ fills' = [fills EXCEPT ![index[t]] = @ + 1]
                     /\ UNCHANGED << shared, frames, unstored, next >>

RecheckReturns(t) == /\ at[t] = "recheck"
                     /\ IF area[index[t]]
                        THEN Return(t) /\ UNCHANGED fills
                        ELSE /\ Goto(t, "filling")
                             /\ fills' = [fills EXCEPT ![index[t]] = @ + 1]
                             /\ UNCHANGED frames
                     /\ UNCHANGED << shared, unstored, next >>

(* if (!cache->vec[index].area), with the lock: fill or skip *)
Recheck(t) == /\ at[t] = "recheck"
              /\ IF area[index[t]]
                 THEN Goto(t, "unlock") /\ UNCHANGED fills
                 ELSE /\ Goto(t, "filling")
                      /\ fills' = [fills EXCEPT ![index[t]] = @ + 1]
              /\ UNCHANGED << shared, frames, unstored, next >>

(* The filler has read the vector from its start offset and returns where it
   ended.  On bad input it stops where it is, so the offset need not grow. *)
FillEnds(t, size) == /\ at[t] = "filling"
                     /\ next' = [next EXCEPT ![t] = start[index[t]] + size]
                     /\ unstored' = [unstored EXCEPT ![t] = {"area", "start"}]
                     /\ Goto(t, "store")
                     /\ UNCHANGED << shared, frames, fills >>

(* vec[index].area = area *)
StoreArea(t) == /\ at[t] = "store" /\ "area" \in unstored[t]
                /\ area' = [area EXCEPT ![index[t]] = TRUE]
                /\ unstored' = [unstored EXCEPT ![t] = @ \ {"area"}]
                /\ UNCHANGED << start, lock, at, frames, next, fills >>

(* A faulty form of StoreStart: the end of a vector becomes its own start. *)
StoreStartOwn(t) == /\ at[t] = "store" /\ "start" \in unstored[t]
                    /\ start' = [start EXCEPT ![index[t]] = next[t]]
                    /\ unstored' = [unstored EXCEPT ![t] = @ \ {"start"}]
                    /\ UNCHANGED << area, lock, at, frames, next, fills >>

(* vec[index+1].start = start *)
StoreStart(t) == /\ at[t] = "store" /\ "start" \in unstored[t]
                 /\ start' = [start EXCEPT ![index[t] + 1] = next[t]]
                 /\ unstored' = [unstored EXCEPT ![t] = @ \ {"start"}]
                 /\ UNCHANGED << area, lock, at, frames, next, fills >>

(* Faulty forms of Unlock: before the start is stored, and none. *)
UnlockEarly(t) == /\ at[t] \in {"unlock", "store"}
                  /\ "area" \notin unstored[t]
                  /\ lock' = [lock EXCEPT ![index[t]] = Nobody]
                  /\ Return(t)
                  /\ next' = [next EXCEPT ![t] = Unknown]
                  /\ UNCHANGED << start, area, unstored, fills >>

UnlockNothing(t) == /\ \/ at[t] = "unlock"
                       \/ at[t] = "store" /\ unstored[t] = {}
                    /\ Return(t)
                    /\ next' = [next EXCEPT ![t] = Unknown]
                    /\ UNCHANGED << shared, unstored, fills >>

Unlock(t) == /\ \/ at[t] = "unlock"
                \/ at[t] = "store" /\ unstored[t] = {}
             /\ lock' = [lock EXCEPT ![index[t]] = Nobody]
             /\ Return(t)
             /\ next' = [next EXCEPT ![t] = Unknown]
             /\ UNCHANGED << start, area, unstored, fills >>

Get(t) == \/ Check(t) \/ NeedStart(t) \/ Lock(t) \/ Recheck(t)
          \/ \E size \in {0, 1} : FillEnds(t, size)
          \/ StoreArea(t) \/ StoreStart(t) \/ Unlock(t)

Next == \E t \in Threads : Get(t) \/ \E v \in Vectors : Call(t, v)

Spec == Init /\ [][Next]_vars

(* A thread inside a call runs unless it waits for a mutex; of the mutexes
   nothing more is assumed than that a free one can be taken. *)
Fairness == \A t \in Threads : WF_vars(Get(t))

FairSpec == Spec /\ Fairness

-----------------------------------------------------------------------------
Filling(t) == at[t] \in {"filling", "store"}

(* The input is read strictly in sequence although every vector has a lock of
   its own: one filler reads at a time, no vector is read twice, and none
   before all the vectors ahead of it (aktive_veccache_get). *)
ReadInSequence ==
    /\ \A v \in Vectors : fills[v] <= 1
    /\ \A v, u \in Vectors : u < v /\ fills[v] > 0 => fills[u] = 1
    /\ Cardinality({t \in Threads : at[t] = "filling"}) <= 1

(* A start offset other threads can see is final: it is where the previous
   vector ended, and it is known at the latest when that vector's lock is
   released with the vector in place. *)
StartFinal == \A v \in Vectors :
                  /\ start[v + 1] # Unknown => start[v] \in Base .. start[v + 1]
                  /\ area[v] /\ lock[v] = Nobody => start[v + 1] # Unknown

(* Only one lock is ever held by a thread, that of its innermost call: no
   circular wait among the vectors' locks is possible. *)
OneLock == \A t \in Threads : \A v \in Vectors : 
               lock[v] = t <=> v = index[t] /\ at[t] \in {"recheck", "filling", "store", "unlock"}

(* Start offsets and vectors never change once visible: what the comment at
   the head of the file relies on for access without a lock. *)
Immutable == [][\A v \in Vectors : /\ area[v] => area'[v]
                                   /\ start[v] # Unknown => start'[v] = start[v]]_vars

(* The cache computes each vector once and gives out only computed ones. *)
Once == INSTANCE OnceCache
            WITH computed <- {v \in Vectors : area[v]},
                 asking <- [t \in Threads |-> IF at[t] = "idle" THEN {} ELSE {wanted[t]}]

ImplementsOnce == Once!Spec

(* Every call returns, whatever other threads ask for at the same time. *)
EveryGetReturns == \A t \in Threads : at[t] # "idle" ~> at[t] = "idle"
=============================================================================
