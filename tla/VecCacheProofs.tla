---------------------------- MODULE VecCacheProofs ----------------------------
(***************************************************************************)
(* For any number of threads and vectors: the input is read in sequence by *)
(* one thread at a time, what can be seen without a lock never changes,    *)
(* and the cache is one that computes each vector once.                    *)
(*                                                                         *)
(* Everything follows from the starts: they are known up to some vector    *)
(* and grow up to there, and a thread beyond the recursion of its call     *)
(* stands at a vector with a known start.  The start after a vector and    *)
(* the vector itself become known together but for the time a thread, with *)
(* the lock of the vector, is between its two stores.                      *)
(***************************************************************************)
EXTENDS VecCache, FiniteSetTheorems, TLAPS

Places == {"idle", "check", "start", "lock", "recheck", "filling", "store", "unlock"}

Types == /\ start \in [0 .. NumVectors -> Nat]
         /\ area \in [Vectors -> BOOLEAN]
         /\ lock \in [Vectors -> Threads \cup {Nobody}]
         /\ at \in [Threads -> Places]
         /\ wanted \in [Threads -> Vectors]
         /\ index \in [Threads -> Vectors]
         /\ unstored \in [Threads -> SUBSET {"area", "start"}]
         /\ next \in [Threads -> Nat]
         /\ fills \in [Vectors -> Nat]

(* The frames of a thread go from the vector wanted downwards. *)
Frames == \A t \in Threads : index[t] <= wanted[t]

(* The known starts are those of the first vectors, and do not decrease. *)
Growing == /\ start[0] = Base
           /\ \A u, v \in 0 .. NumVectors :
                  u <= v /\ start[v] # Unknown => start[u] \in Base .. start[v]

(* What a thread knows of the vector it is at. *)
Standing == \A t \in Threads :
    /\ at[t] \in {"lock", "recheck", "filling", "store", "unlock"} => start[index[t]] # Unknown
    /\ at[t] = "filling" => ~ area[index[t]] /\ start[index[t] + 1] = Unknown
    /\ at[t] = "store" => /\ next[t] >= start[index[t]]
                          /\ "area" \in unstored[t] <=> ~ area[index[t]]
                          /\ "start" \in unstored[t] <=> start[index[t] + 1] = Unknown
    /\ at[t] = "unlock" => area[index[t]]

(* A vector and the start after it are known together, or being stored. *)
Settled == \A v \in Vectors :
    /\ area[v] => start[v] # Unknown
    /\ \/ area[v] <=> start[v + 1] # Unknown
       \/ \E t \in Threads : at[t] = "store" /\ index[t] = v

(* A vector was filled once if it is there or on its way, otherwise never. *)
Filled == \A v \in Vectors :
    fills[v] = IF area[v] \/ \E t \in Threads : Filling(t) /\ index[t] = v THEN 1 ELSE 0

IInv == Types /\ Frames /\ OneLock /\ Growing /\ Standing /\ Settled /\ Filled

LEMMA InitInv == Init => IInv
  <1> SUFFICES ASSUME Init PROVE IInv
    OBVIOUS
  <1> USE NumVectorsAssumption, BaseAssumption, ThreadsAssumption DEF Init, Vectors, Unknown
  <1>1. Types /\ Frames
    BY DEF Types, Places, Frames
  <1>2. OneLock /\ Standing
    BY DEF OneLock, Standing
  <1>3. Growing /\ Settled /\ Filled
    BY DEF Growing, Settled, Filled, Filling
  <1> QED  BY <1>1, <1>2, <1>3 DEF IInv

(* A vector and the one after it have a place among the starts. *)
LEMMA VectorRange ==
    ASSUME NEW v \in Vectors
    PROVE  /\ v \in Nat /\ v \in 0 .. NumVectors /\ v + 1 \in 0 .. NumVectors
           /\ v # 0 => v - 1 \in Vectors
           /\ \A w \in Vectors : v < w => v + 1 \in Vectors
  BY NumVectorsAssumption DEF Vectors

(* A return goes to the idle place, or to the next vector's loop. *)
LEMMA ReturnMoves ==
    ASSUME Types, Frames, NEW t \in Threads, Return(t)
    PROVE  /\ at' \in [Threads -> Places] /\ wanted' \in [Threads -> Vectors]
           /\ index' \in [Threads -> Vectors] /\ index'[t] <= wanted'[t]
           /\ at'[t] \in {"idle", "start"}
           /\ \A s \in Threads \ {t} : /\ at'[s] = at[s] /\ wanted'[s] = wanted[s]
                                       /\ index'[s] = index[s]
  <1>1. 0 \in Vectors
    BY NumVectorsAssumption DEF Vectors
  <1>2. index[t] # wanted[t] => index[t] + 1 \in Vectors /\ index[t] + 1 <= wanted[t]
    BY VectorRange DEF Types, Frames, Vectors
  <1>3. CASE index[t] = wanted[t]
    <2>1. /\ at' = [at EXCEPT ![t] = "idle"] /\ index' = [index EXCEPT ![t] = 0]
          /\ wanted' = [wanted EXCEPT ![t] = 0]
      BY <1>3 DEF Return, Goto
    <2>2. index'[t] = 0 /\ wanted'[t] = 0
      BY <2>1 DEF Types
    <2> QED  BY <1>1, <2>1, <2>2 DEF Types, Places
  <1>4. CASE index[t] # wanted[t]
    BY <1>2, <1>4 DEF Return, Goto, Types, Places
  <1> QED  BY <1>3, <1>4

(* The steps of a thread that is, and stays, outside of the locks. *)
LEMMA StepOutside ==
    ASSUME IInv, NEW t \in Threads,
           Check(t) \/ NeedStart(t) \/ \E v \in Vectors : Call(t, v)
    PROVE  IInv'
  <1> USE DEF IInv
  <1>1. /\ UNCHANGED << shared, unstored, next, fills >>
        /\ at' \in [Threads -> Places] /\ wanted' \in [Threads -> Vectors]
        /\ index' \in [Threads -> Vectors] /\ index'[t] <= wanted'[t]
        /\ at[t] \in {"idle", "check", "start"}
        /\ at'[t] \in {"idle", "check", "start", "lock"}
        /\ at'[t] = "lock" => start[index'[t]] # Unknown
        /\ \A s \in Threads \ {t} : /\ at'[s] = at[s] /\ wanted'[s] = wanted[s]
                                    /\ index'[s] = index[s]
    <2>1. CASE Check(t)
      <3>1. CASE Return(t)
        BY <2>1, <3>1, ReturnMoves DEF Check
      <3>2. CASE Goto(t, "start") /\ UNCHANGED frames
        BY <2>1, <3>2 DEF Check, Goto, frames, Types, Places, Frames
      <3> QED  BY <2>1, <3>1, <3>2 DEF Check
    <2>2. CASE NeedStart(t)
      <3>1. start[index[t]] = Unknown => index[t] - 1 \in Vectors /\ index[t] - 1 <= wanted[t]
        BY VectorRange, BaseAssumption DEF Types, Frames, Growing, Unknown, Vectors
      <3>2. CASE start[index[t]] = Unknown
        BY <2>2, <3>1, <3>2 DEF NeedStart, Goto, Types, Places, Frames
      <3>3. CASE start[index[t]] # Unknown
        BY <2>2, <3>3 DEF NeedStart, Goto, Types, Places, Frames
      <3> QED  BY <3>2, <3>3
    <2>3. CASE \E v \in Vectors : Call(t, v)
      <3>1. PICK v \in Vectors : Call(t, v)
        BY <2>3
      <3>2. v <= v
        BY VectorRange
      <3> QED  BY <3>1, <3>2 DEF Call, Goto, Types, Places
    <2> QED  BY <2>1, <2>2, <2>3
  <1>2. Types' /\ Frames' /\ Growing'
    BY <1>1 DEF Types, Frames, Growing, shared
  <1>3. OneLock'
    BY <1>1 DEF OneLock, shared
  <1>4. Standing'
    <2> SUFFICES ASSUME NEW s \in Threads
                 PROVE  Standing!(s)'
      BY DEF Standing
    <2>1. CASE s = t
      BY <1>1, <2>1 DEF shared
    <2>2. CASE s # t
      BY <1>1, <2>2 DEF Standing, shared
    <2> QED  BY <2>1, <2>2
  <1>5. Settled' /\ Filled'
    BY <1>1 DEF Settled, Filled, Filling, shared
  <1> QED  BY <1>2, <1>3, <1>4, <1>5

(* The thread with the lock of a vector is the only one at it behind the lock. *)
LEMMA Holder ==
    ASSUME Types, OneLock, NEW s \in Threads, NEW t \in Threads, index[s] = index[t],
           at[s] \in {"recheck", "filling", "store", "unlock"},
           at[t] \in {"recheck", "filling", "store", "unlock"}
    PROVE  s = t
  BY DEF Types, OneLock

LEMMA StepLock == ASSUME IInv, NEW t \in Threads, Lock(t) PROVE IInv'
  <1> USE DEF IInv, Lock, Goto
  <1>1. Types' /\ Frames' /\ Growing'
    BY DEF Types, Places, Frames, Growing, frames
  <1>2. OneLock'
    BY ThreadsAssumption DEF OneLock, Types, frames
  <1>3. Standing'
    BY DEF Standing, Types, frames
  <1>4. Settled' /\ Filled'
    <2>1. \A s \in Threads : at'[s] \in {"filling", "store"} <=> at[s] \in {"filling", "store"}
      BY DEF Types
    <2>2. \A s \in Threads : at'[s] = "store" <=> at[s] = "store"
      BY DEF Types
    <2> QED  BY <2>1, <2>2 DEF Settled, Filled, Filling, frames
  <1> QED  BY <1>1, <1>2, <1>3, <1>4

LEMMA StepRecheck == ASSUME IInv, NEW t \in Threads, Recheck(t) PROVE IInv'
  <1> DEFINE v == index[t]
  <1> USE DEF IInv, Recheck, Goto, shared, frames
  <1>0. v \in Vectors /\ at[t] = "recheck"
    BY DEF Types
  <1>1. \A s \in Threads : Filling(s) => index[s] # v
    BY <1>0, Holder DEF Filling
  <1>2. Types'
    <2>1. CASE area[v]
      BY <1>0, <2>1 DEF Types, Places
    <2>2. CASE ~ area[v]
      <3>1. fills[v] + 1 \in Nat
        BY <1>0 DEF Types
      <3> QED  BY <1>0, <2>2, <3>1 DEF Types, Places
    <2> QED  BY <2>1, <2>2
  <1>3. Frames' /\ Growing' /\ OneLock'
    BY DEF Types, Frames, Growing, OneLock
  <1>4. Standing'
    <2>1. ~ area[v] => start[v + 1] = Unknown
      BY <1>0, <1>1 DEF Settled, Filling
    <2> QED  BY <1>0, <2>1 DEF Standing, Types
  <1>5. Settled'
    BY <1>0 DEF Settled, Types
  <1>6. Filled'
    <2>1. CASE area[v]
      <3>1. /\ UNCHANGED << fills, index, area >> /\ ~ Filling(t)
            /\ \A s \in Threads : Filling(s)' <=> Filling(s)
        BY <1>0, <2>1 DEF Filling, Types
      <3> QED  BY <3>1 DEF Filled
    <2>2. CASE ~ area[v]
      <3>3. fills' = [fills EXCEPT ![v] = @ + 1] /\ index' = index /\ area' = area
        BY <1>0, <2>2
      <3>4. fills[v] = 0
        BY <1>0, <1>1, <2>2 DEF Filled
      <3>1. /\ fills[v] = 0 /\ fills' = [fills EXCEPT ![v] = @ + 1]
            /\ Filling(t)' /\ index' = index /\ area' = area
            /\ \A s \in Threads \ {t} : Filling(s)' <=> Filling(s)
        BY <1>0, <2>2, <3>3, <3>4 DEF Filling, Types
      <3>2. ~ Filling(t)
        BY <1>0 DEF Filling
      <3> QED  BY <1>0, <2>2, <3>1, <3>2 DEF Filled, Types
    <2> QED  BY <2>1, <2>2
  <1> QED  BY <1>2, <1>3, <1>4, <1>5, <1>6

LEMMA StepFillEnds ==
    ASSUME IInv, NEW t \in Threads, NEW size \in {0, 1}, FillEnds(t, size)
    PROVE  IInv'
  <1> DEFINE v == index[t]
  <1> USE DEF IInv, FillEnds, Goto, shared, frames
  <1>0. v \in Vectors /\ at[t] = "filling" /\ start[v] \in Nat
    BY VectorRange DEF Types
  <1>1. Types'
    <2>1. start[v] + size \in Nat /\ {"area", "start"} \in SUBSET {"area", "start"}
      BY <1>0
    <2> QED  BY <1>0, <2>1 DEF Types, Places
  <1>2. Frames' /\ Growing' /\ OneLock'
    BY DEF Types, Frames, Growing, OneLock
  <1>3. Standing'
    <2>1. next'[t] >= start[v] /\ unstored'[t] = {"area", "start"}
      BY <1>0 DEF Types
    <2> QED  BY <1>0, <2>1 DEF Standing, Types
  <1>4. Settled' /\ Filled'
    <2>1. \A s \in Threads : /\ at'[s] \in {"filling", "store"} <=> at[s] \in {"filling", "store"}
                           /\ at[s] = "store" => at'[s] = "store"
      BY DEF Types
    <2> QED  BY <2>1 DEF Settled, Filled, Filling
  <1> QED  BY <1>1, <1>2, <1>3, <1>4

(* Between its stores a thread has the lock, so no other is there with it. *)
LEMMA AloneAtVector ==
    ASSUME IInv, NEW t \in Threads, at[t] \in {"store", "unlock"}
    PROVE  \A s \in Threads \ {t} : Filling(s) => index[s] # index[t]
  BY Holder DEF IInv, Filling

LEMMA StepStoreArea == ASSUME IInv, NEW t \in Threads, StoreArea(t) PROVE IInv'
  <1> DEFINE v == index[t]
  <1> USE DEF IInv, StoreArea, frames
  <1>0. v \in Vectors /\ at[t] = "store" /\ ~ area[v]
    BY DEF Types, Standing
  <1>1. \A s \in Threads \ {t} : Filling(s) => index[s] # v
    BY <1>0, AloneAtVector
  <1>2. Types' /\ Frames' /\ Growing' /\ OneLock'
    BY DEF Types, Frames, Growing, OneLock
  <1>3. Standing'
    <2>1. area'[v] /\ "area" \notin unstored'[t]
      BY <1>0 DEF Types
    <2> QED  BY <1>0, <1>1, <2>1 DEF Standing, Filling, Types
  <1>4. Settled'
    BY <1>0 DEF Settled, Standing, Types
  <1>5. Filled'
    <2>1. Filling(t) /\ \A s \in Threads : Filling(s)' <=> Filling(s)
      BY <1>0 DEF Filling
    <2> QED  BY <1>0, <2>1 DEF Filled, Types
  <1> QED  BY <1>2, <1>3, <1>4, <1>5

LEMMA StepStoreStart == ASSUME IInv, NEW t \in Threads, StoreStart(t) PROVE IInv'
  <1> DEFINE v == index[t]
  <1> USE DEF IInv, StoreStart, frames
  <1>0. v \in Vectors /\ at[t] = "store" /\ start[v + 1] = Unknown /\ start[v] # Unknown
        /\ next[t] \in Nat /\ next[t] >= start[v]
    BY DEF Types, Standing
  <1>1. \A s \in Threads \ {t} : Filling(s) => index[s] # v
    BY <1>0, AloneAtVector
  <1>2. v \in Nat /\ v \in 0 .. NumVectors /\ v + 1 \in 0 .. NumVectors
    BY <1>0, VectorRange
  <1>3. /\ start'[v + 1] = next[t]
        /\ \A u \in 0 .. NumVectors : u # v + 1 => start'[u] = start[u]
    BY <1>2 DEF Types
  <1>4. start[v] >= Base /\ next[t] >= Base /\ next[t] # Unknown
    BY <1>0, <1>2, BaseAssumption DEF Growing, Unknown, Types
  <1>5. Types' /\ Frames' /\ OneLock'
    <2>1. start' \in [0 .. NumVectors -> Nat]
      BY <1>0, <1>2 DEF Types
    <2>2. unstored' \in [Threads -> SUBSET {"area", "start"}]
      BY DEF Types
    <2>3. UNCHANGED << area, lock, at, wanted, index, next, fills >>
      OBVIOUS
    <2> QED  BY <2>1, <2>2, <2>3 DEF Types, Frames, OneLock
  <1>6. Growing'
    <2>1. start'[0] = Base
      BY <1>0, <1>2, <1>3, BaseAssumption DEF Growing, Unknown
    <2>2. ASSUME NEW u \in 0 .. NumVectors, NEW w \in 0 .. NumVectors, u <= w, start'[w] # Unknown
          PROVE  start'[u] \in Base .. start'[w]
      <3>1. CASE w = v + 1
        BY <1>0, <1>2, <1>3, <1>4, <2>2, <3>1, BaseAssumption DEF Growing, Types
      <3>2. CASE w # v + 1
        <4>1. u # v + 1
          BY <1>0, <1>2, <1>3, <2>2, <3>2, BaseAssumption DEF Growing, Unknown
        <4> QED  BY <1>3, <2>2, <3>2, <4>1 DEF Growing
      <3> QED  BY <3>1, <3>2
    <2> QED  BY <2>1, <2>2 DEF Growing
  <1>7. Standing'
    <2>1. "start" \notin unstored'[t] /\ start'[v] = start[v]
          /\ ("area" \in unstored'[t] <=> "area" \in unstored[t])
      BY <1>0, <1>2, <1>3 DEF Types
    <2>2. ASSUME NEW s \in Threads \ {t} PROVE Standing!(s)'
      <3>1. index[s] \in Vectors /\ index[s] \in 0 .. NumVectors /\ index[s] + 1 \in 0 .. NumVectors
        BY VectorRange DEF Types
      <3>2. start[index[s]] # Unknown => index[s] # v + 1 /\ start'[index[s]] = start[index[s]]
        BY <1>0, <1>3, <3>1
      <3>3. index[s] # v => start'[index[s] + 1] = start[index[s] + 1]
        BY <1>2, <1>3, <3>1
      <3>4. unstored'[s] = unstored[s]
        BY DEF Types
      <3> QED  BY <1>1, <3>2, <3>3, <3>4 DEF Standing, Filling
    <2>3. Standing!(t)'
      BY <1>0, <1>3, <1>4, <2>1 DEF Standing
    <2> QED  BY <2>2, <2>3 DEF Standing
  <1>8. Settled'
    <2> SUFFICES ASSUME NEW u \in Vectors PROVE Settled!(u)'
      BY DEF Settled
    <2>1. u \in 0 .. NumVectors /\ u + 1 \in 0 .. NumVectors /\ u \in Nat
      BY VectorRange
    <2>2. area[u] => start'[u] # Unknown
      BY <1>3, <1>4, <2>1 DEF Settled
    <2>3. u # v => start'[u + 1] = start[u + 1]
      BY <1>2, <1>3, <2>1
    <2> QED  BY <1>0, <2>2, <2>3 DEF Settled
  <1>9. Filled'
    BY DEF Filled, Filling
  <1> QED  BY <1>5, <1>6, <1>7, <1>8, <1>9

LEMMA StepUnlock == ASSUME IInv, NEW t \in Threads, Unlock(t) PROVE IInv'
  <1> DEFINE v == index[t]
  <1> USE DEF IInv, Unlock, shared
  <1>0. v \in Vectors /\ at[t] \in {"store", "unlock"} /\ area[v]
    BY DEF Types, Standing
  <1>1. \A s \in Threads \ {t} : Filling(s) => index[s] # v
    BY <1>0, AloneAtVector
  <1>2. /\ at' \in [Threads -> Places] /\ wanted' \in [Threads -> Vectors]
        /\ index' \in [Threads -> Vectors] /\ index'[t] <= wanted'[t]
        /\ at'[t] \in {"idle", "start"}
        /\ \A s \in Threads \ {t} : /\ at'[s] = at[s] /\ wanted'[s] = wanted[s]
                                    /\ index'[s] = index[s]
    BY ReturnMoves
  <1>3. Types'
    BY <1>0, <1>2 DEF Types, Unknown
  <1>4. Frames' /\ Growing'
    BY <1>2 DEF Frames, Growing
  <1>5. OneLock'
    BY <1>0, <1>2, ThreadsAssumption DEF OneLock, Types
  <1>6. Standing'
    <2> SUFFICES ASSUME NEW s \in Threads PROVE Standing!(s)'
      BY DEF Standing
    <2>1. CASE s = t
      BY <1>2, <2>1
    <2>2. CASE s # t
      BY <1>2, <2>2 DEF Standing, Types
    <2> QED  BY <2>1, <2>2
  <1>7. start[v + 1] # Unknown
    BY <1>0, <1>1 DEF Settled, Standing, Filling
  <1>8. \A s \in Threads \ {t} : Filling(s)' <=> Filling(s)
    BY <1>2 DEF Filling
  <1>9. Settled'
    BY <1>0, <1>2, <1>7 DEF Settled
  <1>10. Filled'
    <2>1. ~ Filling(t)'
      BY <1>2 DEF Filling
    <2> QED  BY <1>0, <1>2, <1>8, <2>1 DEF Filled
  <1> QED  BY <1>3, <1>4, <1>5, <1>6, <1>9, <1>10

LEMMA StepInv == IInv /\ [Next]_vars => IInv'
  <1>1. ASSUME IInv, UNCHANGED vars PROVE IInv'
    BY <1>1 DEF vars, shared, frames, IInv, Types, Frames, OneLock, Growing, Standing,
                Settled, Filled, Filling
  <1>2. ASSUME IInv, NEW t \in Threads, Get(t) PROVE IInv'
    BY <1>2, StepOutside, StepLock, StepRecheck, StepFillEnds, StepStoreArea,
       StepStoreStart, StepUnlock DEF Get
  <1>3. ASSUME IInv, NEW t \in Threads, NEW v \in Vectors, Call(t, v) PROVE IInv'
    BY <1>3, StepOutside
  <1> QED  BY <1>1, <1>2, <1>3 DEF Next

LEMMA SpecInv == Spec => []IInv
  BY InitInv, StepInv, PTL DEF Spec

(* A set whose elements are all the same has at most one. *)
LEMMA AtMostOne ==
    ASSUME NEW S, \A x, y \in S : x = y
    PROVE  Cardinality(S) <= 1
  <1>1. CASE S = {}
    BY <1>1, FS_EmptySet
  <1>2. CASE S # {}
    <2>1. PICK x \in S : TRUE
      BY <1>2
    <2>2. S = {x}
      BY <2>1
    <2> QED  BY <2>2, FS_Singleton
  <1> QED  BY <1>1, <1>2

(* One filler reads at a time, no vector is read twice, none before those
   ahead of it: a filler is at the first vector after which no start is known,
   and there is one such. *)
THEOREM Sequence == Spec => []ReadInSequence
  <1>1. IInv => ReadInSequence
    <2> SUFFICES ASSUME IInv PROVE ReadInSequence
      OBVIOUS
    <2> USE DEF IInv
    <2>1. \A v \in Vectors : fills[v] <= 1
      BY DEF Filled
    <2>2. ASSUME NEW v \in Vectors, NEW u \in Vectors, u < v, fills[v] > 0
          PROVE  fills[u] = 1
      <3>1. start[v] # Unknown
        BY <2>2 DEF Filled, Filling, Settled, Standing
      <3>2. u + 1 \in 0 .. NumVectors /\ v \in 0 .. NumVectors /\ u + 1 <= v
        BY <2>2, NumVectorsAssumption DEF Vectors
      <3>3. start[u + 1] # Unknown
        BY <3>1, <3>2, BaseAssumption DEF Growing, Unknown
      <3> QED  BY <3>3 DEF Settled, Filled, Filling
    <2>3. ASSUME NEW s \in Threads, NEW t \in Threads, at[s] = "filling", at[t] = "filling"
          PROVE  ~ index[s] < index[t]
      <3> SUFFICES ASSUME index[s] < index[t] PROVE FALSE
        OBVIOUS
      <3>0. index[s] \in Vectors /\ index[t] \in Vectors
        BY DEF Types
      <3>1. index[s] + 1 \in 0 .. NumVectors /\ index[t] \in 0 .. NumVectors
            /\ index[s] + 1 <= index[t]
        BY <3>0, NumVectorsAssumption DEF Vectors
      <3>2. start[index[s] + 1] = Unknown /\ start[index[t]] # Unknown
        BY <2>3 DEF Standing
      <3> QED  BY <3>1, <3>2, BaseAssumption DEF Growing, Unknown
    <2>4. ASSUME NEW s \in Threads, NEW t \in Threads, at[s] = "filling", at[t] = "filling"
          PROVE  s = t
      <3>1. index[s] \in Vectors /\ index[t] \in Vectors
        BY DEF Types
      <3>2. index[s] = index[t]
        BY <2>3, <2>4, <3>1, NumVectorsAssumption DEF Vectors
      <3> QED  BY <2>4, <3>2, Holder
    <2>5. Cardinality({t \in Threads : at[t] = "filling"}) <= 1
      BY <2>4, AtMostOne
    <2> QED  BY <2>1, <2>2, <2>5 DEF ReadInSequence
  <1> QED  BY <1>1, SpecInv, PTL

(* A start that can be seen is where the vector ahead ended, and is known when
   the lock of that vector is free and the vector there. *)
THEOREM Final == Spec => []StartFinal
  <1>1. IInv => StartFinal
    <2> SUFFICES ASSUME IInv, NEW v \in Vectors PROVE StartFinal!(v)
      BY DEF StartFinal
    <2> USE DEF IInv
    <2>1. v \in 0 .. NumVectors /\ v + 1 \in 0 .. NumVectors /\ v <= v + 1
      BY VectorRange
    <2>2. start[v + 1] # Unknown => start[v] \in Base .. start[v + 1]
      BY <2>1 DEF Growing
    <2>3. lock[v] = Nobody => \A t \in Threads : ~ (at[t] = "store" /\ index[t] = v)
      BY ThreadsAssumption DEF OneLock
    <2> QED  BY <2>2, <2>3 DEF Settled
  <1> QED  BY <1>1, SpecInv, PTL

(* A thread has no lock but that of its innermost call. *)
THEOREM Locks == Spec => []OneLock
  BY SpecInv, PTL DEF IInv

(* What can be read without a lock is never changed: the stores are to what is
   not yet known. *)
THEOREM VisibleStays == Spec => Immutable
  <1>1. IInv /\ [Next]_vars => [\A v \in Vectors :
                                   /\ area[v] => area'[v]
                                   /\ start[v] # Unknown => start'[v] = start[v]]_vars
    <2> SUFFICES ASSUME IInv, [Next]_vars, NEW v \in Vectors
                 PROVE  /\ area[v] => area'[v]
                        /\ start[v] # Unknown => start'[v] = start[v]
      OBVIOUS
    <2> USE DEF IInv
    <2>1. CASE UNCHANGED << start, area >>
      BY <2>1
    <2>2. CASE \E t \in Threads : StoreArea(t)
      BY <2>2 DEF StoreArea, Types
    <2>3. CASE \E t \in Threads : StoreStart(t)
      <3>1. PICK t \in Threads : StoreStart(t)
        BY <2>3
      <3>2. start[index[t] + 1] = Unknown
        BY <3>1 DEF StoreStart, Standing
      <3>3. v \in 0 .. NumVectors
        BY VectorRange
      <3> QED  BY <3>1, <3>2, <3>3 DEF StoreStart, Types
    <2> QED
      BY <2>1, <2>2, <2>3 DEF Next, Get, Call, Check, NeedStart, Lock, Recheck, FillEnds, Unlock,
                              vars, shared
  <1> QED  BY <1>1, SpecInv, PTL DEF Spec, Immutable

(* The cache is one that computes each vector when first asked for it and
   answers with what is computed: the store of a vector computes it, a return
   from the outermost call answers, everything else cannot be seen. *)
THEOREM Refinement == Spec => ImplementsOnce
  <1> DEFINE Computed == {v \in Vectors : area[v]}
             Asking == [t \in Threads |-> IF at[t] = "idle" THEN {} ELSE {wanted[t]}]
  <1>1. Init => Once!Init
    BY DEF Init, Once!Init
  <1>2. IInv /\ IInv' /\ [Next]_vars => [Once!Next]_(Once!vars)
    <2> SUFFICES ASSUME IInv, IInv', [Next]_vars
                 PROVE  Once!Next \/ UNCHANGED << Computed, Asking >>
      BY DEF Once!vars
    <2> USE DEF IInv
    <2>1. CASE UNCHANGED vars
      BY <2>1 DEF vars, shared, frames
    <2>2. ASSUME NEW t \in Threads, NEW v \in Vectors, Call(t, v)
          PROVE  Once!Ask(t, v)
      <3>1. Asking[t] = {} /\ Computed' = Computed
        BY <2>2 DEF Call, shared
      <3>2. Asking' = [Asking EXCEPT ![t] = {v}]
        BY <2>2 DEF Call, Goto, Types
      <3> QED  BY <3>1, <3>2 DEF Once!Ask
    <2>3. ASSUME NEW t \in Threads, Return(t), UNCHANGED area, at[t] # "idle", area[index[t]]
          PROVE  Once!Answer(t) \/ UNCHANGED << Computed, Asking >>
      <3>1. CASE index[t] = wanted[t]
        <4>1. Asking[t] = {wanted[t]} /\ {wanted[t]} \subseteq Computed /\ Computed' = Computed
          BY <2>3, <3>1 DEF Types
        <4>2. Asking' = [Asking EXCEPT ![t] = {}]
          BY <2>3, <3>1 DEF Return, Goto, Types
        <4> QED  BY <4>1, <4>2 DEF Once!Answer
      <3>2. CASE index[t] # wanted[t]
        <4>1. wanted' = wanted /\ \A s \in Threads : at'[s] = "idle" <=> at[s] = "idle"
          BY <2>3, <3>2 DEF Return, Goto, Types
        <4> QED  BY <2>3, <4>1
      <3> QED  BY <3>1, <3>2
    <2>4. ASSUME NEW t \in Threads, Check(t)
          PROVE  Once!Answer(t) \/ UNCHANGED << Computed, Asking >>
      <3>1. CASE area[index[t]]
        BY <2>3, <2>4, <3>1 DEF Check, shared
      <3>2. CASE ~ area[index[t]]
        <4>1. \A s \in Threads : at'[s] = "idle" <=> at[s] = "idle"
          BY <2>4, <3>2 DEF Check, Goto, Types
        <4> QED  BY <2>4, <3>2, <4>1 DEF Check, shared, frames
      <3> QED  BY <3>1, <3>2
    <2>5. ASSUME NEW t \in Threads, Unlock(t)
          PROVE  Once!Answer(t) \/ UNCHANGED << Computed, Asking >>
      <3>1. area[index[t]] /\ at[t] # "idle"
        BY <2>5 DEF Unlock, Standing
      <3> QED  BY <2>3, <2>5, <3>1 DEF Unlock
    <2>6. ASSUME NEW t \in Threads, NEW v \in Vectors, v = index[t], StoreArea(t)
          PROVE  Once!Compute(v)
      <3>1. v \notin Computed /\ Computed' = Computed \cup {v}
        BY <2>6 DEF StoreArea, Standing, Types
      <3>2. Asking' = Asking
        BY <2>6 DEF StoreArea, frames
      <3> QED  BY <3>1, <3>2 DEF Once!Compute
    <2>7. ASSUME NEW t \in Threads, NeedStart(t) \/ Lock(t) \/ Recheck(t)
                                 \/ StoreStart(t) \/ \E size \in {0, 1} : FillEnds(t, size)
          PROVE  UNCHANGED << Computed, Asking >>
      <3>1. /\ area' = area /\ wanted' = wanted
            /\ \A s \in Threads : at'[s] = "idle" <=> at[s] = "idle"
        <4>1. at \in [Threads -> Places] /\ at[t] # "idle"
          BY <2>7 DEF NeedStart, Lock, Recheck, StoreStart, FillEnds, Types
        <4>2. /\ area' = area /\ wanted' = wanted
              /\ at' = at \/ \E place \in Places \ {"idle"} : at' = [at EXCEPT ![t] = place]
          BY <2>7 DEF NeedStart, Lock, Recheck, StoreStart, FillEnds, Goto, shared, frames, Places
        <4> QED  BY <4>1, <4>2
      <3> QED  BY <3>1
    <2>8. ASSUME NEW t \in Threads, Get(t)
          PROVE  Once!Next \/ UNCHANGED << Computed, Asking >>
      <3>1. CASE Check(t) \/ Unlock(t)
        BY <2>4, <2>5, <3>1 DEF Once!Next
      <3>2. CASE StoreArea(t)
        <4>1. PICK v \in Vectors : v = index[t]
          BY DEF Types
        <4> QED  BY <2>6, <3>2, <4>1 DEF Once!Next
      <3> QED  BY <2>7, <2>8, <3>1, <3>2 DEF Get
    <2>9. ASSUME NEW t \in Threads, NEW v \in Vectors, Call(t, v)
          PROVE  Once!Next
      BY <2>2, <2>9 DEF Once!Next
    <2> QED
      BY <2>1, <2>8, <2>9 DEF Next
  <1> QED  BY <1>1, <1>2, SpecInv, PTL DEF Spec, ImplementsOnce, Once!Spec
=============================================================================
