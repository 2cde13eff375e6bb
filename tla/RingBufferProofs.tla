-------------------------- MODULE RingBufferProofs --------------------------
(***************************************************************************)
(* The properties of RingBuffer for every capacity, every set of values    *)
(* and every number of threads.                                            *)
(***************************************************************************)
EXTENDS RingBuffer, TLAPS

(* The index arithmetic of the ring never needs more than one wrap. *)
LEMMA Wrap ==
    ASSUME NEW n \in Nat, n < 2 * Capacity
    PROVE  n % Capacity = IF n < Capacity THEN n ELSE n - Capacity
  BY CapacityAssumption

LEMMA NextSlot ==
    ASSUME NEW i \in Slots
    PROVE  /\ (i + 1) % Capacity = IF i = Capacity - 1 THEN 0 ELSE i + 1
           /\ (i + 1) % Capacity \in Slots
  BY Wrap, CapacityAssumption DEF Slots

-----------------------------------------------------------------------------
(* Types, flags and sleepers together are inductive: the flags say which
   conditions can hold, and the sleepers follow the flags. *)
IInv == TypeOK /\ FlagsConsistent /\ NoLostWakeup

LEMMA InitIInv == Init => IInv
  <1> SUFFICES ASSUME Init PROVE IInv
    OBVIOUS
  <1>1. 0 \in Slots
    BY CapacityAssumption DEF Slots
  <1>2. TypeOK
    BY <1>1 DEF Init, TypeOK
  <1>3. FlagsConsistent /\ NoLostWakeup
    BY DEF Init, FlagsConsistent, NoLostWakeup
  <1> QED  BY <1>2, <1>3 DEF IInv

LEMMA StepIInv == IInv /\ [Next]_vars => IInv'
  <1> SUFFICES ASSUME IInv, [Next]_vars PROVE IInv'
    OBVIOUS
  <1> USE DEF IInv, TypeOK, FlagsConsistent, NoLostWakeup
  <1>1. ASSUME NEW p \in Producers, NEW v \in Values, CallPut(p, v)
        PROVE  IInv'
    BY <1>1, NoValueAssumption DEF CallPut
  <1>2. ASSUME NEW p \in Producers, PutWait(p)
        PROVE  IInv'
    BY <1>2 DEF PutWait
  <1>3. ASSUME NEW p \in Producers, PutStore(p)
        PROVE  IInv'
    <2>1. put' \in Slots
      BY <1>3, NextSlot DEF PutStore
    <2>2. pending[p] \in Values
      BY <1>3 DEF PutStore
    <2>3. TypeOK'
      BY <1>3, <2>1, <2>2 DEF PutStore
    <2>4. FlagsConsistent'
      BY <1>3 DEF PutStore
    <2>5. NoLostWakeup'
      BY <1>3 DEF PutStore
    <2> QED  BY <2>3, <2>4, <2>5
  <1>4. ASSUME NEW c \in Consumers, TakeWait(c)
        PROVE  IInv'
    BY <1>4 DEF TakeWait
  <1>5. ASSUME Remove
        PROVE  IInv'
    <2>1. get' \in Slots
      BY <1>5, NextSlot DEF Remove
    <2> QED  BY <1>5, <2>1 DEF Remove
  <1>6. ASSUME Spurious
        PROVE  IInv'
    BY <1>6 DEF Spurious, SpuriousWake
  <1>7. ASSUME UNCHANGED vars
        PROVE  IInv'
    BY <1>7 DEF vars
  <1> QED
    BY <1>1, <1>2, <1>3, <1>4, <1>5, <1>6, <1>7
       DEF Next, RingPut, RingTake, TakeValue, Poll

(* The inductive invariant holds in every reachable state of a ring. *)
THEOREM Invariance == Spec => []IInv
  BY InitIInv, StepIInv, PTL DEF Spec

(* Every variable keeps its type; in particular the indices stay inside the
   slots. *)
THEOREM TypeCorrect == Spec => []TypeOK
  BY Invariance, PTL DEF IInv

(* The two flags always tell the full ring from the empty one. *)
THEOREM FlagsCorrect == Spec => []FlagsConsistent
  BY Invariance, PTL DEF IInv

(* No wakeup is lost, for any number of producers and consumers and in spite
   of spurious wakeups. *)
THEOREM WakeupsCorrect == Spec => []NoLostWakeup
  BY Invariance, PTL DEF IInv

-----------------------------------------------------------------------------
(* The contents of a ring in a state of the invariant. *)
LEMMA CountType ==
    ASSUME TypeOK, FlagsConsistent
    PROVE  /\ Count \in 0 .. Capacity
           /\ Count = 0 <=> isempty
           /\ Count = Capacity <=> isfull
  BY CapacityAssumption DEF TypeOK, FlagsConsistent, Count, Slots

LEMMA SlotOfType ==
    ASSUME TypeOK, FlagsConsistent, NEW k \in 1 .. Capacity
    PROVE  /\ SlotOf(k) \in Slots
           /\ SlotOf(k) = IF get + k - 1 < Capacity THEN get + k - 1
                          ELSE get + k - 1 - Capacity
  <1>1. get + k - 1 \in Nat /\ get + k - 1 < 2 * Capacity
    BY CapacityAssumption DEF TypeOK, Slots
  <1>2. SlotOf(k) = IF get + k - 1 < Capacity THEN get + k - 1
                    ELSE get + k - 1 - Capacity
    <2> DEFINE n == get + k - 1
    <2>1. n \in Nat /\ n < 2 * Capacity
      BY <1>1
    <2> HIDE DEF n
    <2>2. n % Capacity = IF n < Capacity THEN n ELSE n - Capacity
      BY <2>1, Wrap
    <2>3. SlotOf(k) = n % Capacity
      BY DEF SlotOf, n
    <2> QED  BY <2>2, <2>3, CapacityAssumption DEF n, TypeOK, Slots
  <1> QED
    BY <1>1, <1>2, CapacityAssumption DEF TypeOK, Slots

LEMMA ContentsType ==
    ASSUME TypeOK, FlagsConsistent
    PROVE  Contents \in Seq(Values) /\ Len(Contents) = Count
  <1>1. Count \in Nat /\ Count <= Capacity
    BY CountType, CapacityAssumption
  <1>2. Contents \in [1 .. Count -> Values]
    <2>1. ASSUME NEW k \in 1 .. Count PROVE buffer[SlotOf(k)] \in Values
      <3>1. k \in 1 .. Capacity
        BY <1>1, CapacityAssumption
      <3> QED  BY <3>1, SlotOfType DEF TypeOK
    <2> QED  BY <2>1 DEF Contents
  <1> QED  BY <1>1, <1>2

(* The free slot put is the one after the contents. *)
LEMMA PutIsNext ==
    ASSUME TypeOK, FlagsConsistent, ~ isfull
    PROVE  /\ Count + 1 \in 1 .. Capacity
           /\ SlotOf(Count + 1) = put
           /\ \A k \in 1 .. Count : SlotOf(k) # put
  <1>1. Count \in 0 .. Capacity - 1
    BY CountType, CapacityAssumption
  <1>2. Count = IF get <= put THEN put - get ELSE put + Capacity - get
    BY DEF Count
  <1>3. Count + 1 \in 1 .. Capacity
    BY <1>1, CapacityAssumption
  <1>4. SlotOf(Count + 1) = put
    BY <1>1, <1>2, <1>3, SlotOfType, CapacityAssumption DEF TypeOK, Slots
  <1>5. ASSUME NEW k \in 1 .. Count PROVE SlotOf(k) # put
    <2>1. k \in 1 .. Capacity
      BY <1>1, CapacityAssumption
    <2> QED
      BY <2>1, <1>1, <1>2, SlotOfType, CapacityAssumption DEF TypeOK, Slots
  <1> QED  BY <1>3, <1>4, <1>5

-----------------------------------------------------------------------------
(* The same of the next state. *)
LEMMA NextContentsType ==
    (TypeOK /\ FlagsConsistent => Contents \in Seq(Values) /\ Len(Contents) = Count)'
  <1>1. TypeOK /\ FlagsConsistent => Contents \in Seq(Values) /\ Len(Contents) = Count
    BY ContentsType
  <1> QED  BY <1>1, PTL

LEMMA NextSlotOfType ==
    (TypeOK /\ FlagsConsistent =>
        \A k \in 1 .. Capacity :
            SlotOf(k) = IF get + k - 1 < Capacity THEN get + k - 1
                        ELSE get + k - 1 - Capacity)'
  <1>1. TypeOK /\ FlagsConsistent =>
            \A k \in 1 .. Capacity :
                SlotOf(k) = IF get + k - 1 < Capacity THEN get + k - 1
                            ELSE get + k - 1 - Capacity
    BY SlotOfType
  <1> QED  BY <1>1, PTL

(* ring_put appends its value to the contents. *)
LEMMA PutAppends ==
    ASSUME TypeOK, FlagsConsistent, TypeOK', FlagsConsistent',
           NEW p \in Producers, PutStore(p)
    PROVE  Fifo!Enqueue(pending[p]) /\ pending[p] \in Values
  <1>1. pending[p] \in Values
    BY DEF PutStore, TypeOK
  <1>2. Count \in 0 .. Capacity - 1
    BY CountType, CapacityAssumption DEF PutStore
  <1>3. Count' = Count + 1
    <2>1. put' = IF put = Capacity - 1 THEN 0 ELSE put + 1
      BY NextSlot DEF PutStore, TypeOK
    <2>2. get' = get /\ ~ isfull /\ isfull' = (put' = get)
      BY DEF PutStore
    <2>3. Count = IF get <= put THEN put - get ELSE put + Capacity - get
      BY <2>2 DEF Count
    <2>4. Count' = IF put' = get THEN Capacity
                   ELSE IF get <= put' THEN put' - get ELSE put' + Capacity - get
      BY <2>2 DEF Count
    <2> QED
      BY <2>1, <2>3, <2>4, CapacityAssumption DEF TypeOK, Slots
  <1>4. \A k \in 1 .. Capacity : SlotOf(k)' = SlotOf(k)
    BY DEF PutStore, SlotOf
  <1>5. ASSUME NEW k \in 1 .. Count
        PROVE  Contents'[k] = Contents[k]
    <2>1. k \in 1 .. Capacity /\ k \in 1 .. Count'
      BY <1>2, <1>3, CapacityAssumption
    <2>2. SlotOf(k) \in Slots /\ SlotOf(k) # put
      BY <2>1, SlotOfType, PutIsNext DEF PutStore
    <2>3. buffer'[SlotOf(k)] = buffer[SlotOf(k)]
      BY <2>2 DEF PutStore, TypeOK
    <2> QED  BY <2>1, <2>3, <1>4 DEF Contents
  <1>6. Contents'[Count + 1] = pending[p]
    <2>1. SlotOf(Count + 1) = put /\ Count + 1 \in 1 .. Capacity
      BY PutIsNext DEF PutStore
    <2>3. buffer'[put] = pending[p]
      BY DEF PutStore, TypeOK
    <2>4. Contents' = [k \in 1 .. Count + 1 |-> buffer'[SlotOf(k)']]
      BY <1>3 DEF Contents
    <2>5. Contents'[Count + 1] = buffer'[SlotOf(Count + 1)]
      BY <2>4, <2>1, <1>4, <1>2
    <2> QED  BY <2>5, <2>1, <2>3
  <1>7. Contents' = Append(Contents, pending[p])
    <2>1. Contents \in Seq(Values) /\ Len(Contents) = Count
      BY ContentsType
    <2>2. Contents' \in Seq(Values) /\ Len(Contents') = Count + 1
      BY NextContentsType, <1>3
    <2>3. Append(Contents, pending[p]) \in Seq(Values)
          /\ Len(Append(Contents, pending[p])) = Count + 1
      BY <2>1, <1>1
    <2>4. ASSUME NEW k \in 1 .. Count + 1
          PROVE  Contents'[k] = Append(Contents, pending[p])[k]
      BY <2>1, <1>1, <1>2, <1>5, <1>6
    <2> QED  BY <2>2, <2>3, <2>4
  <1> QED
    BY <1>1, <1>2, <1>7, ContentsType, CapacityAssumption DEF Fifo!Enqueue

(* Either kind of take removes the oldest value of the contents. *)
LEMMA RemoveDequeues ==
    ASSUME TypeOK, FlagsConsistent, TypeOK', FlagsConsistent', Remove
    PROVE  Fifo!Dequeue
  <1>1. Count \in 1 .. Capacity
    BY CountType, CapacityAssumption DEF Remove
  <1>2. get' = IF get = Capacity - 1 THEN 0 ELSE get + 1
    BY NextSlot DEF Remove, TypeOK
  <1>3. Count' = Count - 1
    BY <1>2, CapacityAssumption DEF Remove, TypeOK, FlagsConsistent, Count, Slots
  <1>4. ASSUME NEW k \in 1 .. Count - 1
        PROVE  SlotOf(k)' = SlotOf(k + 1)
    <2>1. k \in 1 .. Capacity /\ k + 1 \in 1 .. Capacity
      BY <1>1, CapacityAssumption
    <2>2. SlotOf(k + 1) = IF get + k < Capacity THEN get + k ELSE get + k - Capacity
      <3>1. PICK j \in 1 .. Capacity : j = k + 1
        BY <2>1
      <3>2. SlotOf(j) = IF get + j - 1 < Capacity THEN get + j - 1
                        ELSE get + j - 1 - Capacity
        BY SlotOfType
      <3>3. get + j - 1 = get + k
        BY <3>1 DEF TypeOK, Slots
      <3> QED  BY <3>1, <3>2, <3>3
    <2>3. SlotOf(k)' = IF get' + k - 1 < Capacity THEN get' + k - 1
                       ELSE get' + k - 1 - Capacity
      BY <2>1, NextSlotOfType
    <2> QED
      BY <2>1, <2>2, <2>3, <1>2, CapacityAssumption DEF TypeOK, Slots
  <1>5. Contents' = Tail(Contents)
    <2>1. Contents \in Seq(Values) /\ Len(Contents) = Count
      BY ContentsType
    <2>2. Contents' \in Seq(Values) /\ Len(Contents') = Count - 1
      BY NextContentsType, <1>3
    <2>3. Tail(Contents) \in Seq(Values) /\ Len(Tail(Contents)) = Count - 1
      BY <2>1, <1>1
    <2>4. ASSUME NEW k \in 1 .. Count - 1
          PROVE  Contents'[k] = Tail(Contents)[k]
      <3>1. Tail(Contents)[k] = Contents[k + 1]
        BY <2>1, <1>1
      <3>2. Contents[k + 1] = buffer[SlotOf(k + 1)]
        BY <1>1 DEF Contents
      <3>3. Contents'[k] = buffer'[SlotOf(k)']
        BY <1>3 DEF Contents
      <3> QED  BY <3>1, <3>2, <3>3, <1>4 DEF Remove
    <2> QED  BY <2>2, <2>3, <2>4
  <1> QED
    BY <1>1, <1>5, ContentsType DEF Fifo!Dequeue

(* The ring is a bounded fifo, for every capacity: no value is lost,
   duplicated or overtaken, whatever the index positions and however often
   they wrap. *)
THEOREM FifoImplemented == Spec => ImplementsFifo
  <1>1. Init => Fifo!Init
    <2> SUFFICES ASSUME Init PROVE Contents = << >>
      BY DEF Fifo!Init
    <2>1. Count = 0
      BY DEF Init, Count
    <2> QED  BY <2>1 DEF Contents
  <1>2. IInv /\ IInv' /\ [Next]_vars => [Fifo!Next]_Contents
    <2> SUFFICES ASSUME IInv, IInv', [Next]_vars
                 PROVE  Fifo!Next \/ UNCHANGED Contents
      OBVIOUS
    <2> USE DEF IInv
    <2>1. ASSUME NEW p \in Producers, PutStore(p)
          PROVE  Fifo!Next
      BY <2>1, PutAppends DEF Fifo!Next
    <2>2. CASE Remove
      BY <2>2, RemoveDequeues DEF Fifo!Next
    <2>3. ASSUME UNCHANGED << put, get, isfull, buffer >>
          PROVE  UNCHANGED Contents
      BY <2>3 DEF Contents, Count, SlotOf
    <2>4. ASSUME NEW p \in Producers, NEW v \in Values, CallPut(p, v)
          PROVE  UNCHANGED Contents
      BY <2>3, <2>4 DEF CallPut
    <2>5. ASSUME NEW p \in Producers, PutWait(p)
          PROVE  UNCHANGED Contents
      BY <2>3, <2>5 DEF PutWait
    <2>6. ASSUME NEW c \in Consumers, TakeWait(c)
          PROVE  UNCHANGED Contents
      BY <2>3, <2>6 DEF TakeWait
    <2>7. CASE Spurious
      BY <2>3, <2>7 DEF Spurious
    <2>8. CASE UNCHANGED vars
      BY <2>3, <2>8 DEF vars
    <2> QED
      BY <2>1, <2>2, <2>4, <2>5, <2>6, <2>7, <2>8
         DEF Next, RingPut, RingTake, TakeValue, Poll
  <1> QED
    BY <1>1, <1>2, Invariance, PTL DEF Spec, ImplementsFifo, Fifo!Spec
=============================================================================
