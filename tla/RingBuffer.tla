----------------------------- MODULE RingBuffer -----------------------------
(***************************************************************************)
(* runtime/ringbuffer.h: the bounded buffer every coordinator is made of.  *)
(*                                                                         *)
(* A ring is an array of Capacity slots with a put index, a get index and  *)
(* two flags that tell the full ring from the empty one when the indices   *)
(* meet.  ring_put and ring_take hold the mutex `serial` from beginning to *)
(* end, except while asleep on the condition `notfull` or `notempty`, so a *)
(* critical section is one atomic action here and the sleepers are a set   *)
(* per condition.  Tcl_ConditionNotify wakes all sleepers of a condition;  *)
(* a woken thread competes for the mutex and tests its condition again.    *)
(***************************************************************************)
EXTENDS Naturals, Sequences

CONSTANTS Capacity,     \* bufvar.capacity
          Values,       \* the pointers stored in the ring
          Producers,    \* threads calling ring_put
          Consumers,    \* threads calling ring_take
          Pollers,      \* threads calling ring_take_ifnotempty
          NoValue       \* "no ring_put in progress", not a value

ASSUME CapacityAssumption == Capacity \in Nat \ {0}
ASSUME NoValueAssumption  == NoValue \notin Values

VARIABLES put,          \* index of the next slot to fill
          get,          \* index of the next slot to take
          isempty,
          isfull,
          buffer,       \* the slots
          pending,      \* per producer: the value of the ring_put in progress
          notfull,      \* producers asleep on the condition notfull
          notempty      \* consumers asleep on the condition notempty

vars == << put, get, isempty, isfull, buffer, pending, notfull, notempty >>

Slots == 0 .. Capacity - 1

(* ring_init.  NALLOC leaves the slots undefined: any content will do. *)
Init == /\ put = 0
        /\ get = 0
        /\ isempty = TRUE
        /\ isfull = FALSE
        /\ buffer \in [Slots -> Values]
        /\ pending = [p \in Producers |-> NoValue]
        /\ notfull = {}
        /\ notempty = {}

(* A producer enters ring_put with a value. *)
CallPut(p, v) == /\ pending[p] = NoValue
                 /\ pending' = [pending EXCEPT ![p] = v]
                 /\ UNCHANGED << put, get, isempty, isfull, buffer, notfull, notempty >>

(* while (isfull) Tcl_ConditionWait (notfull) *)
PutWait(p) == /\ pending[p] # NoValue
              /\ p \notin notfull
              /\ isfull
              /\ notfull' = notfull \cup {p}
              /\ UNCHANGED << put, get, isempty, isfull, buffer, pending, notempty >>

(* Faulty forms of PutStore: no wrap of the index, no test of the flag after
   the wait, no notification. *)
PutStoreNoWrap(p) == /\ pending[p] # NoValue
                     /\ p \notin notfull
                     /\ ~ isfull
                     /\ buffer' = [buffer EXCEPT ![put] = pending[p]]
                     /\ put' = put + 1
                     /\ isfull' = (put' = get)
                     /\ isempty' = FALSE
                     /\ notempty' = {}
                     /\ pending' = [pending EXCEPT ![p] = NoValue]
                     /\ UNCHANGED << get, notfull >>

PutStoreUnchecked(p) == /\ pending[p] # NoValue
                        /\ p \notin notfull
                        /\ buffer' = [buffer EXCEPT ![put] = pending[p]]
                        /\ put' = (put + 1) % Capacity
                        /\ isfull' = (put' = get)
                        /\ isempty' = FALSE
                        /\ notempty' = {}
                        /\ pending' = [pending EXCEPT ![p] = NoValue]
                        /\ UNCHANGED << get, notfull >>

PutStoreSilent(p) == /\ pending[p] # NoValue
                     /\ p \notin notfull
                     /\ ~ isfull
                     /\ buffer' = [buffer EXCEPT ![put] = pending[p]]
                     /\ put' = (put + 1) % Capacity
                     /\ isfull' = (put' = get)
                     /\ isempty' = FALSE
                     /\ pending' = [pending EXCEPT ![p] = NoValue]
                     /\ UNCHANGED << get, notfull, notempty >>

(* The rest of ring_put, once the ring has space. *)
PutStore(p) == /\ pending[p] # NoValue
               /\ p \notin notfull
               /\ ~ isfull
               /\ buffer' = [buffer EXCEPT ![put] = pending[p]]
               /\ put' = (put + 1) % Capacity
               /\ isfull' = (put' = get)        \* it was clear before
               /\ isempty' = FALSE
               /\ notempty' = {}                \* notify
               /\ pending' = [pending EXCEPT ![p] = NoValue]
               /\ UNCHANGED << get, notfull >>

(* while (isempty) Tcl_ConditionWait (notempty) *)
TakeWait(c) == /\ c \notin notempty
               /\ isempty
               /\ notempty' = notempty \cup {c}
               /\ UNCHANGED << put, get, isempty, isfull, buffer, pending, notfull >>

(* Faulty forms of Remove: the flag isfull stays, or nobody is notified. *)
RemoveKeepsFull == /\ ~ isempty
                   /\ get' = (get + 1) % Capacity
                   /\ isempty' = (put = get')
                   /\ notfull' = {}
                   /\ UNCHANGED << put, buffer, pending, notempty, isfull >>

RemoveSilent == /\ ~ isempty
                /\ get' = (get + 1) % Capacity
                /\ isempty' = (put = get')
                /\ isfull' = FALSE
                /\ UNCHANGED << put, buffer, pending, notempty, notfull >>

(* The removal of the oldest value, shared by the two kinds of take. *)
Remove == /\ ~ isempty
          /\ get' = (get + 1) % Capacity
          /\ isempty' = (put = get')            \* it was clear before
          /\ isfull' = FALSE
          /\ notfull' = {}                      \* notify
          /\ UNCHANGED << put, buffer, pending, notempty >>

TakeValue(c) == c \notin notempty /\ Remove

(* ring_take_ifnotempty; on an empty ring it returns with nothing changed. *)
Poll(c) == Remove

(* A condition wait may return although nobody notified it. *)
SpuriousWake == \/ \E p \in notfull : /\ notfull' = notfull \ {p}
                                      /\ UNCHANGED notempty
                \/ \E c \in notempty : /\ notempty' = notempty \ {c}
                                       /\ UNCHANGED notfull

Spurious == /\ SpuriousWake
            /\ UNCHANGED << put, get, isempty, isfull, buffer, pending >>

RingPut(p)  == PutWait(p) \/ PutStore(p)
RingTake(c) == TakeWait(c) \/ TakeValue(c)

Next == \/ \E p \in Producers, v \in Values : CallPut(p, v)
        \/ \E p \in Producers : RingPut(p)
        \/ \E c \in Consumers : RingTake(c)
        \/ \E c \in Pollers : Poll(c)
        \/ Spurious

Spec == Init /\ [][Next]_vars

(* The scheduler runs every thread that can run: a consumer inside ring_take
   gets on, a producer inside ring_put too. *)
Fairness == /\ \A p \in Producers : WF_vars(RingPut(p))
            /\ \A c \in Consumers : WF_vars(RingTake(c))

FairSpec == Spec /\ Fairness

-----------------------------------------------------------------------------
(* Number of filled slots, and the values in them from oldest to newest. *)
Count == IF isfull THEN Capacity
         ELSE IF get <= put THEN put - get ELSE put + Capacity - get

SlotOf(k) == (get + k - 1) % Capacity

Contents == [k \in 1 .. Count |-> buffer[SlotOf(k)]]

TypeOK == /\ put \in Slots
          /\ get \in Slots
          /\ isempty \in BOOLEAN
          /\ isfull \in BOOLEAN
          /\ buffer \in [Slots -> Values]
          /\ pending \in [Producers -> Values \cup {NoValue}]
          /\ notfull \subseteq Producers
          /\ notempty \subseteq Consumers

(* The flags resolve the ambiguity of put = get: with the indices apart the
   ring is neither full nor empty, with the indices equal it is exactly one
   of the two. *)
FlagsConsistent == IF put = get THEN isfull = ~ isempty
                                ELSE ~ isfull /\ ~ isempty

(* No wakeup is lost, however calls, notifications and spurious wakeups
   interleave: a producer sleeps on notfull only while the ring is full, a
   consumer on notempty only while it is empty, and a producer asleep has a
   value to deliver. *)
NoLostWakeup == /\ notfull # {} => isfull
                /\ notempty # {} => isempty
                /\ \A p \in notfull : pending[p] # NoValue

(* The ring is a bounded fifo: slots, indices and flags together behave as
   the queue of BoundedFifo (ringbuffer.h: ring_put, ring_take). *)
Fifo == INSTANCE BoundedFifo WITH queue <- Contents

ImplementsFifo == Fifo!Spec

(* ... and it is drained: as long as a consumer calls ring_take, no value
   stays in the ring because everybody who could take it is asleep. *)
DrainsFifo == Fifo!FairSpec
=============================================================================
