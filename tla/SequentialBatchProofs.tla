------------------------ MODULE SequentialBatchProofs ------------------------
(***************************************************************************)
(* The properties of SequentialBatch for every number of workers and       *)
(* tasks.                                                                  *)
(***************************************************************************)
EXTENDS SequentialBatch, FiniteSetTheorems, SequenceTheorems, TLAPS

-----------------------------------------------------------------------------
(* Types.  TypeOK alone is not inductive: a thread that is about to put an
   ordinal into a ring must have one. *)
TypeInv == /\ TypeOK
           /\ maker \in {"idle", "order", "assign"} => made >= 1
           /\ \A w \in Workers : worker[w] = "result" => item[w] \in Ordinals

LEMMA InitType == Init => TypeInv
  BY NumWorkersAssumption, NumTasksAssumption
     DEF Init, TypeInv, TypeOK, Workers, Ordinals

LEMMA StepType == TypeInv /\ [Next]_vars => TypeInv'
  <1> SUFFICES ASSUME TypeInv, [Next]_vars PROVE TypeInv'
    OBVIOUS
  <1> USE NumWorkersAssumption, NumTasksAssumption DEF TypeInv, TypeOK
  <1>1. CASE MakeTask
    BY <1>1 DEF MakeTask, workerVars, completerVars
  <1>2. CASE MakeEnd
    BY <1>2 DEF MakeEnd, workerVars, completerVars
  <1>3. CASE ChooseWorker
    BY <1>3 DEF ChooseWorker, TakeIdle, workerVars, completerVars
  <1>4. CASE ChooseWorkerEof
    BY <1>4 DEF ChooseWorkerEof, TakeIdle, leftover, workerVars, completerVars
  <1>5. CASE NoneIdle
    BY <1>5 DEF NoneIdle, workerVars, completerVars
  <1>6. CASE Order
    BY <1>6 DEF Order, workerVars, completerVars
  <1>7. CASE Assign
    <2>1. made \in Ordinals
      BY <1>7 DEF Assign, Ordinals
    <2>2. task' \in [Workers -> Seq(Ordinals)]
      BY <1>7, <2>1 DEF Assign
    <2> QED  BY <1>7, <2>2 DEF Assign, workerVars, completerVars
  <1>8. ASSUME NEW w \in Workers, GetTask(w)
        PROVE  TypeInv'
    BY <1>8 DEF GetTask, makerVars, completerVars
  <1>9. ASSUME NEW w \in Workers, SetResult(w)
        PROVE  TypeInv'
    <2>1. item[w] \in Ordinals
      BY <1>9 DEF SetResult
    <2>2. result' \in [Workers -> Seq(Ordinals)]
      BY <1>9, <2>1 DEF SetResult
    <2> QED  BY <1>9, <2>2 DEF SetResult, makerVars, completerVars
  <1>10. ASSUME NEW w \in Workers, BecomeIdle(w)
         PROVE  TypeInv'
    BY <1>10 DEF BecomeIdle, makerVars, completerVars
  <1>11. CASE TakeOrder
    BY <1>11 DEF TakeOrder, makerVars, workerVars
  <1>12. CASE TakeResult
    <2>1. /\ Head(result[source]) \in Ordinals
          /\ result' \in [Workers -> Seq(Ordinals)]
      BY <1>12 DEF TakeResult
    <2>2. completed' \in Seq(Ordinals)
      <3>1. Append(completed, Head(result[source])) \in Seq(Ordinals)
        BY <2>1
      <3>2. completed' \in {completed, Append(completed, Head(result[source]))}
        BY <1>12 DEF TakeResult
      <3> QED  BY <3>1, <3>2
    <2>3. active' \in 1 .. NumWorkers
      BY <1>12 DEF TakeResult
    <2>4. completer' \in {"order", "result", "release", "returned"}
      BY <1>12 DEF TakeResult
    <2> QED
      BY <1>12, <2>1, <2>2, <2>3, <2>4 DEF TakeResult, makerVars, workerVars
  <1>13. CASE Release
    BY <1>13 DEF Release, makerVars, workerVars
  <1>14. CASE UNCHANGED vars
    BY <1>14 DEF vars, makerVars, workerVars, completerVars
  <1> QED
    BY <1>1, <1>2, <1>3, <1>4, <1>5, <1>6, <1>7, <1>8, <1>9, <1>10, <1>11, <1>12,
       <1>13, <1>14 DEF Next, Maker, Worker, Completer, Terminated

(* Every variable keeps its type: no thread ever puts into a ring, or takes
   from one, a worker or an ordinal that does not exist. *)
THEOREM TypeCorrect == Spec => []TypeOK
  <1>1. Spec => []TypeInv
    BY InitType, StepType, PTL DEF Spec
  <1>2. TypeInv => TypeOK
    BY DEF TypeInv
  <1> QED  BY <1>1, <1>2, PTL

-----------------------------------------------------------------------------
(* Order.  The counters of the inductive invariant, as the provers need them. *)
LEMMA Counters ==
    ASSUME OrderInv
    PROVE  /\ consumed \in Nat /\ offset \in Nat /\ ordered \in Nat
           /\ offset = consumed \/ offset = consumed + 1
           /\ offset <= ordered
           /\ ordered \in {made, made - 1}
           /\ consumed + 1 .. ordered \subseteq Ordinals
  <1> USE NumWorkersAssumption, NumTasksAssumption
  <1>1. Len(completed) \in Nat /\ Len(pickup) \in Nat
    BY DEF OrderInv, TypeOK
  <1>2. consumed \in Nat /\ offset \in Nat /\ (offset = consumed \/ offset = consumed + 1)
    BY <1>1 DEF OrderInv, TypeOK, consumed, offset, ended, released
  <1>3. ordered \in Nat /\ ordered \in {made, made - 1}
    BY DEF OrderInv, TypeOK, MakerInv, ordered
  <1>4. offset <= ordered
    BY <1>1, <1>2, <1>3 DEF OrderInv, CompleterInv
  <1>5. ordered <= NumTasks + NumWorkers
    BY <1>3 DEF OrderInv, TypeOK
  <1>6. consumed + 1 .. ordered \subseteq Ordinals
    BY <1>2, <1>3, <1>5 DEF Ordinals
  <1> QED  BY <1>2, <1>3, <1>4, <1>6

LEMMA OwnerIsWorker ==
    ASSUME OrderInv, NEW i \in consumed + 1 .. ordered
    PROVE  AssignedTo(i) \in Workers
  <1>1. Len(pickup) \in Nat /\ offset + Len(pickup) = ordered
    BY DEF OrderInv, TypeOK, CompleterInv
  <1>2. CASE i <= offset
    BY <1>2 DEF AssignedTo, OrderInv, TypeOK
  <1>3. CASE ~ (i <= offset)
    <2>1. i - offset \in 1 .. Len(pickup)
      BY <1>1, <1>3, Counters
    <2> QED  BY <1>3, <2>1 DEF AssignedTo, OrderInv, TypeOK
  <1> QED  BY <1>2, <1>3

LEMMA InitOrder == Init => OrderInv
  <1> SUFFICES ASSUME Init PROVE OrderInv
    OBVIOUS
  <1> USE NumWorkersAssumption, NumTasksAssumption DEF Init
  <1>1. TypeOK
    BY InitType DEF TypeInv
  <1>2. PlacesInv
    BY DEF PlacesInv, IsIdle, Targeted, Workers
  <1>3. MakerInv
    BY DEF MakerInv
  <1>4. Len(completed) = 0 /\ Len(pickup) = 0
    OBVIOUS
  <1>5. consumed = 0 /\ offset = 0 /\ ordered = 0 /\ ~ released
    BY <1>4 DEF released, ended, consumed, offset, ordered
  <1>10. CompleterInv
    BY <1>4, <1>5 DEF CompleterInv
  <1>6. \A w \in Workers : \A i \in Ordinals : ~ HasItem(w, i) /\ ~ HasResult(w, i)
    BY DEF HasItem, HasResult
  <1>7. OwnersInv
    BY <1>5, <1>6 DEF OwnersInv
  <1>8. ResultsInv
    BY DEF ResultsInv, HasItem
  <1>9. InOrder
    BY DEF InOrder
  <1> QED  BY <1>1, <1>2, <1>3, <1>10, <1>7, <1>8, <1>9 DEF OrderInv

(* One lemma per action, with a step per part of the invariant. *)
LEMMA StepMakeTask == ASSUME OrderInv, TypeOK', MakeTask PROVE OrderInv'
  <1> USE NumWorkersAssumption, NumTasksAssumption DEF OrderInv, MakeTask, workerVars, completerVars
  <1>1. ordered' = ordered /\ offset' = offset /\ consumed' = consumed
    BY DEF ordered, offset, consumed, ended, released, TypeOK
  <1>2. PlacesInv'
    BY DEF PlacesInv, IsIdle, Targeted
  <1>3. MakerInv'
    BY DEF MakerInv, TypeOK
  <1>4. CompleterInv'
    BY <1>1 DEF CompleterInv, released
  <1>5. /\ \A w, i : HasItem(w, i)' <=> HasItem(w, i)
        /\ \A w, i : HasResult(w, i)' <=> HasResult(w, i)
        /\ \A i : AssignedTo(i)' = AssignedTo(i)
    BY <1>1 DEF HasItem, HasResult, AssignedTo
  <1>6. OwnersInv'
    BY <1>1, <1>5 DEF OwnersInv
  <1>7. ResultsInv'
    BY <1>1, <1>5 DEF ResultsInv
  <1>8. InOrder'
    BY DEF InOrder
  <1> QED  BY <1>2, <1>3, <1>4, <1>6, <1>7, <1>8

LEMMA StepMakeEnd ==
    ASSUME OrderInv, TypeOK', MakeEnd
    PROVE  OrderInv'
  <1> USE NumWorkersAssumption, NumTasksAssumption
      DEF OrderInv, MakeEnd, workerVars, completerVars
  <1>1. ordered' = ordered /\ offset' = offset /\ consumed' = consumed
    BY DEF ordered, offset, consumed, ended, released, TypeOK
  <1>2. PlacesInv'
    BY DEF PlacesInv, IsIdle, Targeted
  <1>3. MakerInv'
    BY DEF MakerInv, leftover, TypeOK
  <1>4. CompleterInv'
    BY <1>1 DEF CompleterInv, released
  <1>5. /\ \A w, i : HasItem(w, i)' <=> HasItem(w, i)
        /\ \A w, i : HasResult(w, i)' <=> HasResult(w, i)
        /\ \A i : AssignedTo(i)' = AssignedTo(i)
    BY <1>1 DEF HasItem, HasResult, AssignedTo
  <1>6. OwnersInv'
    BY <1>1, <1>5 DEF OwnersInv
  <1>7. ResultsInv'
    BY <1>1, <1>5 DEF ResultsInv
  <1>8. InOrder'
    BY DEF InOrder
  <1> QED  BY <1>2, <1>3, <1>4, <1>6, <1>7, <1>8


LEMMA StepNoneIdle ==
    ASSUME OrderInv, TypeOK', NoneIdle
    PROVE  OrderInv'
  <1> USE NumWorkersAssumption, NumTasksAssumption
      DEF OrderInv, NoneIdle, workerVars, completerVars
  <1>1. ordered' = ordered /\ offset' = offset /\ consumed' = consumed
    BY DEF ordered, offset, consumed, ended, released, TypeOK
  <1>2. PlacesInv'
    BY DEF PlacesInv, IsIdle, Targeted
  <1>3. MakerInv'
    BY DEF MakerInv, leftover, TypeOK
  <1>4. CompleterInv'
    BY <1>1 DEF CompleterInv, released
  <1>5. /\ \A w, i : HasItem(w, i)' <=> HasItem(w, i)
        /\ \A w, i : HasResult(w, i)' <=> HasResult(w, i)
        /\ \A i : AssignedTo(i)' = AssignedTo(i)
    BY <1>1 DEF HasItem, HasResult, AssignedTo
  <1>6. OwnersInv'
    BY <1>1, <1>5 DEF OwnersInv
  <1>7. ResultsInv'
    BY <1>1, <1>5 DEF ResultsInv
  <1>8. InOrder'
    BY DEF InOrder
  <1> QED  BY <1>2, <1>3, <1>4, <1>6, <1>7, <1>8


(* The worker the maker takes was idle, and is not idle anymore. *)
LEMMA TakeIdlePlaces ==
    ASSUME OrderInv, TypeOK', TakeIdle, maker \notin {"order", "assign"}
    PROVE  PlacesInv'
  <1> USE DEF OrderInv, TakeIdle, workerVars, completerVars, TypeOK
  <1>1. /\ Len(worker_idle') = Len(worker_idle) - 1
        /\ \A k \in 1 .. Len(worker_idle') : worker_idle'[k] = worker_idle[k + 1]
        /\ target' = worker_idle[1] /\ 1 \in 1 .. Len(worker_idle)
    OBVIOUS
  <1>2. \A w \in Workers : IsIdle(w)' => IsIdle(w) /\ w # target'
    <2> SUFFICES ASSUME NEW w \in Workers, NEW k \in 1 .. Len(worker_idle'), worker_idle'[k] = w
                 PROVE  IsIdle(w) /\ w # target'
      BY DEF IsIdle
    <2>1. Len(worker_idle) \in Nat /\ k \in Int
      OBVIOUS
    <2>2. k + 1 \in 1 .. Len(worker_idle) /\ k + 1 # 1
      BY <1>1, <2>1
    <2>3. worker_idle[k + 1] = w
      BY <1>1
    <2>4. w # worker_idle[1]
      BY <1>1, <2>2, <2>3 DEF PlacesInv
    <2> QED  BY <1>1, <2>2, <2>3, <2>4 DEF IsIdle
  <1>3. IsIdle(target')
    BY <1>1 DEF IsIdle
  <1>4. \A w \in Workers : Targeted(w)' => w = target'
    BY DEF Targeted
  <1>5. \A j, k \in 1 .. Len(worker_idle') :
           worker_idle'[j] = worker_idle'[k] => j = k
    <2> SUFFICES ASSUME NEW j \in 1 .. Len(worker_idle'), NEW k \in 1 .. Len(worker_idle'),
                        worker_idle'[j] = worker_idle'[k]
                 PROVE  j = k
      OBVIOUS
    <2>1. Len(worker_idle) \in Nat /\ j \in Int /\ k \in Int
      OBVIOUS
    <2>2. j + 1 \in 1 .. Len(worker_idle) /\ k + 1 \in 1 .. Len(worker_idle)
      BY <1>1, <2>1
    <2>3. worker_idle[j + 1] = worker_idle[k + 1]
      BY <1>1
    <2>4. j + 1 = k + 1
      BY <2>2, <2>3 DEF PlacesInv
    <2> QED  BY <2>1, <2>4
  <1>6. ASSUME NEW w \in Workers
        PROVE  /\ IsIdle(w)' => worker'[w] = "get" /\ task'[w] = << >> /\ ~ Targeted(w)'
               /\ Targeted(w)' => worker'[w] = "get" /\ task'[w] = << >>
               /\ task'[w] # << >> => worker'[w] = "get" /\ Len(task'[w]) = 1
    <2>1. worker' = worker /\ task' = task
      OBVIOUS
    <2>2. /\ IsIdle(w) => worker[w] = "get" /\ task[w] = << >>
          /\ task[w] # << >> => worker[w] = "get" /\ Len(task[w]) = 1
      BY DEF PlacesInv
    <2>3. IsIdle(w)' => IsIdle(w) /\ ~ Targeted(w)'
      BY <1>2, <1>4
    <2>4. Targeted(w)' => IsIdle(w)
      BY <1>3, <1>4
    <2> QED  BY <2>1, <2>2, <2>3, <2>4
  <1> QED  BY <1>5, <1>6 DEF PlacesInv


LEMMA StepChooseWorker ==
    ASSUME OrderInv, TypeOK', ChooseWorker
    PROVE  OrderInv'
  <1> USE NumWorkersAssumption, NumTasksAssumption
      DEF OrderInv, ChooseWorker, TakeIdle, workerVars, completerVars
  <1>1. ordered' = ordered /\ offset' = offset /\ consumed' = consumed
    BY DEF ordered, offset, consumed, ended, released, TypeOK
  <1>2. PlacesInv'
    BY TakeIdlePlaces
  <1>3. MakerInv'
    BY DEF MakerInv, leftover, TypeOK
  <1>4. CompleterInv'
    BY <1>1 DEF CompleterInv, released
  <1>5. /\ \A w, i : HasItem(w, i)' <=> HasItem(w, i)
        /\ \A w, i : HasResult(w, i)' <=> HasResult(w, i)
        /\ \A i : AssignedTo(i)' = AssignedTo(i)
    BY <1>1 DEF HasItem, HasResult, AssignedTo
  <1>6. OwnersInv'
    BY <1>1, <1>5 DEF OwnersInv
  <1>7. ResultsInv'
    BY <1>1, <1>5 DEF ResultsInv
  <1>8. InOrder'
    BY DEF InOrder
  <1> QED  BY <1>2, <1>3, <1>4, <1>6, <1>7, <1>8


LEMMA StepChooseWorkerEof ==
    ASSUME OrderInv, TypeOK', ChooseWorkerEof
    PROVE  OrderInv'
  <1> USE NumWorkersAssumption, NumTasksAssumption
      DEF OrderInv, ChooseWorkerEof, TakeIdle, workerVars, completerVars
  <1>1. ordered' = ordered /\ offset' = offset /\ consumed' = consumed
    BY DEF ordered, offset, consumed, ended, released, TypeOK
  <1>2. PlacesInv'
    BY TakeIdlePlaces
  <1>3. MakerInv'
    BY DEF MakerInv, leftover, TypeOK
  <1>4. CompleterInv'
    BY <1>1 DEF CompleterInv, released
  <1>5. /\ \A w, i : HasItem(w, i)' <=> HasItem(w, i)
        /\ \A w, i : HasResult(w, i)' <=> HasResult(w, i)
        /\ \A i : AssignedTo(i)' = AssignedTo(i)
    BY <1>1 DEF HasItem, HasResult, AssignedTo
  <1>6. OwnersInv'
    BY <1>1, <1>5 DEF OwnersInv
  <1>7. ResultsInv'
    BY <1>1, <1>5 DEF ResultsInv
  <1>8. InOrder'
    BY DEF InOrder
  <1> QED  BY <1>2, <1>3, <1>4, <1>6, <1>7, <1>8

LEMMA StepOrder ==
    ASSUME OrderInv, TypeOK', Order
    PROVE  OrderInv'
  <1> USE NumWorkersAssumption, NumTasksAssumption
      DEF OrderInv, Order, workerVars, completerVars
  <1>1. ordered' = made /\ ordered = made - 1 /\ offset' = offset /\ consumed' = consumed
    BY DEF ordered, offset, consumed, ended, released, TypeOK
  <1>a. /\ consumed \in Nat /\ offset \in Nat /\ made \in Nat /\ Len(pickup) \in Nat
        /\ consumed <= offset /\ offset + Len(pickup) = made - 1
    <2>1. Len(pickup) \in Nat /\ made \in Nat
      BY DEF TypeOK
    <2>2. offset + Len(pickup) = ordered
      BY DEF CompleterInv
    <2> QED  BY <1>1, <2>1, <2>2, Counters
  <1>2. PlacesInv'
    BY DEF PlacesInv, IsIdle, Targeted
  <1>3. MakerInv'
    BY DEF MakerInv
  <1>4. CompleterInv'
    <2>1. Len(pickup') = Len(pickup) + 1 /\ Len(pickup) \in Nat
      BY DEF TypeOK
    <2> QED  BY <1>1, <1>a, <2>1 DEF CompleterInv, released
  <1>5. /\ \A w, i : HasItem(w, i)' <=> HasItem(w, i) \/ (w = target /\ i = made)
        /\ \A w, i : HasResult(w, i)' <=> HasResult(w, i)
    BY DEF HasItem, HasResult
  <1>6. /\ \A i \in consumed + 1 .. ordered : AssignedTo(i)' = AssignedTo(i)
        /\ AssignedTo(made)' = target
    <2>1. /\ Len(pickup) \in Nat
          /\ pickup'[Len(pickup) + 1] = target
          /\ \A k \in 1 .. Len(pickup) : pickup'[k] = pickup[k]
      BY DEF TypeOK
    <2>2. made = offset + (Len(pickup) + 1) /\ ordered = offset + Len(pickup)
      BY <1>1, <1>a
    <2>3. \A i \in consumed + 1 .. ordered : i > offset => i - offset \in 1 .. Len(pickup)
      BY <1>a, <2>2
    <2>4. made > offset /\ made - offset = Len(pickup) + 1
      BY <1>a
    <2>5. AssignedTo(made)' = target
      BY <1>1, <2>1, <2>4, <1>a DEF AssignedTo
    <2>6. \A i \in consumed + 1 .. ordered : AssignedTo(i)' = AssignedTo(i)
      BY <1>1, <2>1, <2>3, Counters DEF AssignedTo
    <2> QED  BY <2>5, <2>6
  <1>7. OwnersInv'
    <2>1. consumed + 1 .. made = (consumed + 1 .. ordered) \cup {made}
      BY <1>1, <1>a
    <2> QED  BY <1>1, <1>5, <1>6, <2>1 DEF OwnersInv
  <1>8. ResultsInv'
    <2>1. ASSUME NEW k \in 1 .. Len(result[target])
          PROVE  result[target][k] < made
      <3>1. result[target][k] \in Ordinals /\ HasResult(target, result[target][k])
        BY DEF HasResult, TypeOK
      <3>2. result[target][k] \in consumed + 1 .. ordered
        BY <3>1 DEF OwnersInv, TypeOK
      <3> QED  BY <3>2, <1>1, Counters DEF TypeOK
    <2> QED  BY <1>5, <2>1 DEF ResultsInv
  <1>9. InOrder'
    BY DEF InOrder
  <1> QED  BY <1>2, <1>3, <1>4, <1>7, <1>8, <1>9

LEMMA StepAssign ==
    ASSUME OrderInv, TypeOK', Assign
    PROVE  OrderInv'
  <1> USE NumWorkersAssumption, NumTasksAssumption
      DEF OrderInv, Assign, workerVars, completerVars
  <1>1. ordered' = ordered /\ offset' = offset /\ consumed' = consumed
    BY DEF ordered, offset, consumed, ended, released, TypeOK
  <1>a. /\ task[target] = << >> /\ worker[target] = "get" /\ ~ IsIdle(target)
        /\ target \in Workers
    BY DEF PlacesInv, Targeted, TypeOK
  <1>b. /\ task'[target] # << >> /\ Len(task'[target]) = 1 /\ task'[target][1] = made
        /\ \A w \in Workers : w # target => task'[w] = task[w]
    BY <1>a DEF TypeOK
  <1>2. PlacesInv'
    BY <1>a, <1>b DEF PlacesInv, IsIdle, Targeted
  <1>3. MakerInv'
    BY DEF MakerInv, leftover, TypeOK
  <1>4. CompleterInv'
    BY <1>1 DEF CompleterInv, released
  <1>5. /\ \A w \in Workers : \A i : HasItem(w, i)' <=> HasItem(w, i)
        /\ \A w, i : HasResult(w, i)' <=> HasResult(w, i)
        /\ \A i : AssignedTo(i)' = AssignedTo(i)
    BY <1>1, <1>a, <1>b DEF HasItem, HasResult, AssignedTo
  <1>c. \A i \in consumed + 1 .. ordered : AssignedTo(i) \in Workers
    BY Counters, OwnerIsWorker
  <1>6. OwnersInv'
    BY <1>1, <1>5, <1>c DEF OwnersInv
  <1>7. ResultsInv'
    BY <1>1, <1>5 DEF ResultsInv
  <1>8. InOrder'
    BY DEF InOrder
  <1> QED  BY <1>2, <1>3, <1>4, <1>6, <1>7, <1>8

LEMMA Singleton ==
    ASSUME NEW S, NEW q \in Seq(S), Len(q) = 1
    PROVE  Head(q) = q[1] /\ Tail(q) = << >>
  <1>1. q # << >>
    OBVIOUS
  <1>2. Tail(q) \in Seq(S) /\ Len(Tail(q)) = 0 /\ Head(q) = q[1]
    BY <1>1, HeadTailProperties
  <1> QED  BY <1>2, EmptySeq

LEMMA StepGetTask ==
    ASSUME NEW v \in Workers, OrderInv, TypeOK', GetTask(v)
    PROVE  OrderInv'
  <1> USE NumWorkersAssumption, NumTasksAssumption
      DEF OrderInv, GetTask, makerVars, completerVars
  <1>1. ordered' = ordered /\ offset' = offset /\ consumed' = consumed
    BY DEF ordered, offset, consumed, ended, released, TypeOK
  <1>a. Len(task[v]) = 1 /\ ~ IsIdle(v) /\ ~ Targeted(v)
    BY DEF PlacesInv
  <1>d. Head(task[v]) = task[v][1] /\ Tail(task[v]) = << >>
    <2>1. task[v] \in Seq(Ordinals)
      BY DEF TypeOK
    <2> QED  BY <2>1, <1>a, Singleton
  <1>b. /\ task'[v] = << >> /\ item'[v] = task[v][1] /\ worker'[v] = "result"
        /\ \A w \in Workers : w # v => /\ task'[w] = task[w] /\ item'[w] = item[w]
                                      /\ worker'[w] = worker[w]
    BY <1>d DEF TypeOK
  <1>2. PlacesInv'
    BY <1>a, <1>b DEF PlacesInv, IsIdle, Targeted
  <1>3. MakerInv'
    BY DEF MakerInv, leftover
  <1>4. CompleterInv'
    BY <1>1 DEF CompleterInv, released
  <1>5. /\ \A w \in Workers : \A i : HasItem(w, i)' <=> HasItem(w, i)
        /\ \A w, i : HasResult(w, i)' <=> HasResult(w, i)
        /\ \A i : AssignedTo(i)' = AssignedTo(i)
    BY <1>1, <1>a, <1>b DEF HasItem, HasResult, AssignedTo
  <1>c. \A i \in consumed + 1 .. ordered : AssignedTo(i) \in Workers
    BY Counters, OwnerIsWorker
  <1>6. OwnersInv'
    BY <1>1, <1>5, <1>c DEF OwnersInv
  <1>7. ResultsInv'
    BY <1>1, <1>5 DEF ResultsInv
  <1>8. InOrder'
    BY DEF InOrder
  <1> QED  BY <1>2, <1>3, <1>4, <1>6, <1>7, <1>8

LEMMA StepSetResult ==
    ASSUME NEW v \in Workers, OrderInv, TypeInv, TypeOK', SetResult(v)
    PROVE  OrderInv'
  <1> USE NumWorkersAssumption, NumTasksAssumption
      DEF OrderInv, SetResult, makerVars, completerVars
  <1>1. ordered' = ordered /\ offset' = offset /\ consumed' = consumed
    BY DEF ordered, offset, consumed, ended, released, TypeOK
  <1>a. /\ task[v] = << >> /\ ~ IsIdle(v) /\ ~ Targeted(v)
        /\ item[v] \in Ordinals /\ HasItem(v, item[v])
    BY DEF PlacesInv, HasItem, TypeInv
  <1>b. /\ worker'[v] # "result"
        /\ worker'[v] # "get"
        /\ \A w \in Workers : w # v => worker'[w] = worker[w] /\ result'[w] = result[w]
    BY DEF TypeOK
  <1>d. /\ Len(result[v]) \in Nat /\ Len(result'[v]) = Len(result[v]) + 1
        /\ result'[v][Len(result[v]) + 1] = item[v]
        /\ \A k \in 1 .. Len(result[v]) : result'[v][k] = result[v][k]
    <2>1. result[v] \in Seq(Ordinals) /\ result'[v] = Append(result[v], item[v])
      BY DEF TypeOK
    <2> QED  BY <1>a, <2>1, AppendProperties
  <1>2. PlacesInv'
    BY <1>a, <1>b DEF PlacesInv, IsIdle, Targeted
  <1>3. MakerInv'
    BY DEF MakerInv, leftover
  <1>4. CompleterInv'
    BY <1>1 DEF CompleterInv, released
  <1>5. /\ \A w \in Workers : \A i : HasItem(w, i)' => HasItem(w, i)
        /\ \A w \in Workers : \A i : HasItem(w, i) =>
              HasItem(w, i)' \/ (w = v /\ i = item[v])
        /\ \A i : ~ HasItem(v, i)'
    BY <1>a, <1>b DEF HasItem, Targeted
  <1>e. \A w \in Workers : \A i :
           HasResult(w, i)' <=> HasResult(w, i) \/ (w = v /\ i = item[v])
    BY <1>b, <1>d DEF HasResult
  <1>c. /\ \A i \in consumed + 1 .. ordered : AssignedTo(i) \in Workers
        /\ \A i : AssignedTo(i)' = AssignedTo(i)
    BY <1>1, Counters, OwnerIsWorker DEF AssignedTo
  <1>6. OwnersInv'
    <2>1. \A w \in Workers : \A i :
             HasItem(w, i)' \/ HasResult(w, i)' <=> HasItem(w, i) \/ HasResult(w, i)
      BY <1>5, <1>e, <1>a
    <2> QED  BY <1>1, <1>c, <2>1 DEF OwnersInv
  <1>7. ResultsInv'
    <2>1. ASSUME NEW j \in 1 .. Len(result'[v]), NEW k \in 1 .. Len(result'[v]), j < k
          PROVE  result'[v][j] < result'[v][k]
      <3>1. CASE k = Len(result[v]) + 1
        <4>1. j \in 1 .. Len(result[v])
          BY <1>d, <2>1, <3>1
        <4> QED  BY <1>a, <1>d, <3>1, <4>1 DEF ResultsInv
      <3>2. CASE k # Len(result[v]) + 1
        <4>1. j \in 1 .. Len(result[v]) /\ k \in 1 .. Len(result[v])
          BY <1>d, <2>1, <3>2
        <4> QED  BY <1>d, <2>1, <4>1 DEF ResultsInv
      <3> QED  BY <3>1, <3>2
    <2> QED  BY <1>5, <1>b, <2>1 DEF ResultsInv
  <1>8. InOrder'
    BY DEF InOrder
  <1> QED  BY <1>2, <1>3, <1>4, <1>6, <1>7, <1>8

LEMMA StepBecomeIdle ==
    ASSUME NEW v \in Workers, OrderInv, TypeOK', BecomeIdle(v)
    PROVE  OrderInv'
  <1> USE NumWorkersAssumption, NumTasksAssumption
      DEF OrderInv, BecomeIdle, makerVars, completerVars
  <1>1. ordered' = ordered /\ offset' = offset /\ consumed' = consumed
    BY DEF ordered, offset, consumed, ended, released, TypeOK
  <1>a. task[v] = << >> /\ ~ IsIdle(v) /\ ~ Targeted(v)
    BY DEF PlacesInv
  <1>b. /\ worker'[v] = "get"
        /\ \A w \in Workers : w # v => worker'[w] = worker[w]
    BY DEF TypeOK
  <1>d. /\ Len(worker_idle) \in Nat /\ Len(worker_idle') = Len(worker_idle) + 1
        /\ worker_idle'[Len(worker_idle) + 1] = v
        /\ \A k \in 1 .. Len(worker_idle) : worker_idle'[k] = worker_idle[k]
    BY AppendProperties DEF TypeOK
  <1>2. PlacesInv'
    <2>1. \A w \in Workers : IsIdle(w)' <=> IsIdle(w) \/ w = v
      BY <1>d DEF IsIdle
    <2>2. \A w \in Workers : Targeted(w)' <=> Targeted(w)
      BY DEF Targeted
    <2>3. \A j, k \in 1 .. Len(worker_idle') :
             worker_idle'[j] = worker_idle'[k] => j = k
      <3>1. \A k \in 1 .. Len(worker_idle) : worker_idle[k] # v
        BY <1>a DEF IsIdle
      <3> QED  BY <1>d, <3>1 DEF PlacesInv
    <2> QED  BY <1>a, <1>b, <2>1, <2>2, <2>3 DEF PlacesInv
  <1>3. MakerInv'
    BY DEF MakerInv, leftover
  <1>4. CompleterInv'
    BY <1>1 DEF CompleterInv, released
  <1>5. /\ \A w \in Workers : \A i : HasItem(w, i)' <=> HasItem(w, i)
        /\ \A w, i : HasResult(w, i)' <=> HasResult(w, i)
        /\ \A i : AssignedTo(i)' = AssignedTo(i)
    BY <1>1, <1>b DEF HasItem, HasResult, AssignedTo
  <1>c. \A i \in consumed + 1 .. ordered : AssignedTo(i) \in Workers
    BY Counters, OwnerIsWorker
  <1>6. OwnersInv'
    BY <1>1, <1>5, <1>c DEF OwnersInv
  <1>7. ResultsInv'
    BY <1>1, <1>5 DEF ResultsInv
  <1>8. InOrder'
    BY DEF InOrder
  <1> QED  BY <1>2, <1>3, <1>4, <1>6, <1>7, <1>8

LEMMA StepTakeOrder ==
    ASSUME OrderInv, TypeOK', TakeOrder
    PROVE  OrderInv'
  <1> USE NumWorkersAssumption, NumTasksAssumption
      DEF OrderInv, TakeOrder, makerVars, workerVars
  <1>1. ordered' = ordered /\ offset = consumed /\ offset' = consumed + 1
        /\ consumed' = consumed
    BY DEF ordered, offset, consumed, ended, released, TypeOK
  <1>a. /\ consumed \in Nat /\ ordered \in Nat
        /\ Len(pickup) \in Nat /\ consumed + Len(pickup) = ordered
    BY <1>1, Counters DEF CompleterInv, TypeOK
  <1>b. /\ source' = pickup[1] /\ Len(pickup') = Len(pickup) - 1
        /\ \A k \in 1 .. Len(pickup') : pickup'[k] = pickup[k + 1]
    BY HeadTailProperties DEF TypeOK
  <1>2. PlacesInv'
    BY DEF PlacesInv, IsIdle, Targeted
  <1>3. MakerInv'
    BY DEF MakerInv, leftover
  <1>4. CompleterInv'
    BY <1>1, <1>a, <1>b DEF CompleterInv, released
  <1>5. /\ \A w, i : HasItem(w, i)' <=> HasItem(w, i)
        /\ \A w, i : HasResult(w, i)' <=> HasResult(w, i)
    BY DEF HasItem, HasResult
  <1>c. ASSUME NEW i \in consumed + 1 .. ordered
        PROVE  AssignedTo(i)' = AssignedTo(i)
    <2>1. CASE i = consumed + 1
      BY <1>1, <1>a, <1>b, <2>1 DEF AssignedTo
    <2>2. CASE i # consumed + 1
      <3>1. i - (consumed + 1) \in 1 .. Len(pickup') /\ (i - (consumed + 1)) + 1 = i - consumed
            /\ ~ (i <= consumed) /\ ~ (i <= consumed + 1)
        BY <1>a, <1>b, <2>2
      <3>2. pickup'[i - (consumed + 1)] = pickup[i - consumed]
        BY <1>b, <3>1
      <3> QED  BY <1>1, <3>1, <3>2 DEF AssignedTo
    <2> QED  BY <2>1, <2>2
  <1>6. OwnersInv'
    BY <1>1, <1>5, <1>c DEF OwnersInv
  <1>7. ResultsInv'
    BY <1>1, <1>5 DEF ResultsInv
  <1>8. InOrder'
    BY DEF InOrder
  <1> QED  BY <1>2, <1>3, <1>4, <1>6, <1>7, <1>8

(* The result at the head of the ring of the worker whose turn it is, is the
   result of the first ordinal the completer does not have. *)
LEMMA HeadIsNext ==
    ASSUME OrderInv, completer = "result", result[source] # << >>
    PROVE  /\ offset = consumed + 1
           /\ Head(result[source]) = consumed + 1
  <1> USE DEF OrderInv
  <1>1. /\ offset = consumed + 1 /\ consumed \in Nat
        /\ consumed + 1 \in consumed + 1 .. ordered
        /\ consumed + 1 \in Ordinals
    BY Counters DEF offset
  <1>2. /\ source \in Workers /\ result[source] \in Seq(Ordinals)
        /\ Len(result[source]) \in Nat /\ Len(result[source]) >= 1
        /\ Head(result[source]) = result[source][1]
        /\ Head(result[source]) \in Ordinals
    BY DEF TypeOK
  <1>3. Head(result[source]) \in Nat
    BY <1>2 DEF Ordinals
  <1>4. Head(result[source]) >= consumed + 1
    <2>1. HasResult(source, Head(result[source]))
      BY <1>2 DEF HasResult
    <2>2. Head(result[source]) \in consumed + 1 .. ordered
      BY <1>2, <2>1 DEF OwnersInv
    <2> QED  BY <2>2, <1>1
  <1>5. AssignedTo(consumed + 1) = source
    BY <1>1 DEF AssignedTo
  <1>6. HasItem(source, consumed + 1) \/ HasResult(source, consumed + 1)
    BY <1>1, <1>5 DEF OwnersInv
  <1>7. Head(result[source]) <= consumed + 1
    <2>1. CASE HasItem(source, consumed + 1)
      <3>1. result[source][1] < consumed + 1
        BY <1>1, <1>2, <2>1 DEF ResultsInv
      <3> QED  BY <1>1, <1>2, <1>3, <3>1
    <2>2. CASE HasResult(source, consumed + 1)
      <3>1. PICK k \in 1 .. Len(result[source]) : result[source][k] = consumed + 1
        BY <2>2 DEF HasResult
      <3>2. CASE k = 1
        BY <1>1, <1>2, <3>1, <3>2
      <3>3. CASE k # 1
        <4>1. result[source][1] < result[source][k]
          BY <1>2, <3>3 DEF ResultsInv
        <4> QED  BY <1>1, <1>2, <1>3, <3>1, <4>1
      <3> QED  BY <3>2, <3>3
    <2> QED  BY <1>6, <2>1, <2>2
  <1> QED  BY <1>1, <1>3, <1>4, <1>7

LEMMA StepTakeResult ==
    ASSUME OrderInv, TypeOK', TakeResult
    PROVE  OrderInv'
  <1> DEFINE h == Head(result[source])
  <1> USE NumWorkersAssumption, NumTasksAssumption DEF OrderInv
  <1>1. h = consumed + 1 /\ offset = consumed + 1
    BY HeadIsNext DEF TakeResult
  <1>2. /\ consumed \in Nat /\ ordered \in Nat /\ offset <= ordered
        /\ Len(completed) \in Nat
        /\ Len(completed) <= NumTasks /\ active \in 1 .. NumWorkers
        /\ consumed = Len(completed) + (NumWorkers - active)
        /\ ~ released
        /\ Len(completed) < NumTasks => active = NumWorkers
    <2>1. /\ Len(completed) \in Nat /\ active \in 1 .. NumWorkers
          /\ completer = "result" /\ ~ released
      BY DEF TakeResult, released, TypeOK
    <2>2. consumed = Len(completed) + (NumWorkers - active)
      BY <2>1 DEF consumed, ended
    <2>3. Len(completed) <= NumTasks /\ (Len(completed) < NumTasks => active = NumWorkers)
      BY <2>1 DEF CompleterInv
    <2> QED  BY <2>1, <2>2, <2>3, Counters
  <1>3. /\ IsNull(h) => Len(completed) = NumTasks
        /\ ~ IsNull(h) => active = NumWorkers /\ h = Len(completed) + 1
    BY <1>1, <1>2 DEF IsNull
  <1>4. \/ /\ ~ IsNull(h) /\ completed' = Append(completed, h)
           /\ completer' = "order" /\ active' = active
        \/ /\ IsNull(h) /\ active # 1 /\ active' = active - 1
           /\ completer' = "order" /\ completed' = completed
        \/ /\ IsNull(h) /\ active = 1 /\ active' = active
           /\ completer' = "release" /\ completed' = completed
    BY DEF TakeResult
  <1>5. /\ h \in Ordinals /\ completed \in Seq(Ordinals)
        /\ \A w \in Workers : w # source => result'[w] = result[w]
        /\ source \in Workers
    BY DEF TakeResult, TypeOK
  <1>6. /\ Len(result[source]) \in Nat /\ Len(result[source]) >= 1
        /\ h = result[source][1]
        /\ Len(result'[source]) = Len(result[source]) - 1
        /\ \A k \in 1 .. Len(result'[source]) : result'[source][k] = result[source][k + 1]
    <2>1. result[source] \in Seq(Ordinals) /\ result[source] # << >>
          /\ result'[source] = Tail(result[source])
      BY DEF TakeResult, TypeOK
    <2> QED  BY <2>1, HeadTailProperties
  <1>7. ~ IsNull(h) => /\ Len(completed') = Len(completed) + 1
                       /\ completed'[Len(completed) + 1] = h
                       /\ \A k \in 1 .. Len(completed) : completed'[k] = completed[k]
    BY <1>4, <1>5, AppendProperties
  <1>8. ordered' = ordered /\ consumed' = consumed + 1 /\ offset' = consumed + 1
    <2>1. ordered' = ordered
      BY DEF TakeResult, makerVars, ordered
    <2>2. consumed' = consumed + 1
      BY <1>2, <1>4, <1>7 DEF consumed, ended, released
    <2> QED  BY <1>4, <2>1, <2>2 DEF offset
  <1>9. PlacesInv'
    BY DEF TakeResult, makerVars, workerVars, PlacesInv, IsIdle, Targeted
  <1>10. MakerInv'
    BY DEF TakeResult, makerVars, MakerInv, leftover
  <1>11. CompleterInv'
    <2>1. pickup' = pickup /\ offset + Len(pickup) = ordered
      BY DEF TakeResult, CompleterInv
    <2>2. offset' + Len(pickup') = ordered'
      BY <1>1, <1>8, <2>1
    <2> QED  BY <1>2, <1>3, <1>4, <1>7, <2>2 DEF CompleterInv, released, IsNull
  <1>12. /\ \A w, i : HasItem(w, i)' <=> HasItem(w, i)
         /\ \A i \in consumed + 1 .. ordered : AssignedTo(i)' = AssignedTo(i)
    BY <1>1, <1>8 DEF TakeResult, makerVars, workerVars, HasItem, AssignedTo
  <1>13. \A w \in Workers : \A i \in Ordinals :
            HasResult(w, i)' <=> HasResult(w, i) /\ ~ (w = source /\ i = h)
    <2>1. ASSUME NEW w \in Workers, w = source, NEW i \in Ordinals, HasResult(w, i)'
          PROVE  HasResult(w, i) /\ i # h
      <3>1. PICK k \in 1 .. Len(result'[source]) : result'[source][k] = i
        BY <2>1 DEF HasResult
      <3>2. k + 1 \in 1 .. Len(result[source]) /\ result[source][k + 1] = i /\ 1 < k + 1
        BY <1>6, <3>1
      <3>3. result[source][1] < result[source][k + 1]
        BY <1>5, <1>6, <3>2 DEF ResultsInv
      <3>4. h = result[source][1] /\ h \in Int /\ i \in Int
        BY <1>5, <1>6 DEF Ordinals
      <3> QED  BY <2>1, <3>2, <3>3, <3>4 DEF HasResult
    <2>2. ASSUME NEW w \in Workers, w = source, NEW i \in Ordinals, HasResult(w, i), i # h
          PROVE  HasResult(w, i)'
      <3>1. PICK k \in 1 .. Len(result[source]) : result[source][k] = i
        BY <2>2 DEF HasResult
      <3>2. k - 1 \in 1 .. Len(result'[source]) /\ (k - 1) + 1 = k
        BY <1>6, <2>2, <3>1
      <3>3. result'[source][k - 1] = i
        BY <1>6, <3>1, <3>2
      <3> QED  BY <2>2, <3>2, <3>3 DEF HasResult
    <2>3. ASSUME NEW w \in Workers, w # source, NEW i
          PROVE  HasResult(w, i)' <=> HasResult(w, i)
      BY <1>5, <2>3 DEF HasResult
    <2> HIDE DEF h
    <2> QED  BY <2>1, <2>2, <2>3
  <1>14. OwnersInv'
    <2>1. ASSUME NEW i \in consumed + 2 .. ordered
          PROVE  (HasItem(AssignedTo(i), i) \/ HasResult(AssignedTo(i), i))'
      <3>1. i \in consumed + 1 .. ordered /\ i # h /\ i \in Ordinals
        BY <1>1, <1>2, Counters
      <3>2. AssignedTo(i) \in Workers /\ AssignedTo(i)' = AssignedTo(i)
        BY <1>12, <3>1, OwnerIsWorker
      <3>3. HasItem(AssignedTo(i), i) \/ HasResult(AssignedTo(i), i)
        BY <3>1 DEF OwnersInv
      <3>4. HasItem(AssignedTo(i), i)' \/ HasResult(AssignedTo(i), i)'
        BY <1>12, <1>13, <3>1, <3>2, <3>3
      <3> QED  BY <3>4
    <2>2. ASSUME NEW w \in Workers, NEW i \in Ordinals, HasItem(w, i)' \/ HasResult(w, i)'
          PROVE  i \in consumed + 2 .. ordered /\ AssignedTo(i)' = w
      <3>1. HasItem(w, i) \/ HasResult(w, i)
        BY <1>12, <1>13, <2>2
      <3>2. i \in consumed + 1 .. ordered /\ AssignedTo(i) = w
        BY <3>1 DEF OwnersInv
      <3>3. i # consumed + 1
        <4> SUFFICES ASSUME i = consumed + 1 PROVE FALSE
          OBVIOUS
        <4>1. w = source
          BY <1>1, <1>2, <3>2 DEF AssignedTo
        <4>2. ~ HasResult(w, i)'
          BY <4>1, <1>1, <1>13
        <4>3. HasItem(source, i)
          BY <1>12, <2>2, <4>1, <4>2
        <4>4. result[source][1] < i
          BY <1>5, <1>6, <4>3 DEF ResultsInv
        <4> QED  BY <1>1, <1>2, <1>6, <4>4
      <3> QED  BY <1>2, <1>12, <3>2, <3>3
    <2> QED  BY <1>2, <1>8, <2>1, <2>2 DEF OwnersInv
  <1>15. ResultsInv'
    <2>1. ASSUME NEW j \in 1 .. Len(result'[source]), NEW k \in 1 .. Len(result'[source]), j < k
          PROVE  result'[source][j] < result'[source][k]
      <3>1. /\ j + 1 \in 1 .. Len(result[source]) /\ k + 1 \in 1 .. Len(result[source])
            /\ j + 1 < k + 1
        BY <1>6, <2>1
      <3> QED  BY <1>5, <1>6, <3>1 DEF ResultsInv
    <2>2. ASSUME NEW i \in Ordinals, HasItem(source, i), NEW k \in 1 .. Len(result'[source])
          PROVE  result'[source][k] < i
      <3>1. k + 1 \in 1 .. Len(result[source])
        BY <1>6
      <3> QED  BY <1>5, <1>6, <2>2, <3>1 DEF ResultsInv
    <2> QED  BY <1>5, <1>12, <2>1, <2>2 DEF ResultsInv
  <1>16. InOrder'
    <2>1. CASE IsNull(h)
      BY <1>4, <2>1 DEF InOrder
    <2>2. CASE ~ IsNull(h)
      <3> SUFFICES ASSUME NEW k \in 1 .. Len(completed') PROVE completed'[k] = k
        BY DEF InOrder
      <3>1. k \in 1 .. Len(completed) \/ k = Len(completed) + 1
        BY <1>2, <1>7, <2>2
      <3> QED  BY <1>3, <1>7, <2>2, <3>1 DEF InOrder
    <2> QED  BY <2>1, <2>2
  <1> QED  BY <1>9, <1>10, <1>11, <1>14, <1>15, <1>16

LEMMA StepRelease ==
    ASSUME OrderInv, TypeOK', Release
    PROVE  OrderInv'
  <1> USE NumWorkersAssumption, NumTasksAssumption
      DEF OrderInv, Release, makerVars, workerVars
  <1>1. ordered' = ordered /\ offset' = offset /\ consumed' = consumed
        /\ (released' <=> released)
    BY DEF ordered, offset, consumed, ended, released, TypeOK
  <1>2. PlacesInv'
    BY DEF PlacesInv, IsIdle, Targeted
  <1>3. MakerInv'
    BY DEF MakerInv, leftover
  <1>4. CompleterInv'
    BY <1>1 DEF CompleterInv
  <1>5. /\ \A w, i : HasItem(w, i)' <=> HasItem(w, i)
        /\ \A w, i : HasResult(w, i)' <=> HasResult(w, i)
        /\ \A i : AssignedTo(i)' = AssignedTo(i)
    BY <1>1 DEF HasItem, HasResult, AssignedTo
  <1>6. OwnersInv'
    BY <1>1, <1>5 DEF OwnersInv
  <1>7. ResultsInv'
    BY <1>1, <1>5 DEF ResultsInv
  <1>8. InOrder'
    BY DEF InOrder
  <1> QED  BY <1>2, <1>3, <1>4, <1>6, <1>7, <1>8

LEMMA StepOrderInv == OrderInv /\ TypeInv /\ TypeInv' /\ [Next]_vars => OrderInv'
  <1> SUFFICES ASSUME OrderInv, TypeInv, TypeOK', [Next]_vars PROVE OrderInv'
    BY DEF TypeInv
  <1>1. CASE UNCHANGED vars
    <2> USE <1>1 DEF vars, makerVars, workerVars, completerVars
    <2>1. /\ (released' <=> released) /\ ordered' = ordered /\ offset' = offset
          /\ consumed' = consumed
      BY DEF ordered, offset, consumed, ended, released
    <2>2. /\ \A w, i : HasItem(w, i)' <=> HasItem(w, i)
          /\ \A w, i : HasResult(w, i)' <=> HasResult(w, i)
          /\ \A i : AssignedTo(i)' = AssignedTo(i)
      BY <2>1 DEF HasItem, HasResult, AssignedTo
    <2>3. PlacesInv' /\ MakerInv'
      BY DEF OrderInv, PlacesInv, IsIdle, Targeted, MakerInv, leftover
    <2>4. CompleterInv' /\ InOrder'
      BY <2>1 DEF OrderInv, CompleterInv, InOrder
    <2>5. OwnersInv' /\ ResultsInv'
      BY <2>1, <2>2 DEF OrderInv, OwnersInv, ResultsInv
    <2> QED  BY <2>3, <2>4, <2>5 DEF OrderInv
  <1>2. CASE Maker
    BY <1>2, StepMakeTask, StepMakeEnd, StepChooseWorker, StepChooseWorkerEof,
       StepNoneIdle, StepOrder, StepAssign DEF Maker
  <1>3. ASSUME NEW w \in Workers, Worker(w)
        PROVE  OrderInv'
    BY <1>3, StepGetTask, StepSetResult, StepBecomeIdle DEF Worker
  <1>4. CASE Completer
    BY <1>4, StepTakeOrder, StepTakeResult, StepRelease DEF Completer
  <1> QED
    BY <1>1, <1>2, <1>3, <1>4 DEF Next, Terminated

(* The strengthened invariant holds in every reachable state: who has which
   ordinal between the maker's assignment and the completer. *)
THEOREM OrderInvariance == Spec => [](TypeInv /\ OrderInv)
  <1>1. Init => TypeInv /\ OrderInv
    BY InitType, InitOrder
  <1>2. TypeInv /\ OrderInv /\ [Next]_vars => (TypeInv /\ OrderInv)'
    BY StepType, StepOrderInv
  <1> QED  BY <1>1, <1>2, PTL DEF Spec

(* The completer callback gets the results in the order in which the maker
   made the tasks, none lost and none twice, for every number of workers and
   every interleaving of maker, workers and completer. *)
THEOREM ResultsInOrder == Spec => []InOrder
  <1>1. OrderInv => InOrder
    BY DEF OrderInv
  <1> QED  BY <1>1, OrderInvariance, PTL

-----------------------------------------------------------------------------
(* The end.  EofInv: as many workers have got a NULL task as were ordered.
   It changes only where the maker orders a NULL task. *)
LEMMA WorkersFinite == IsFiniteSet(Workers) /\ Cardinality(Workers) = NumWorkers
  BY FS_Interval, NumWorkersAssumption DEF Workers

LEMMA InitEof == Init => EofInv
  <1> SUFFICES ASSUME Init PROVE EofInv
    OBVIOUS
  <1>1. EofSent = {}
    BY DEF Init, EofSent, HasItem
  <1>2. ordered = 0
    BY DEF Init, ordered
  <1> QED  BY <1>1, <1>2, FS_EmptySet, NumTasksAssumption DEF EofInv

LEMMA EofOrder ==
    ASSUME OrderInv, EofInv, Order
    PROVE  EofInv'
  <1> USE NumWorkersAssumption, NumTasksAssumption
  <1>1. /\ made \in Nat /\ ordered' = made /\ ordered = made - 1 /\ target \in Workers
        /\ made \in Ordinals
    BY DEF OrderInv, TypeOK, MakerInv, Order, ordered, Ordinals
  <1>2. /\ \A w, i : HasItem(w, i)' <=> HasItem(w, i) \/ (w = target /\ i = made)
        /\ \A i : ~ HasItem(target, i)
        /\ worker[target] # "done" /\ worker' = worker
    BY <1>1 DEF OrderInv, PlacesInv, Targeted, Order, HasItem, workerVars
  <1>3. target \notin EofSent
    BY <1>2 DEF EofSent
  <1>4. IsFiniteSet(EofSent)
    BY WorkersFinite, FS_Subset DEF EofSent
  <1>5. CASE IsNull(made)
    <2>1. EofSent' = EofSent \cup {target}
      BY <1>1, <1>2, <1>5 DEF EofSent, IsNull
    <2>2. Cardinality(EofSent') = Cardinality(EofSent) + 1
      BY <1>3, <1>4, <2>1, FS_AddElement
    <2> QED  BY <1>1, <1>5, <2>2 DEF EofInv, IsNull
  <1>6. CASE ~ IsNull(made)
    <2>1. EofSent' = EofSent
      BY <1>1, <1>2, <1>6 DEF EofSent, IsNull
    <2> QED  BY <1>1, <1>6, <2>1 DEF EofInv, IsNull
  <1> QED  BY <1>5, <1>6

(* Every other step leaves the set as it is. *)
LEMMA EofSame ==
    ASSUME EofInv, ordered' = ordered,
           \A w \in Workers : (w \in EofSent)' <=> w \in EofSent
    PROVE  EofInv'
  <1>1. EofSent' = EofSent
    BY DEF EofSent
  <1> QED  BY <1>1 DEF EofInv

LEMMA StepEof == OrderInv /\ TypeInv /\ EofInv /\ [Next]_vars => EofInv'
  <1> SUFFICES ASSUME OrderInv, TypeInv, EofInv, [Next]_vars PROVE EofInv'
    OBVIOUS
  <1> USE NumWorkersAssumption, NumTasksAssumption DEF OrderInv
  <1>1. CASE MakeTask \/ MakeEnd \/ ChooseWorker \/ ChooseWorkerEof \/ NoneIdle
    <2>1. /\ ordered' = ordered /\ worker' = worker
          /\ \A w, i : HasItem(w, i)' <=> HasItem(w, i)
      <3>1. /\ UNCHANGED << worker, task, item >> /\ ordered' = ordered
            /\ maker # "assign" /\ maker' # "assign"
        BY <1>1, SMTT(20) DEF MakeTask, MakeEnd, ChooseWorker, ChooseWorkerEof, NoneIdle, TakeIdle,
                              workerVars, ordered, TypeOK
      <3> QED  BY <3>1 DEF HasItem
    <2> QED  BY <2>1, EofSame DEF EofSent
  <1>2. CASE Order
    BY <1>2, EofOrder
  <1>3. CASE Assign
    <2>1. /\ ordered' = ordered /\ worker' = worker
          /\ task[target] = << >> /\ target \in Workers
      BY <1>3 DEF Assign, workerVars, ordered, TypeOK, PlacesInv, Targeted
    <2>2. /\ task'[target] # << >> /\ task'[target][1] = made
          /\ \A w \in Workers : w # target => task'[w] = task[w]
      BY <1>3, <2>1 DEF Assign, TypeOK
    <2>3. \A w \in Workers : \A i : HasItem(w, i)' <=> HasItem(w, i)
      BY <1>3, <2>1, <2>2 DEF Assign, workerVars, HasItem
    <2> QED  BY <2>1, <2>3, EofSame DEF EofSent
  <1>4. ASSUME NEW v \in Workers, GetTask(v)
        PROVE  EofInv'
    <2>1. ordered' = ordered /\ Len(task[v]) = 1 /\ ~ Targeted(v) /\ task[v] \in Seq(Ordinals)
      BY <1>4 DEF GetTask, makerVars, ordered, PlacesInv, TypeOK
    <2>2. /\ task'[v] = << >> /\ item'[v] = task[v][1] /\ worker'[v] = "result"
          /\ \A w \in Workers : w # v => /\ task'[w] = task[w] /\ item'[w] = item[w]
                                        /\ worker'[w] = worker[w]
      BY <1>4, <2>1, Singleton DEF GetTask, TypeOK
    <2>3. \A w \in Workers : \A i : HasItem(w, i)' <=> HasItem(w, i)
      BY <1>4, <2>1, <2>2 DEF GetTask, makerVars, HasItem
    <2>4. \A w \in Workers : (worker'[w] = "done") <=> (worker[w] = "done")
      BY <1>4, <2>2 DEF GetTask
    <2> QED  BY <2>1, <2>3, <2>4, EofSame DEF EofSent
  <1>5. ASSUME NEW v \in Workers, SetResult(v)
        PROVE  EofInv'
    <2>1. /\ ordered' = ordered /\ task[v] = << >> /\ ~ Targeted(v)
          /\ item[v] \in Ordinals
      BY <1>5 DEF SetResult, makerVars, ordered, PlacesInv, TypeInv
    <2>2. /\ (worker'[v] = "done") <=> IsNull(item[v])
          /\ worker'[v] # "result" /\ worker[v] = "result"
          /\ \A w \in Workers : w # v => worker'[w] = worker[w]
      BY <1>5 DEF SetResult, TypeOK
    <2>3. \A w \in Workers : \A i : w # v => (HasItem(w, i)' <=> HasItem(w, i))
      BY <1>5, <2>2 DEF SetResult, makerVars, HasItem
    <2>4. \A i : ~ HasItem(v, i)' /\ (HasItem(v, i) <=> i = item[v])
      BY <1>5, <2>1, <2>2 DEF SetResult, makerVars, HasItem, Targeted
    <2>5. \A w \in Workers : (w \in EofSent)' <=> w \in EofSent
      BY <2>1, <2>2, <2>3, <2>4 DEF EofSent
    <2> QED  BY <2>1, <2>5, EofSame
  <1>6. ASSUME NEW v \in Workers, BecomeIdle(v)
        PROVE  EofInv'
    <2>1. /\ ordered' = ordered /\ worker'[v] = "get" /\ worker[v] = "idle"
          /\ \A w \in Workers : w # v => worker'[w] = worker[w]
      BY <1>6 DEF BecomeIdle, makerVars, ordered, TypeOK
    <2>2. /\ \A w \in Workers : \A i : HasItem(w, i)' <=> HasItem(w, i)
          /\ \A w \in Workers : (worker'[w] = "done") <=> (worker[w] = "done")
      BY <1>6, <2>1 DEF BecomeIdle, makerVars, HasItem
    <2> QED  BY <2>1, <2>2, EofSame DEF EofSent
  <1>7. CASE Completer \/ UNCHANGED vars
    <2>1. /\ ordered' = ordered /\ worker' = worker
          /\ \A w, i : HasItem(w, i)' <=> HasItem(w, i)
      BY <1>7 DEF Completer, TakeOrder, TakeResult, Release, vars, makerVars, workerVars,
                  HasItem, ordered
    <2> QED  BY <2>1, EofSame DEF EofSent
  <1> QED
    BY <1>1, <1>2, <1>3, <1>4, <1>5, <1>6, <1>7 DEF Next, Maker, Worker, Terminated

(* The inductive invariant implies that nobody is left when the completer
   releases the rings. *)
LEMMA InvQuiet == OrderInv /\ EofInv => QuietAtRelease
  <1> SUFFICES ASSUME OrderInv, EofInv, released PROVE QuietAtRelease
    BY DEF QuietAtRelease, released
  <1> USE NumWorkersAssumption, NumTasksAssumption
  <1>1. /\ Len(completed) \in Nat /\ Len(completed) <= NumTasks
        /\ ~ (Len(completed) < NumTasks)
        /\ Len(pickup) \in Nat /\ pickup \in Seq(Workers)
    BY DEF OrderInv, CompleterInv, TypeOK
  <1>2. Len(completed) = NumTasks /\ consumed = NumTasks + NumWorkers
    BY <1>1 DEF consumed, ended
  <1>3. made \in Nat /\ made <= NumTasks + NumWorkers
    BY DEF OrderInv, TypeOK
  <1>4. /\ Len(pickup) = 0 /\ ordered = NumTasks + NumWorkers /\ ordered = made
    <2>1. offset + Len(pickup) = ordered
      BY DEF OrderInv, CompleterInv
    <2> QED  BY <1>1, <1>2, <1>3, <2>1, Counters
  <1>5. \A w \in Workers : \A i \in Ordinals : ~ HasItem(w, i) /\ ~ HasResult(w, i)
    <2>1. consumed + 1 .. ordered = {}
      BY <1>2, <1>4
    <2> QED  BY <2>1 DEF OrderInv, OwnersInv
  <1>6. ASSUME NEW w \in Workers
        PROVE  task[w] = << >> /\ result[w] = << >>
    <2>1. task[w] \in Seq(Ordinals) /\ result[w] \in Seq(Ordinals)
      BY DEF OrderInv, TypeOK
    <2>2. task[w] # << >> => HasItem(w, task[w][1]) /\ task[w][1] \in Ordinals
      BY <2>1 DEF HasItem
    <2>3. result[w] # << >> => HasResult(w, result[w][1]) /\ result[w][1] \in Ordinals
      BY <2>1 DEF HasResult
    <2> QED  BY <1>5, <2>2, <2>3
  <1>7. maker = "done"
    <2>1. maker \in {"next", "idle", "order", "assign", "done"}
      BY DEF OrderInv, TypeOK
    <2>2. maker \notin {"idle", "order"}
      BY <1>3, <1>4 DEF ordered
    <2>3. maker # "assign"
      <3>1. made \in Ordinals /\ target \in Workers
        BY <1>4 DEF Ordinals, OrderInv, TypeOK
      <3> QED  BY <3>1, <1>5 DEF HasItem
    <2>4. maker # "next"
      BY <1>4 DEF OrderInv, MakerInv, leftover
    <2> QED  BY <2>1, <2>2, <2>3, <2>4
  <1>8. \A w \in Workers : worker[w] = "done"
    <2>1. EofSent \subseteq Workers /\ Cardinality(EofSent) = NumWorkers
      BY <1>4 DEF EofInv, EofSent
    <2>2. EofSent = Workers
      BY <2>1, WorkersFinite, FS_Subset
    <2> QED  BY <2>2, <1>5 DEF EofSent
  <1>9. worker_idle = << >>
    <2>1. worker_idle \in Seq(Workers)
      BY DEF OrderInv, TypeOK
    <2>2. worker_idle # << >> => worker_idle[1] \in Workers /\ IsIdle(worker_idle[1])
      BY <2>1 DEF IsIdle
    <2> QED  BY <1>8, <2>2 DEF OrderInv, PlacesInv
  <1>10. pickup = << >>
    BY <1>1, <1>4, EmptySeq
  <1> QED  BY <1>2, <1>6, <1>7, <1>8, <1>9, <1>10 DEF QuietAtRelease

(* When the completer releases the coordinator, every ring is empty and the
   maker and the workers have ended: none of them touches freed rings. *)
THEOREM ReleaseIsQuiet == Spec => []QuietAtRelease
  <1>1. Spec => []EofInv
    <2>1. Spec => [](TypeInv /\ OrderInv)
      BY OrderInvariance
    <2> QED  BY <2>1, InitEof, StepEof, PTL DEF Spec
  <1> QED  BY <1>1, OrderInvariance, InvQuiet, PTL

-----------------------------------------------------------------------------
(* Backpressure.  What is under way is in the ring `pickup`, with the maker
   before it or with the completer behind it. *)
PickupInv == Len(pickup) <= PickupCapacity

LEMMA StepPickup == TypeInv /\ PickupInv /\ [Next]_vars => PickupInv'
  <1> SUFFICES ASSUME TypeInv, PickupInv, [Next]_vars PROVE PickupInv'
    OBVIOUS
  <1> USE NumWorkersAssumption DEF PickupInv, PickupCapacity, TypeInv, TypeOK
  <1>1. CASE Order
    BY <1>1 DEF Order
  <1>2. CASE TakeOrder
    BY <1>2 DEF TakeOrder
  <1>3. CASE UNCHANGED pickup
    BY <1>3
  <1> QED
    BY <1>1, <1>2, <1>3 DEF Next, Maker, MakeTask, MakeEnd, ChooseWorker, ChooseWorkerEof, TakeIdle,
         NoneIdle, Assign, Worker, GetTask, SetResult, BecomeIdle, Completer, TakeResult,
         Release, Terminated, vars

(* A worker that is in the ring of idle workers is there once. *)
LEMMA IdleBound == ASSUME OrderInv PROVE Len(worker_idle) <= NumWorkers
  <1>1. /\ worker_idle \in Seq(Workers) /\ Len(worker_idle) \in Nat
        /\ \A j, k \in 1 .. Len(worker_idle) : worker_idle[j] = worker_idle[k] => j = k
    BY DEF OrderInv, TypeOK, PlacesInv
  <1> DEFINE n == Len(worker_idle)
  <1>2. IsFiniteSet(1 .. n) /\ Cardinality(1 .. n) = n
    <2> HIDE DEF n
    <2>1. n \in Int /\ n >= 0
      BY <1>1 DEF n
    <2> QED  BY <2>1, FS_Interval
  <1>3. worker_idle \in [1 .. Len(worker_idle) -> Workers]
    BY <1>1
  <1>4. ~ Cardinality(Workers) < Cardinality(1 .. Len(worker_idle))
    BY <1>1, <1>2, <1>3, WorkersFinite, FS_PigeonHole
  <1> QED  BY <1>1, <1>2, <1>4, WorkersFinite, NumWorkersAssumption

(* A slow completer holds the maker back, and no worker another worker. *)
THEOREM HoldsBack == Spec => []Backpressure
  <1>1. Spec => []PickupInv
    <2>1. Init => PickupInv
      BY NumWorkersAssumption DEF Init, PickupInv, PickupCapacity
    <2>2. Spec => [](TypeInv /\ OrderInv)
      BY OrderInvariance
    <2> QED  BY <2>1, <2>2, StepPickup, PTL DEF Spec
  <1>2. OrderInv /\ PickupInv => Backpressure
    <2> SUFFICES ASSUME OrderInv, PickupInv PROVE Backpressure
      OBVIOUS
    <2> USE NumWorkersAssumption, NumTasksAssumption
    <2>1. /\ Len(completed) \in Nat /\ Len(pickup) \in Nat /\ made \in Nat
          /\ active \in 1 .. NumWorkers /\ made <= NumTasks + NumWorkers
      BY DEF OrderInv, TypeOK
    <2>2. made - Len(completed) <= NumWorkers + 2 + NumWorkers - active
      <3>1. CASE released
        BY <2>1, <3>1 DEF OrderInv, CompleterInv
      <3>2. CASE ~ released
        <4>1. consumed = Len(completed) + NumWorkers - active
          BY <2>1, <3>2 DEF consumed, ended
        <4>2. offset + Len(pickup) = ordered /\ Len(pickup) <= NumWorkers
          BY DEF OrderInv, CompleterInv, PickupInv, PickupCapacity
        <4>3. made <= ordered + 1
          BY <2>1 DEF ordered
        <4>4. offset \in Nat /\ offset <= consumed + 1
          BY Counters
        <4>5. ordered \in Nat /\ consumed \in Nat
          BY Counters
        <4> QED  BY <2>1, <4>1, <4>2, <4>3, <4>4, <4>5
      <3> QED  BY <3>1, <3>2
    <2>3. ASSUME NEW w \in Workers PROVE Len(task[w]) <= 1
      <3>1. CASE task[w] = << >>
        BY <3>1
      <3>2. CASE task[w] # << >>
        <4>1. Len(task[w]) = 1
          BY <3>2 DEF OrderInv, PlacesInv
        <4> QED  BY <4>1
      <3> QED  BY <3>1, <3>2
    <2> QED  BY <2>2, <2>3, IdleBound DEF Backpressure
  <1> QED  BY <1>1, <1>2, OrderInvariance, PTL

-----------------------------------------------------------------------------
(* Refinement.  A batch run makes, completes and returns as the service does,
   the completions in order; all other steps cannot be seen. *)
THEOREM ImplementsService == Spec => Batch!Spec
  <1> USE NumWorkersAssumption, NumTasksAssumption
  <1> DEFINE Made == IF made > NumTasks THEN NumTasks ELSE made
             Over == completer = "returned"
  <1>1. Init => Batch!Init
    BY DEF Init, Batch!Init
  <1>2. TypeInv /\ OrderInv /\ (TypeInv /\ OrderInv)' /\ [Next]_vars => [Batch!Next]_(Batch!vars)
    <2> SUFFICES ASSUME TypeInv, OrderInv, OrderInv', [Next]_vars
                 PROVE  Batch!Next \/ UNCHANGED << Made, completed, Over >>
      BY DEF Batch!vars
    <2>0. /\ made \in Nat /\ Len(completed) \in Nat /\ active \in 1 .. NumWorkers
          /\ consumed \in Nat /\ offset \in Nat /\ ordered \in Nat
          /\ consumed <= ordered /\ ordered <= made /\ Len(completed) <= consumed
      <3>0. /\ made \in 0 .. NumTasks + NumWorkers /\ active \in 1 .. NumWorkers
            /\ completed \in Seq(Ordinals)
        BY DEF OrderInv, TypeOK
      <3>1. /\ made \in Nat /\ Len(completed) \in Nat /\ active \in 1 .. NumWorkers
            /\ maker \in {"idle", "order"} => made >= 1
        BY <3>0 DEF OrderInv, MakerInv
      <3>2. ordered <= made /\ Len(completed) <= consumed
        BY <3>1 DEF ordered, consumed, ended
      <3>3. /\ consumed \in Nat /\ offset \in Nat /\ ordered \in Nat
            /\ offset = consumed \/ offset = consumed + 1
            /\ offset <= ordered
        BY Counters
      <3> QED  BY <3>1, <3>2, <3>3
    <2>1. CASE MakeTask
      <3>1. ~ Over
        BY <2>0, <2>1 DEF MakeTask, OrderInv, CompleterInv, released
      <3>2. Made < NumTasks /\ Made' = Made + 1
        BY <2>0, <2>1 DEF MakeTask
      <3>3. UNCHANGED << completed, Over >>
        BY <2>1 DEF MakeTask, completerVars
      <3> QED  BY <3>1, <3>2, <3>3 DEF Batch!Next, Batch!Make
    <2>2. CASE ChooseWorkerEof
      <3>1. made >= NumTasks /\ made' = made + 1
        BY <2>2 DEF ChooseWorkerEof, OrderInv, MakerInv
      <3> QED  BY <2>0, <2>2, <3>1 DEF ChooseWorkerEof, TakeIdle, completerVars
    <2>3. CASE TakeResult
      <3>1. ~ Over /\ Made' = Made /\ ~ Over'
        BY <2>3 DEF TakeResult, makerVars
      <3>2. CASE ~ IsNull(Head(result[source]))
        <4> DEFINE t == Head(result[source])
        <4>1. completed' = Append(completed, t) /\ completed \in Seq(Ordinals) /\ t \in Ordinals
          BY <2>3, <3>2 DEF TakeResult, OrderInv, TypeOK
        <4>2. t = consumed + 1 /\ offset = consumed + 1 /\ offset <= ordered
          BY <2>3, HeadIsNext, Counters DEF TakeResult
        <4>3. t = Len(completed) + 1
          <5>1. completed' \in Seq(Ordinals) /\ Len(completed') = Len(completed) + 1
                /\ completed'[Len(completed) + 1] = t
            BY <2>0, <4>1
          <5>2. completed'[Len(completed) + 1] = Len(completed) + 1
            BY <2>0, <5>1 DEF OrderInv, InOrder
          <5> QED  BY <5>1, <5>2
        <4>4. t <= NumTasks /\ t <= made
          BY <2>0, <3>2, <4>1, <4>2 DEF IsNull, Ordinals
        <4>5. PICK u \in 1 .. NumTasks : u = t
          BY <4>1, <4>4 DEF Ordinals
        <4>6. ~ Batch!IsCompleted(u)
          BY <2>0, <4>3, <4>5 DEF Batch!IsCompleted, OrderInv, InOrder
        <4>7. Batch!Complete(u)
          BY <2>0, <3>1, <4>1, <4>3, <4>4, <4>5, <4>6 DEF Batch!Complete
        <4> QED  BY <4>7 DEF Batch!Next
      <3>3. CASE IsNull(Head(result[source]))
        BY <2>3, <3>1, <3>3 DEF TakeResult
      <3> QED  BY <3>2, <3>3
    <2>4. CASE Release
      <3>1. ~ Over /\ Over' /\ UNCHANGED << Made, completed >>
        BY <2>4 DEF Release, makerVars
      <3>2. Len(completed) = NumTasks
        BY <2>0, <2>4 DEF Release, OrderInv, CompleterInv, released
      <3> QED  BY <3>1, <3>2 DEF Batch!Next, Batch!Return
    <2>5. CASE UNCHANGED << made, completed >> /\ (completer = "returned")' = (completer = "returned")
      BY <2>5
    <2> QED
      BY <2>1, <2>2, <2>3, <2>4, <2>5
         DEF Next, Maker, MakeEnd, ChooseWorker, TakeIdle, NoneIdle, Order, Assign, Worker, GetTask,
             SetResult, BecomeIdle, Completer, TakeOrder, Terminated, vars, makerVars, completerVars
  <1> QED  BY <1>1, <1>2, OrderInvariance, PTL DEF Spec, Batch!Spec
=============================================================================
