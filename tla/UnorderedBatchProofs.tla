------------------------- MODULE UnorderedBatchProofs -------------------------
(***************************************************************************)
(* For any number of workers and tasks under the unordered coordinator:    *)
(* every task is completed once, and the rings are released when they are  *)
(* empty and no thread is left to use them.                                *)
(*                                                                         *)
(* The regular ring is first in, first out, with all NULL tasks behind all *)
(* tasks, so that what has been taken from it is known by its number: the  *)
(* tasks up to some point, or all of them and so many NULL tasks, each the *)
(* last of another worker.  A worker puts its NULL result behind its other *)
(* results, so that the last NULL result is behind all results.            *)
(***************************************************************************)
EXTENDS UnorderedBatch, FiniteSetTheorems, SequenceTheorems, TLAPS

Tasks == 1 .. NumTasks

Types == /\ regular_tasks \in Seq(Tasks \cup {Eof})
         /\ priority_tasks = << >>
         /\ results \in Seq(Tasks \cup {Eof})
         /\ active \in 1 .. NumWorkers
         /\ worker \in [Workers -> {"priority", "regular", "work", "done"}]
         /\ item \in [Workers -> Tasks \cup {Eof}]
         /\ made \in 0 .. NumTasks
         /\ eofs \in 0 .. NumWorkers
         /\ completer \in {"results", "release", "returned"}
         /\ completed \in Seq(Tasks)

(* How many entries the workers have taken from the regular ring, and what the
   maker's k-th entry is. *)
taken    == made + eofs - Len(regular_tasks)
Given(k) == IF k <= NumTasks THEN k ELSE Eof

RegularInv == /\ taken >= 0
              /\ eofs > 0 => made = NumTasks
              /\ \A i \in 1 .. Len(regular_tasks) : regular_tasks[i] = Given(taken + i)

(* Each NULL task is the last task of a worker of its own. *)
EofTaken == {w \in Workers : worker[w] = "done" \/ (worker[w] = "work" /\ item[w] = Eof)}

TakenInv == Cardinality(EofTaken) = IF taken > NumTasks THEN taken - NumTasks ELSE 0

(* Each worker that is done has put a NULL result, the completer counts them. *)
Done         == {w \in Workers : worker[w] = "done"}
EofsIn(ring) == {i \in 1 .. Len(ring) : ring[i] = Eof}
ended        == IF completer = "results" THEN NumWorkers - active ELSE NumWorkers

DoneInv == /\ Cardinality(EofsIn(results)) + ended = Cardinality(Done)
           /\ results # << >> /\ results[Len(results)] # Eof => Done # Workers
           /\ completer # "results" => active = 1

(* A task that was taken is with one worker, or in one result, or completed
   once. *)
WorksOn(w, t) == worker[w] = "work" /\ item[w] = t

OnceInv == \A t \in Tasks :
    /\ \A v, w \in Workers : WorksOn(v, t) /\ WorksOn(w, t) => v = w
    /\ \A i, j \in 1 .. Len(results) : results[i] = t /\ results[j] = t => i = j
    /\ \A i, j \in 1 .. Len(completed) : completed[i] = t /\ completed[j] = t => i = j
    /\ \A w \in Workers : \A i \in 1 .. Len(results) : ~ (WorksOn(w, t) /\ results[i] = t)
    /\ \A w \in Workers : \A i \in 1 .. Len(completed) : ~ (WorksOn(w, t) /\ completed[i] = t)
    /\ \A i \in 1 .. Len(results) : \A j \in 1 .. Len(completed) : ~ (results[i] = t /\ completed[j] = t)
    /\ t <= taken <=> \/ \E w \in Workers : WorksOn(w, t)
                      \/ \E i \in 1 .. Len(results) : results[i] = t
                      \/ \E i \in 1 .. Len(completed) : completed[i] = t

IInv == Types /\ RegularInv /\ TakenInv /\ DoneInv /\ OnceInv

-----------------------------------------------------------------------------
(* Facts about the number of workers, and about the rings. *)
LEMMA WorkerCount == NumWorkers \in Nat \ {0}
  BY WorkersAssumption, FS_CardinalityType, FS_EmptySet DEF NumWorkers

LEMMA Subsets ==
    ASSUME NEW W \in SUBSET Workers
    PROVE  /\ IsFiniteSet(W) /\ Cardinality(W) \in Nat
           /\ Cardinality(W) <= NumWorkers
           /\ Cardinality(W) = NumWorkers => W = Workers
  BY WorkersAssumption, FS_CardinalityType, FS_Subset DEF NumWorkers

LEMMA Appended ==
    ASSUME NEW S, NEW q \in Seq(S), NEW x \in S
    PROVE  /\ Append(q, x) \in Seq(S)
           /\ Len(q) \in Nat /\ Len(Append(q, x)) = Len(q) + 1
           /\ \A i \in 1 .. Len(q) : Append(q, x)[i] = q[i]
           /\ Append(q, x)[Len(q) + 1] = x
  OBVIOUS

LEMMA Taken ==
    ASSUME NEW S, NEW q \in Seq(S), q # << >>
    PROVE  /\ Tail(q) \in Seq(S)
           /\ Len(q) \in Nat \ {0} /\ Len(Tail(q)) = Len(q) - 1
           /\ Head(q) = q[1] /\ Head(q) \in S
           /\ \A i \in 1 .. Len(q) - 1 : Tail(q)[i] = q[i + 1]
  OBVIOUS

LEMMA EofsFinite ==
    ASSUME NEW q \in Seq(Tasks \cup {Eof})
    PROVE  IsFiniteSet(EofsIn(q)) /\ Cardinality(EofsIn(q)) \in Nat
  <1>1. Len(q) \in Int /\ 1 \in Int
    OBVIOUS
  <1>2. IsFiniteSet(1 .. Len(q))
    BY <1>1, FS_Interval
  <1>3. EofsIn(q) \in SUBSET (1 .. Len(q))
    BY DEF EofsIn
  <1> QED  BY <1>2, <1>3, FS_Subset, FS_CardinalityType

LEMMA EofsAppended ==
    ASSUME NEW q \in Seq(Tasks \cup {Eof}), NEW x \in Tasks \cup {Eof}
    PROVE  Cardinality(EofsIn(Append(q, x))) =
               IF x = Eof THEN Cardinality(EofsIn(q)) + 1 ELSE Cardinality(EofsIn(q))
  <1>1. Len(q) + 1 \notin EofsIn(q)
    BY DEF EofsIn
  <1>2. EofsIn(Append(q, x)) = IF x = Eof THEN EofsIn(q) \cup {Len(q) + 1} ELSE EofsIn(q)
    BY Appended DEF EofsIn
  <1> QED  BY <1>1, <1>2, EofsFinite, FS_AddElement

LEMMA EofsTaken ==
    ASSUME NEW q \in Seq(Tasks \cup {Eof}), q # << >>
    PROVE  Cardinality(EofsIn(Tail(q))) =
               IF Head(q) = Eof THEN Cardinality(EofsIn(q)) - 1 ELSE Cardinality(EofsIn(q))
  <1> DEFINE T == EofsIn(Tail(q))
             U == EofsIn(q) \ {1}
             shift == [i \in T |-> i + 1]
  <1>1. /\ Len(q) \in Nat \ {0} /\ Len(Tail(q)) = Len(q) - 1 /\ Head(q) = q[1]
        /\ \A i \in 1 .. Len(q) - 1 : Tail(q)[i] = q[i + 1]
        /\ Tail(q) \in Seq(Tasks \cup {Eof})
    BY Taken
  <1>2. shift \in Bijection(T, U)
    <2>1. \A i \in T : i \in Nat /\ i + 1 \in U
      BY <1>1 DEF EofsIn
    <2>2. ASSUME NEW j \in U PROVE j - 1 \in T /\ j = (j - 1) + 1
      BY <1>1 DEF EofsIn
    <2>3. shift \in [T -> U] /\ \A i, j \in T : shift[i] = shift[j] => i = j
      BY <2>1
    <2>4. \A j \in U : \E i \in T : shift[i] = j
      BY <2>2
    <2> QED  BY <2>3, <2>4 DEF Bijection, Injection, Surjection, IsInjective
  <1>3. IsFiniteSet(T) /\ Cardinality(U) = Cardinality(T)
    BY <1>1, <1>2, EofsFinite, FS_Bijection DEF ExistsBijection
  <1>4. Cardinality(U) = IF 1 \in EofsIn(q) THEN Cardinality(EofsIn(q)) - 1
                                            ELSE Cardinality(EofsIn(q))
    BY EofsFinite, FS_RemoveElement
  <1>5. 1 \in EofsIn(q) <=> Head(q) = Eof
    BY <1>1 DEF EofsIn
  <1> QED  BY <1>3, <1>4, <1>5

-----------------------------------------------------------------------------
LEMMA InitInv == Init => IInv
  <1> SUFFICES ASSUME Init PROVE IInv
    OBVIOUS
  <1> USE NumTasksAssumption DEF Init, InitCoordinator
  <1>1. Types
    BY WorkerCount DEF Types
  <1>2. RegularInv
    BY DEF RegularInv, taken
  <1>3. TakenInv
    <2>1. EofTaken = {}
      BY DEF EofTaken
    <2> QED  BY <2>1, FS_EmptySet DEF TakenInv, taken
  <1>4. DoneInv
    <2>1. EofsIn(results) = {} /\ Done = {}
      BY DEF EofsIn, Done
    <2> QED  BY <2>1, FS_EmptySet, WorkerCount DEF DoneInv, ended
  <1>5. OnceInv
    BY DEF OnceInv, WorksOn, taken, Tasks
  <1> QED  BY <1>1, <1>2, <1>3, <1>4, <1>5 DEF IInv

(* The maker puts the next entry, a task or a NULL task. *)
LEMMA StepMaker == ASSUME IInv, Maker PROVE IInv'
  <1> USE NumTasksAssumption, EofAssumption DEF IInv
  <1> DEFINE k == made + eofs + 1
  <1>0. /\ made \in 0 .. NumTasks /\ eofs \in 0 .. NumWorkers /\ NumWorkers \in Nat \ {0}
        /\ Len(regular_tasks) \in Nat /\ taken \in Nat
    BY WorkerCount DEF Types, RegularInv, taken
  <1>1. /\ GenRegular(Given(k)) /\ Given(k) \in Tasks \cup {Eof}
        /\ made' \in 0 .. NumTasks /\ eofs' \in 0 .. NumWorkers
        /\ \/ made' = made + 1 /\ eofs' = eofs
           \/ made' = made /\ eofs' = eofs + 1
        /\ eofs' > 0 => made' = NumTasks
        /\ UNCHANGED << completer, completed >>
    <2>1. CASE MakeTask
      <3>1. eofs = 0
        BY <1>0, <2>1 DEF MakeTask, RegularInv
      <3> QED  BY <1>0, <2>1, <3>1 DEF MakeTask, Given, Tasks
    <2>2. CASE MakeEof
      <3>1. Given(k) = Eof
        BY <1>0, <2>2 DEF MakeEof, Given
      <3> QED  BY <1>0, <2>2, <3>1 DEF MakeEof
    <2> QED  BY <2>1, <2>2 DEF Maker
  <1>2. /\ regular_tasks' = Append(regular_tasks, Given(k))
        /\ UNCHANGED << priority_tasks, results, active, worker, item >>
    BY <1>1 DEF GenRegular, workerVars
  <1>3. /\ regular_tasks' \in Seq(Tasks \cup {Eof}) /\ Len(regular_tasks') = Len(regular_tasks) + 1
        /\ \A i \in 1 .. Len(regular_tasks) : regular_tasks'[i] = regular_tasks[i]
        /\ regular_tasks'[Len(regular_tasks) + 1] = Given(k)
    BY <1>1, <1>2, Appended DEF Types
  <1>4. taken' = taken
    <2>1. CASE made' = made + 1 /\ eofs' = eofs
      <3>1. taken' = (made + 1) + (eofs - (Len(regular_tasks) + 1))
        BY <1>3, <2>1 DEF taken
      <3> QED  BY <1>0, <3>1 DEF taken
    <2>2. CASE made' = made /\ eofs' = eofs + 1
      <3>1. taken' = made + ((eofs + 1) - (Len(regular_tasks) + 1))
        BY <1>3, <2>2 DEF taken
      <3> QED  BY <1>0, <3>1 DEF taken
    <2> QED  BY <1>1, <2>1, <2>2
  <1>5. Types'
    BY <1>1, <1>2, <1>3 DEF Types
  <1>6. RegularInv'
    <2>1. ASSUME NEW i \in 1 .. Len(regular_tasks) + 1
          PROVE  regular_tasks'[i] = Given(taken + i)
      <3>1. CASE i \in 1 .. Len(regular_tasks)
        BY <1>3, <3>1 DEF RegularInv
      <3>2. CASE i = Len(regular_tasks) + 1
        <4>1. taken + i = k
          BY <1>0, <3>2 DEF taken
        <4> QED  BY <1>3, <3>2, <4>1
      <3> QED  BY <1>0, <3>1, <3>2
    <2>2. \A n : Given(n)' = Given(n)
      BY DEF Given
    <2> QED  BY <1>0, <1>1, <1>3, <1>4, <2>1, <2>2 DEF RegularInv
  <1>7. TakenInv' /\ DoneInv' /\ OnceInv'
    BY <1>1, <1>2, <1>4 DEF TakenInv, EofTaken, DoneInv, EofsIn, ended, Done, OnceInv, WorksOn
  <1> QED  BY <1>5, <1>6, <1>7

(* A poll that finds nothing: the priority ring is always empty. *)
LEMMA StepPollNothing ==
    ASSUME IInv, NEW w \in Workers, PollPriority(w) \/ (PollRegular(w) /\ regular_tasks = << >>),
           UNCHANGED << made, eofs, completer, completed >>
    PROVE  IInv'
  <1> USE DEF IInv
  <1>1. /\ worker[w] \in {"priority", "regular"}
        /\ \E place \in {"priority", "regular"} : worker' = [worker EXCEPT ![w] = place]
        /\ UNCHANGED << rings, active, item >>
    BY DEF PollPriority, PollRegular, Types, rings
  <1>2. Types'
    BY <1>1 DEF Types, rings
  <1>3. /\ \A v \in Workers : worker'[v] = "work" <=> worker[v] = "work"
        /\ \A v \in Workers : worker'[v] = "done" <=> worker[v] = "done"
    BY <1>1 DEF Types
  <1>4. RegularInv' /\ TakenInv'
    <2>1. EofTaken' = EofTaken /\ taken' = taken
      BY <1>1, <1>3 DEF EofTaken, taken, rings
    <2> QED  BY <1>1, <2>1 DEF RegularInv, TakenInv, Given, rings
  <1>5. DoneInv'
    <2>1. Done' = Done
      BY <1>3 DEF Done
    <2> QED  BY <1>1, <2>1 DEF DoneInv, EofsIn, ended, rings
  <1>6. OnceInv'
    <2>1. \A v \in Workers : \A t \in Tasks : WorksOn(v, t)' <=> WorksOn(v, t)
      BY <1>1, <1>3 DEF WorksOn
    <2> QED  BY <1>1, <2>1 DEF OnceInv, taken, rings
  <1> QED  BY <1>2, <1>4, <1>5, <1>6

(* A worker takes the next entry of the regular ring. *)
LEMMA StepTake ==
    ASSUME IInv, NEW v \in Workers, PollRegular(v), regular_tasks # << >>,
           UNCHANGED << made, eofs, completer, completed >>
    PROVE  IInv'
  <1> USE NumTasksAssumption, EofAssumption DEF IInv
  <1> DEFINE x == Head(regular_tasks)
  <1>0. /\ made \in 0 .. NumTasks /\ eofs \in 0 .. NumWorkers /\ NumWorkers \in Nat \ {0}
        /\ Len(regular_tasks) \in Nat /\ taken \in Nat
        /\ regular_tasks \in Seq(Tasks \cup {Eof})
    BY WorkerCount DEF Types, RegularInv, taken
  <1>1. /\ worker[v] = "regular" /\ worker' = [worker EXCEPT ![v] = "work"]
        /\ item' = [item EXCEPT ![v] = x]
        /\ regular_tasks' = Tail(regular_tasks)
        /\ UNCHANGED << priority_tasks, results, active >>
    BY DEF PollRegular
  <1>2. /\ regular_tasks' \in Seq(Tasks \cup {Eof}) /\ Len(regular_tasks') = Len(regular_tasks) - 1
        /\ Len(regular_tasks) \in Nat \ {0} /\ x = regular_tasks[1] /\ x \in Tasks \cup {Eof}
        /\ \A i \in 1 .. Len(regular_tasks) - 1 : regular_tasks'[i] = regular_tasks[i + 1]
    BY <1>0, <1>1, Taken
  <1>3. taken' = taken + 1
    BY <1>0, <1>2 DEF taken
  <1>4. x = Given(taken + 1)
    BY <1>2 DEF RegularInv
  <1>5. x \in Tasks => x = taken + 1 /\ taken + 1 <= NumTasks
    BY <1>4 DEF Given, Tasks
  <1>6. x = Eof <=> taken + 1 > NumTasks
    BY <1>0, <1>4 DEF Given
  <1>7. Types'
    BY <1>1, <1>2 DEF Types
  <1>8. RegularInv'
    <2>1. ASSUME NEW i \in 1 .. Len(regular_tasks) - 1
          PROVE  regular_tasks'[i] = Given(taken + 1 + i)
      <3>1. i + 1 \in 1 .. Len(regular_tasks) /\ taken + (i + 1) = taken + 1 + i
        BY <1>0, <1>2
      <3> QED  BY <1>2, <3>1 DEF RegularInv
    <2>2. \A n : Given(n)' = Given(n)
      BY DEF Given
    <2> QED  BY <1>0, <1>2, <1>3, <2>1, <2>2 DEF RegularInv
  <1>9. /\ worker'[v] = "work" /\ item'[v] = x
        /\ \A w \in Workers \ {v} : worker'[w] = worker[w] /\ item'[w] = item[w]
    BY <1>1 DEF Types
  <1>10. TakenInv'
    <2>1. EofTaken' = IF x = Eof THEN EofTaken \cup {v} ELSE EofTaken
      BY <1>1, <1>9 DEF EofTaken
    <2>2. v \notin EofTaken
      BY <1>1 DEF EofTaken
    <2>3. IsFiniteSet(EofTaken) /\ Cardinality(EofTaken) \in Nat
      BY Subsets DEF EofTaken
    <2>4. Cardinality(EofTaken') = IF x = Eof THEN Cardinality(EofTaken) + 1 ELSE Cardinality(EofTaken)
      BY <2>1, <2>2, <2>3, FS_AddElement
    <2> QED  BY <1>0, <1>3, <1>6, <2>4 DEF TakenInv
  <1>11. DoneInv'
    <2>1. Done' = Done
      BY <1>1, <1>9 DEF Done
    <2> QED  BY <1>1, <2>1 DEF DoneInv, EofsIn, ended
  <1>12. OnceInv'
    <2> SUFFICES ASSUME NEW t \in Tasks PROVE OnceInv!(t)'
      BY DEF OnceInv
    <2>1. \A w \in Workers : WorksOn(w, t)' <=> WorksOn(w, t) \/ (w = v /\ x = t)
      BY <1>1, <1>9 DEF WorksOn
    <2>2. OnceInv!(t)
      BY DEF OnceInv
    <2>3. CASE x # t
      <3>1. t <= taken' <=> t <= taken
        <4>1. CASE taken + 1 <= NumTasks
          BY <1>0, <1>3, <1>4, <2>3, <4>1 DEF Given, Tasks
        <4>2. CASE taken + 1 > NumTasks
          BY <1>0, <1>3, <4>2 DEF Tasks
        <4> QED  BY <1>0, <4>1, <4>2
      <3> QED  BY <1>1, <2>1, <2>2, <2>3, <3>1
    <2>4. CASE x = t
      <3>1. t = taken + 1 /\ ~ t <= taken /\ t <= taken'
        BY <1>0, <1>3, <1>5, <2>4
      <3> QED  BY <1>1, <2>1, <2>2, <2>4, <3>1
    <2> QED  BY <2>3, <2>4
  <1> QED  BY <1>7, <1>8, <1>10, <1>11, <1>12

(* A worker puts the result of its item, and is done if that is NULL. *)
LEMMA StepWork ==
    ASSUME IInv, NEW v \in Workers, Work(v)
    PROVE  IInv'
  <1> USE NumTasksAssumption, EofAssumption DEF IInv
  <1> DEFINE x == item[v]
             n == Len(results)
  <1>0. x \in Tasks \cup {Eof} /\ results \in Seq(Tasks \cup {Eof}) /\ worker[v] = "work"
    BY DEF Types, Work, SetResult
  <1>1. /\ worker' = [worker EXCEPT ![v] = IF x = Eof THEN "done" ELSE "priority"]
        /\ results' = Append(results, x)
        /\ UNCHANGED << regular_tasks, priority_tasks, active, item, made, eofs, completer, completed >>
    BY DEF Work, SetResult
  <1>2. /\ results' \in Seq(Tasks \cup {Eof}) /\ n \in Nat /\ Len(results') = n + 1
        /\ \A i \in 1 .. n : results'[i] = results[i]
        /\ results'[n + 1] = x
    BY <1>0, <1>1, Appended
  <1>3. /\ worker'[v] = IF x = Eof THEN "done" ELSE "priority"
        /\ \A w \in Workers \ {v} : worker'[w] = worker[w]
    BY <1>1 DEF Types
  <1>4. Types'
    BY <1>1, <1>2 DEF Types
  <1>5. RegularInv' /\ TakenInv'
    <2>1. EofTaken' = EofTaken /\ taken' = taken
      BY <1>0, <1>1, <1>3 DEF EofTaken, taken
    <2> QED  BY <1>1, <2>1 DEF RegularInv, TakenInv, Given
  <1>6. DoneInv'
    <2>1. Done' = (IF x = Eof THEN Done \cup {v} ELSE Done) /\ v \notin Done
      BY <1>0, <1>3 DEF Done
    <2>2. IsFiniteSet(Done) /\ Cardinality(Done) \in Nat
      BY Subsets DEF Done
    <2>3. Cardinality(Done') = IF x = Eof THEN Cardinality(Done) + 1 ELSE Cardinality(Done)
      BY <2>1, <2>2, FS_AddElement
    <2>4. Cardinality(EofsIn(results)') =
              IF x = Eof THEN Cardinality(EofsIn(results)) + 1 ELSE Cardinality(EofsIn(results))
      <3>1. EofsIn(results)' = EofsIn(Append(results, x))
        BY <1>1 DEF EofsIn
      <3> QED  BY <1>0, <3>1, EofsAppended
    <2>5. Cardinality(EofsIn(results)) \in Nat
      BY <1>0, EofsFinite
    <2>6. ended' = ended /\ ended \in Nat
      BY <1>1, WorkerCount DEF ended, Types
    <2>7. Cardinality(EofsIn(results)') + ended' = Cardinality(Done')
      BY <2>2, <2>3, <2>4, <2>5, <2>6 DEF DoneInv
    <2>8. results'[Len(results')] # Eof => Done' # Workers
      BY <1>2, <1>3 DEF Done
    <2> QED  BY <1>1, <2>7, <2>8 DEF DoneInv
  <1>7. OnceInv'
    <2> SUFFICES ASSUME NEW t \in Tasks PROVE OnceInv!(t)'
      BY DEF OnceInv
    <2>0. OnceInv!(t) /\ taken' = taken
      BY <1>1 DEF OnceInv, taken
    <2>1. /\ \A w \in Workers : WorksOn(w, t)' <=> WorksOn(w, t) /\ w # v
          /\ WorksOn(v, t) <=> x = t
      BY <1>0, <1>1, <1>3 DEF WorksOn
    <2>2. \A i \in 1 .. Len(results') : i \in 1 .. n \/ i = n + 1
      BY <1>2
    <2>3. CASE x # t
      <3>1. \A i \in 1 .. Len(results') : results'[i] = t <=> i \in 1 .. n /\ results[i] = t
        BY <1>2, <2>2, <2>3
      <3>2. \A i \in 1 .. n : i \in 1 .. Len(results') /\ results'[i] = results[i]
        BY <1>2
      <3>3. \A w \in Workers : WorksOn(w, t)' <=> WorksOn(w, t)
        BY <2>1, <2>3
      <3> QED  BY <1>1, <2>0, <3>1, <3>2, <3>3
    <2>4. CASE x = t
      <3>1. \A w \in Workers : ~ WorksOn(w, t)'
        BY <2>0, <2>1, <2>4
      <3>2. \A i \in 1 .. n : results[i] # t
        BY <2>0, <2>1, <2>4
      <3>3. \A i \in 1 .. Len(results') : results'[i] = t <=> i = n + 1
        BY <1>2, <2>2, <2>4, <3>2
      <3>4. t <= taken /\ \A i \in 1 .. Len(completed) : completed[i] # t
        BY <2>0, <2>1, <2>4
      <3>5. n + 1 \in 1 .. Len(results')
        BY <1>2
      <3> QED  BY <1>1, <2>0, <3>1, <3>3, <3>4, <3>5
    <2> QED  BY <2>3, <2>4
  <1> QED  BY <1>4, <1>5, <1>6, <1>7

(* What a result taken from the head leaves, for the two kinds of result. *)
LEMMA StepTakeResult ==
    ASSUME IInv, NEW r \in Tasks \cup {Eof}, TakeResult(r), completer = "results",
           UNCHANGED << made, eofs >>,
           \/ r # Eof /\ active' = active /\ completer' = completer /\ completed' = Append(completed, r)
           \/ r = Eof /\ active # 1 /\ active' = active - 1 /\ completer' = completer
                      /\ completed' = completed
           \/ r = Eof /\ active = 1 /\ active' = active /\ completer' = "release"
                      /\ completed' = completed
    PROVE  IInv'
  <1> USE NumTasksAssumption, EofAssumption DEF IInv
  <1> DEFINE n == Len(results)
             m == Len(completed)
  <1>0. /\ results \in Seq(Tasks \cup {Eof}) /\ results # << >> /\ r = Head(results)
        /\ results' = Tail(results)
        /\ UNCHANGED << regular_tasks, priority_tasks, worker, item >>
    BY DEF TakeResult, Types, workerVars
  <1>1. /\ results' \in Seq(Tasks \cup {Eof}) /\ n \in Nat \ {0} /\ Len(results') = n - 1
        /\ r = results[1]
        /\ \A i \in 1 .. n - 1 : results'[i] = results[i + 1]
    BY <1>0, Taken
  <1>2. /\ m \in Nat /\ completed' \in Seq(Tasks)
        /\ \A i \in 1 .. m : completed'[i] = completed[i]
        /\ r # Eof => Len(completed') = m + 1 /\ completed'[m + 1] = r
        /\ r = Eof => completed' = completed
    <2>1. CASE r = Eof
      BY <2>1 DEF Types
    <2>2. CASE r # Eof
      <3>1. completed \in Seq(Tasks) /\ r \in Tasks /\ completed' = Append(completed, r)
        BY <2>2 DEF Types
      <3> QED  BY <2>2, <3>1, Appended
    <2> QED  BY <2>1, <2>2
  <1>3. active \in 1 .. NumWorkers /\ active' \in 1 .. NumWorkers /\ NumWorkers \in Nat \ {0}
    BY WorkerCount DEF Types
  <1>4. Types'
    BY <1>0, <1>1, <1>2, <1>3 DEF Types
  <1>5. RegularInv' /\ TakenInv'
    <2>1. EofTaken' = EofTaken /\ taken' = taken
      BY <1>0 DEF EofTaken, taken
    <2> QED  BY <1>0, <2>1 DEF RegularInv, TakenInv, Given
  <1>6. DoneInv'
    <2>1. Done' = Done
      BY <1>0 DEF Done
    <2>2. Cardinality(EofsIn(results)') =
              IF r = Eof THEN Cardinality(EofsIn(results)) - 1 ELSE Cardinality(EofsIn(results))
      <3>1. EofsIn(results)' = EofsIn(Tail(results))
        BY <1>0 DEF EofsIn
      <3> QED  BY <1>0, <3>1, EofsTaken
    <2>3. Cardinality(EofsIn(results)) \in Nat
      BY <1>0, EofsFinite
    <2>4. ended' = IF r = Eof THEN ended + 1 ELSE ended
      <3>1. CASE r # Eof
        BY <3>1 DEF ended
      <3>2. CASE r = Eof /\ active # 1
        <4>1. ended' = NumWorkers - (active - 1)
          BY <3>2 DEF ended
        <4>2. ended = NumWorkers - active
          BY DEF ended
        <4> HIDE DEF ended
        <4> QED  BY <1>3, <3>2, <4>1, <4>2
      <3>3. CASE r = Eof /\ active = 1
        <4>1. ended' = NumWorkers
          BY <3>3 DEF ended
        <4> QED  BY <1>3, <3>3, <4>1 DEF ended
      <3> QED  BY <3>1, <3>2, <3>3
    <2>5. ended \in Nat
      BY <1>3 DEF ended
    <2>6. Cardinality(EofsIn(results)') + ended' = Cardinality(Done')
      BY <2>1, <2>2, <2>3, <2>4, <2>5 DEF DoneInv
    <2>7. results' # << >> => results'[Len(results')] = results[n]
      <3> SUFFICES ASSUME results' # << >> PROVE results'[Len(results')] = results[n]
        OBVIOUS
      <3>1. Len(results') # 0
        BY <1>1
      <3> QED  BY <1>1, <3>1
    <2>8. results' # << >> /\ results'[Len(results')] # Eof => Done' # Workers
      BY <1>0, <2>1, <2>7 DEF DoneInv
    <2> QED  BY <2>6, <2>8 DEF DoneInv
  <1>7. OnceInv'
    <2> SUFFICES ASSUME NEW t \in Tasks PROVE OnceInv!(t)'
      BY DEF OnceInv
    <2>0. OnceInv!(t) /\ taken' = taken /\ \A w \in Workers : WorksOn(w, t)' <=> WorksOn(w, t)
      BY <1>0 DEF OnceInv, taken, WorksOn
    <2>1. \A i \in 1 .. Len(results') : i + 1 \in 1 .. n /\ results'[i] = results[i + 1]
      BY <1>1
    <2>2. \A i \in 1 .. n : i = 1 \/ (i - 1 \in 1 .. Len(results') /\ results'[i - 1] = results[i])
      BY <1>1
    <2>3. ASSUME NEW i \in 1 .. Len(results'), NEW j \in 1 .. Len(results'), results'[i] = t, results'[j] = t
          PROVE  i = j
      <3>1. results[i + 1] = t /\ results[j + 1] = t /\ i + 1 \in 1 .. n /\ j + 1 \in 1 .. n
        BY <2>1, <2>3
      <3>2. i + 1 = j + 1
        BY <2>0, <3>1
      <3> QED  BY <3>2
    <2>4. \A w \in Workers : \A i \in 1 .. Len(results') : ~ (WorksOn(w, t)' /\ results'[i] = t)
      BY <2>0, <2>1
    <2>5. 1 \in 1 .. n
      BY <1>1
    <2>6. CASE r # t
      <3>1. (\E i \in 1 .. Len(results') : results'[i] = t) <=> \E i \in 1 .. n : results[i] = t
        BY <1>1, <2>1, <2>2, <2>6
      <3>2. \A i \in 1 .. Len(completed') : completed'[i] = t => i \in 1 .. m /\ completed[i] = t
        BY <1>2, <2>6
      <3>3. \A i \in 1 .. m : i \in 1 .. Len(completed')
        BY <1>2
      <3>4. \A i, j \in 1 .. Len(completed') : completed'[i] = t /\ completed'[j] = t => i = j
        BY <2>0, <3>2
      <3>5. \A w \in Workers : \A i \in 1 .. Len(completed') : ~ (WorksOn(w, t)' /\ completed'[i] = t)
        BY <2>0, <3>2
      <3>6. \A i \in 1 .. Len(results') : \A j \in 1 .. Len(completed') :
                ~ (results'[i] = t /\ completed'[j] = t)
        BY <2>0, <2>1, <3>2
      <3>7. (\E i \in 1 .. Len(completed') : completed'[i] = t) <=> \E i \in 1 .. m : completed[i] = t
        BY <1>2, <3>2, <3>3
      <3> QED  BY <2>0, <2>3, <2>4, <3>1, <3>4, <3>5, <3>6, <3>7
    <2>7. CASE r = t
      <3>0. \A i \in 1 .. n : results[i] = t => i = 1
        BY <1>1, <2>0, <2>5, <2>7
      <3>1. ASSUME NEW i \in 1 .. Len(results') PROVE results'[i] # t
        <4>1. i \in Nat \ {0} /\ i + 1 # 1
          BY <1>1
        <4> QED  BY <2>1, <3>0, <4>1
      <3>2. \A i \in 1 .. m : completed[i] # t
        BY <1>1, <2>0, <2>5, <2>7
      <3>3. \A i \in 1 .. Len(completed') : completed'[i] = t <=> i = m + 1
        BY <1>2, <2>7, <3>2
      <3>4. \A w \in Workers : ~ WorksOn(w, t)'
        BY <1>1, <2>0, <2>5, <2>7
      <3>5. t <= taken
        BY <1>1, <2>0, <2>5, <2>7
      <3>6. m + 1 \in 1 .. Len(completed')
        <4>1. r # Eof
          BY <2>7 DEF Tasks
        <4> QED  BY <1>2, <4>1
      <3> QED  BY <2>0, <3>1, <3>3, <3>4, <3>5, <3>6
    <2> QED  BY <2>6, <2>7
  <1> QED  BY <1>4, <1>5, <1>6, <1>7

LEMMA StepRelease ==
    ASSUME IInv, Release
    PROVE  IInv'
  <1> USE DEF IInv, Release, coordinatorVars, rings, workerVars
  <1>1. Types' /\ RegularInv' /\ TakenInv' /\ OnceInv'
    BY DEF Types, RegularInv, TakenInv, OnceInv, Given, taken, EofTaken, WorksOn
  <1>2. DoneInv'
    BY DEF DoneInv, EofsIn, Done, ended
  <1> QED  BY <1>1, <1>2

LEMMA StepInv == IInv /\ [Next]_vars => IInv'
  <1> SUFFICES ASSUME IInv, [Next]_vars PROVE IInv'
    OBVIOUS
  <1>1. CASE UNCHANGED vars
    BY <1>1 DEF vars, coordinatorVars, rings, workerVars, IInv, Types, RegularInv, TakenInv, DoneInv,
                OnceInv, Given, taken, EofTaken, EofsIn, Done, ended, WorksOn
  <1>2. CASE Maker
    BY <1>2, StepMaker
  <1>3. ASSUME NEW w \in Workers, Worker(w) PROVE IInv'
    <2>1. CASE Work(w)
      BY <2>1, StepWork
    <2>2. CASE Poll(w)
      <3>1. UNCHANGED << made, eofs, completer, completed >>
        BY <2>2 DEF Poll
      <3> QED  BY <2>2, <3>1, StepPollNothing, StepTake DEF Poll
    <2> QED  BY <1>3, <2>1, <2>2 DEF Worker
  <1>4. CASE Complete
    <2>0. completer = "results" /\ UNCHANGED << made, eofs >> /\ Eof \in Tasks \cup {Eof}
      BY <1>4 DEF Complete
    <2>1. ASSUME NEW t \in 1 .. NumTasks, GetResult(t), completed' = Append(completed, t),
                 completer' = completer
          PROVE  IInv'
      BY <2>0, <2>1, StepTakeResult DEF GetResult, Tasks
    <2>2. ASSUME CountEof \/ LastEof, completed' = completed,
                 (CountEof /\ completer' = completer) \/ (LastEof /\ completer' = "release")
          PROVE  IInv'
      BY <2>0, <2>2, StepTakeResult DEF CountEof, LastEof
    <2> QED  BY <1>4, <2>1, <2>2 DEF Complete
  <1>5. CASE Release
    BY <1>5, StepRelease
  <1> QED  BY <1>1, <1>2, <1>3, <1>4, <1>5 DEF Next, Completer, Terminated

LEMMA SpecInv == Spec => []IInv
  BY InitInv, StepInv, PTL DEF Spec

-----------------------------------------------------------------------------
(* The last NULL result is the last of all: everybody is done, nothing is in a
   ring. *)
LEMMA InvQuiet == IInv => QuietAtRelease
  <1> SUFFICES ASSUME IInv, completer # "results"
               PROVE  eofs = NumWorkers /\ CoordinatorQuiet
    BY DEF QuietAtRelease
  <1> USE DEF IInv
  <1>1. Done \in SUBSET Workers /\ EofTaken \in SUBSET Workers /\ Done \subseteq EofTaken
    BY DEF Done, EofTaken
  <1>2. results \in Seq(Tasks \cup {Eof}) /\ Cardinality(EofsIn(results)) \in Nat
    BY EofsFinite DEF Types
  <1>3. Done = Workers /\ Cardinality(EofsIn(results)) = 0
    <2>1. Cardinality(EofsIn(results)) + NumWorkers = Cardinality(Done)
      BY DEF DoneInv, ended
    <2>2. Cardinality(Done) \in Nat /\ Cardinality(Done) <= NumWorkers
      BY <1>1, Subsets
    <2>3. Cardinality(Done) = NumWorkers /\ Cardinality(EofsIn(results)) = 0
      BY <1>2, <2>1, <2>2, WorkerCount
    <2> QED  BY <1>1, <2>3, Subsets
  <1>4. results = << >>
    <2> SUFFICES ASSUME results # << >> PROVE FALSE
      OBVIOUS
    <2>1. Len(results) \in 1 .. Len(results)
      BY <1>2
    <2>2. Len(results) \in EofsIn(results)
      BY <1>3, <2>1 DEF DoneInv, EofsIn
    <2> QED  BY <1>2, <1>3, <2>2, EofsFinite, FS_EmptySet
  <1>5. taken = NumTasks + NumWorkers
    <2>1. EofTaken = Workers
      BY <1>1, <1>3
    <2>2. Cardinality(EofTaken) = NumWorkers
      BY <2>1 DEF NumWorkers
    <2>3. taken \in Int
      BY DEF taken, Types
    <2> QED  BY <2>2, <2>3, WorkerCount, NumTasksAssumption DEF TakenInv
  <1>6. eofs = NumWorkers /\ Len(regular_tasks) = 0
    <2>1. made \in 0 .. NumTasks /\ eofs \in 0 .. NumWorkers /\ Len(regular_tasks) \in Nat
      BY DEF Types
    <2>2. made + (eofs - Len(regular_tasks)) = NumTasks + NumWorkers
      BY <1>5 DEF taken
    <2> QED  BY <2>1, <2>2, WorkerCount, NumTasksAssumption
  <1>7. regular_tasks = << >>
    BY <1>6 DEF Types
  <1>8. \A w \in Workers : worker[w] = "done"
    BY <1>3 DEF Done
  <1> QED  BY <1>4, <1>6, <1>7, <1>8 DEF CoordinatorQuiet, rings, Types

(* When the completer releases the rings they are empty, as `release` asserts,
   and neither the maker nor a worker will use them again. *)
THEOREM ReleaseIsQuiet == Spec => []QuietAtRelease
  BY SpecInv, InvQuiet, PTL

(* All tasks have been completed by then. *)
LEMMA AllCompleted ==
    ASSUME IInv, completer # "results"
    PROVE  Len(completed) = NumTasks
  <1> USE DEF IInv
  <1>1. eofs = NumWorkers /\ results = << >> /\ regular_tasks = << >>
        /\ \A w \in Workers : worker[w] = "done"
    BY InvQuiet DEF QuietAtRelease, CoordinatorQuiet, rings
  <1>2. NumTasks <= taken
    <2>1. made = NumTasks
      BY <1>1, WorkerCount DEF RegularInv
    <2>2. taken = NumTasks + (NumWorkers - 0)
      BY <1>1, <2>1 DEF taken
    <2> QED  BY <2>2, WorkerCount, NumTasksAssumption
  <1> DEFINE n == Len(completed)
  <1>3. n \in Nat /\ completed \in [1 .. n -> Tasks]
    BY DEF Types
  <1>4. ASSUME NEW t \in Tasks PROVE \E i \in 1 .. n : completed[i] = t
    <2>1. t <= taken
      BY <1>2, NumTasksAssumption DEF Tasks, taken, Types
    <2>2. Len(results) = 0
      BY <1>1
    <2> QED  BY <1>1, <2>1, <2>2 DEF OnceInv, WorksOn
  <1>5. \A i, j \in 1 .. n : completed[i] = completed[j] => i = j
    BY <1>3 DEF OnceInv
  <1>6. completed \in Bijection(1 .. n, Tasks)
    BY <1>3, <1>4, <1>5 DEF Bijection, Injection, Surjection, IsInjective
  <1>7. IsFiniteSet(1 .. n) /\ Cardinality(1 .. n) = n
    <2> HIDE DEF n
    <2> QED  BY <1>3, FS_Interval
  <1>8. Cardinality(Tasks) = NumTasks
    BY FS_Interval, NumTasksAssumption DEF Tasks
  <1> QED  BY <1>6, <1>7, <1>8, FS_Bijection DEF ExistsBijection

(* A batch run makes, completes and returns as the service does: what the
   completer takes from the results has been made, and is not completed yet. *)
THEOREM ImplementsService == Spec => Batch!Spec
  <1> USE NumTasksAssumption, EofAssumption
  <1> DEFINE Over == completer = "returned"
  <1>1. Init => Batch!Init
    BY DEF Init, Batch!Init
  <1>2. IInv /\ [Next]_vars => [Batch!Next]_(Batch!vars)
    <2> SUFFICES ASSUME IInv, [Next]_vars
                 PROVE  Batch!Next \/ UNCHANGED << made, completed, Over >>
      BY DEF Batch!vars
    <2>1. CASE MakeTask
      <3>1. ~ Over
        BY <2>1, InvQuiet, WorkerCount DEF QuietAtRelease, IInv, RegularInv, MakeTask
      <3> QED  BY <2>1, <3>1 DEF MakeTask, Batch!Next, Batch!Make
    <2>2. ASSUME NEW t \in 1 .. NumTasks, completer = "results", GetResult(t),
                 completed' = Append(completed, t), completer' = completer, made' = made
          PROVE  Batch!Complete(t)
      <3>1. results \in Seq(Tasks \cup {Eof}) /\ results # << >> /\ Head(results) = t
        BY <2>2 DEF GetResult, TakeResult, IInv, Types
      <3>2. 1 \in 1 .. Len(results) /\ results[1] = t
        BY <3>1, Taken
      <3>3. t <= taken /\ \A i \in 1 .. Len(completed) : completed[i] # t
        BY <3>2 DEF IInv, OnceInv, Tasks
      <3>4. t <= made
        <4>1. /\ made \in 0 .. NumTasks /\ eofs \in Nat /\ Len(regular_tasks) \in Nat
              /\ eofs > 0 => made = NumTasks
          BY WorkerCount DEF IInv, Types, RegularInv
        <4>2. t <= made + (eofs - Len(regular_tasks))
          BY <3>3 DEF taken
        <4>3. CASE eofs = 0
          BY <4>1, <4>2, <4>3
        <4>4. CASE eofs # 0
          <5>1. made = NumTasks
            BY <4>1, <4>4
          <5> QED  BY <5>1
        <4> QED  BY <4>3, <4>4
      <3> QED  BY <2>2, <3>3, <3>4 DEF Batch!Complete, Batch!IsCompleted
    <2>3. CASE Release
      <3>1. Len(completed) = NumTasks
        BY <2>3, AllCompleted DEF Release
      <3> QED  BY <2>3, <3>1 DEF Release, Batch!Next, Batch!Return
    <2>4. CASE Complete
      <3>1. CASE \E t \in 1 .. NumTasks : GetResult(t) /\ completed' = Append(completed, t)
                                          /\ completer' = completer
        <4>1. PICK t \in 1 .. NumTasks : GetResult(t) /\ completed' = Append(completed, t)
                                          /\ completer' = completer
          BY <3>1
        <4> QED  BY <2>2, <2>4, <4>1 DEF Complete, Batch!Next
      <3>2. CASE UNCHANGED completed /\ completer' # "returned"
        BY <2>4, <3>2 DEF Complete
      <3> QED  BY <2>4, <3>1, <3>2 DEF Complete
    <2>5. CASE UNCHANGED << made, completer, completed >>
      BY <2>5
    <2> QED
      BY <2>1, <2>3, <2>4, <2>5 DEF Next, Maker, MakeEof, Worker, Work, Poll, Completer, Terminated, vars
  <1> QED  BY <1>1, <1>2, SpecInv, PTL DEF Spec, Batch!Spec
=============================================================================
