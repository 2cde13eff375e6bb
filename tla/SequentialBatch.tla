--------------------------- MODULE SequentialBatch ---------------------------
(***************************************************************************)
(* A batch run under the sequential coordinator: runtime/batch.c with      *)
(* runtime/coordinator_sequential.c.  One maker thread, NumWorkers worker  *)
(* threads and the completer, which is the caller's thread.                *)
(*                                                                         *)
(* Everything the maker generates has an ordinal: 1 .. NumTasks are the    *)
(* tasks of its callback, the NumWorkers ordinals after that the NULL      *)
(* tasks of gen_complete.  The code sees of an ordinal only whether it is  *)
(* NULL; a result carries the ordinal of its task.  Rings are the bounded  *)
(* fifos that RingBuffer implements: ring_put waits for space, ring_take   *)
(* for an entry.                                                           *)
(***************************************************************************)
EXTENDS Integers, Sequences, FiniteSets

CONSTANTS NumWorkers,   \* wcount, and base.capacity of the coordinator
          NumTasks

ASSUME NumWorkersAssumption == NumWorkers \in Nat \ {0}
ASSUME NumTasksAssumption   == NumTasks \in Nat

VARIABLES pickup,       \* ring: the workers in the order tasks went to them
          worker_idle,  \* ring: the workers that can get a task
          task,         \* ring per worker: tasks for it
          result,       \* ring per worker: results from it
          active,       \* base.active
          made,         \* ordinal of the last thing the maker generated
          maker,        \* where the maker thread is
          phase,        \* the loop it is in: tasks, eof to idle, eof to busy
          target,       \* its local variable `worker`
          worker,       \* where each worker thread is
          item,         \* the task a worker works on
          completer,    \* where the completer is
          source,       \* its local variable `worker`
          completed     \* results handed to the completer callback

makerVars     == << made, maker, phase, target >>
workerVars    == << worker, item >>
completerVars == << active, completer, source, completed >>
vars == << pickup, worker_idle, task, result, makerVars, workerVars, completerVars >>

Workers  == 0 .. NumWorkers - 1
Ordinals == 1 .. NumTasks + NumWorkers
IsNull(i) == i > NumTasks

PickupCapacity == NumWorkers
IdleCapacity   == NumWorkers + 2
TaskCapacity   == 3
ResultCapacity == NumWorkers

(* aktive_coordinator_new_sequential; then the threads start. *)
Init == /\ pickup = << >>
        /\ worker_idle = [k \in 1 .. NumWorkers |-> k - 1]
        /\ task = [w \in Workers |-> << >>]
        /\ result = [w \in Workers |-> << >>]
        /\ active = NumWorkers
        /\ made = 0
        /\ maker = "next"
        /\ phase = "tasks"
        /\ target = 0
        /\ worker = [w \in Workers |-> "get"]
        /\ item = [w \in Workers |-> 0]
        /\ completer = "order"
        /\ source = 0
        /\ completed = << >>

-----------------------------------------------------------------------------
(* The maker: task_maker, gen_regular and gen_complete. *)

(* PMAKER returns a task: gen_regular begins. *)
MakeTask == /\ maker = "next" /\ phase = "tasks"
            /\ made < NumTasks
            /\ made' = made + 1
            /\ maker' = "idle"
            /\ UNCHANGED << phase, target, pickup, worker_idle, task, result,
                            workerVars, completerVars >>

(* PMAKER returns NULL: gen_complete begins. *)
MakeEnd == /\ maker = "next" /\ phase = "tasks"
           /\ made = NumTasks
           /\ phase' = "eof_idle"
           /\ UNCHANGED << made, maker, target, pickup, worker_idle, task, result,
                           workerVars, completerVars >>

TakeIdle == /\ worker_idle # << >>
            /\ target' = Head(worker_idle)
            /\ worker_idle' = Tail(worker_idle)
            /\ maker' = "order"
            /\ UNCHANGED << phase, pickup, task, result, workerVars, completerVars >>

ChooseWorker == /\ maker = "idle"
                /\ TakeIdle
                /\ UNCHANGED made

(* `leftover` of gen_complete: NULL tasks still to send. *)
leftover == NumTasks + NumWorkers - made

(* Both loops of gen_complete take an idle worker for the next NULL task. *)
ChooseWorkerEof == /\ maker = "next" /\ phase \in {"eof_idle", "eof_busy"}
                   /\ leftover > 0
                   /\ TakeIdle
                   /\ made' = made + 1

(* A faulty form of NoneIdle: gen_complete without its second loop. *)
NoneIdleEnds == /\ maker = "next" /\ phase = "eof_idle"
                /\ leftover > 0
                /\ worker_idle = << >>
                /\ maker' = "done"
                /\ UNCHANGED << made, phase, target, pickup, worker_idle, task, result,
                                workerVars, completerVars >>

(* The first loop ends when no worker is idle; the second waits for one. *)
NoneIdle == /\ maker = "next" /\ phase = "eof_idle"
            /\ leftover > 0
            /\ worker_idle = << >>
            /\ phase' = "eof_busy"
            /\ UNCHANGED << made, maker, target, pickup, worker_idle, task, result,
                            workerVars, completerVars >>

(* A faulty form of Order: workers are believed to get tasks in turn. *)
OrderInTurn == /\ maker = "order"
               /\ Len(pickup) < PickupCapacity
               /\ pickup' = Append(pickup, (made - 1) % NumWorkers)
               /\ maker' = "assign"
               /\ UNCHANGED << made, phase, target, worker_idle, task, result,
                               workerVars, completerVars >>

(* ring_put (pickup, worker) *)
Order == /\ maker = "order"
         /\ Len(pickup) < PickupCapacity
         /\ pickup' = Append(pickup, target)
         /\ maker' = "assign"
         /\ UNCHANGED << made, phase, target, worker_idle, task, result,
                         workerVars, completerVars >>

(* ring_put (task[worker], task).  After the last NULL task the maker touches
   no ring anymore. *)
Assign == /\ maker = "assign"
          /\ Len(task[target]) < TaskCapacity
          /\ task' = [task EXCEPT ![target] = Append(@, made)]
          /\ maker' = IF phase # "tasks" /\ leftover = 0 THEN "done" ELSE "next"
          /\ UNCHANGED << made, phase, target, pickup, worker_idle, result,
                          workerVars, completerVars >>

Maker == \/ MakeTask \/ MakeEnd \/ ChooseWorker \/ ChooseWorkerEof \/ NoneIdle
         \/ Order \/ Assign

-----------------------------------------------------------------------------
(* A worker thread: task_worker, get_task and set_result.  The callback
   PWORKER works on nothing but its task and the worker's own state. *)

(* A faulty form of GetTask: the worker is idle again as soon as it has
   taken its task. *)
GetTaskIdle(w) == /\ worker[w] = "get"
                  /\ task[w] # << >>
                  /\ item' = [item EXCEPT ![w] = Head(task[w])]
                  /\ task' = [task EXCEPT ![w] = Tail(@)]
                  /\ worker_idle' = Append(worker_idle, w)
                  /\ worker' = [worker EXCEPT ![w] = "result"]
                  /\ UNCHANGED << pickup, result, makerVars, completerVars >>

GetTask(w) == /\ worker[w] = "get"
              /\ task[w] # << >>
              /\ item' = [item EXCEPT ![w] = Head(task[w])]
              /\ task' = [task EXCEPT ![w] = Tail(@)]
              /\ worker' = [worker EXCEPT ![w] = "result"]
              /\ UNCHANGED << pickup, worker_idle, result, makerVars, completerVars >>

(* ring_put (result[worker], result); a NULL result is the worker's last. *)
SetResult(w) == /\ worker[w] = "result"
                /\ Len(result[w]) < ResultCapacity
                /\ result' = [result EXCEPT ![w] = Append(@, item[w])]
                /\ worker' = [worker EXCEPT ![w] =
                                 IF IsNull(item[w]) THEN "done" ELSE "idle"]
                /\ UNCHANGED << item, pickup, worker_idle, task, makerVars, completerVars >>

(* ring_put (worker_idle, worker) *)
BecomeIdle(w) == /\ worker[w] = "idle"
                 /\ Len(worker_idle) < IdleCapacity
                 /\ worker_idle' = Append(worker_idle, w)
                 /\ worker' = [worker EXCEPT ![w] = "get"]
                 /\ UNCHANGED << item, pickup, task, result, makerVars, completerVars >>

Worker(w) == GetTask(w) \/ SetResult(w) \/ BecomeIdle(w)

-----------------------------------------------------------------------------
(* The completer: task_completer, get_result and the end of aktive_batch_run. *)

(* ring_take (pickup, worker) *)
TakeOrder == /\ completer = "order"
             /\ pickup # << >>
             /\ source' = Head(pickup)
             /\ pickup' = Tail(pickup)
             /\ completer' = "result"
             /\ UNCHANGED << worker_idle, task, result, active, completed,
                             makerVars, workerVars >>

(* Faulty forms of TakeResult: the count of workers drops below one, the
   first NULL result ends the batch. *)
TakeResultToZero ==
    /\ completer = "result"
    /\ result[source] # << >>
    /\ result' = [result EXCEPT ![source] = Tail(@)]
    /\ LET r == Head(result[source]) IN
       IF ~ IsNull(r)
       THEN completed' = Append(completed, r) /\ completer' = "order" /\ UNCHANGED active
       ELSE /\ active' = active - 1
            /\ completer' = IF active' = 0 THEN "release" ELSE "order"
            /\ UNCHANGED completed
    /\ UNCHANGED << pickup, worker_idle, task, source, makerVars, workerVars >>

TakeResultFirstNull ==
    /\ completer = "result"
    /\ result[source] # << >>
    /\ result' = [result EXCEPT ![source] = Tail(@)]
    /\ LET r == Head(result[source]) IN
       IF IsNull(r)
       THEN completer' = "release" /\ UNCHANGED completed
       ELSE completed' = Append(completed, r) /\ completer' = "order"
    /\ UNCHANGED << active, pickup, worker_idle, task, source, makerVars, workerVars >>

(* ring_take (result[worker], result), and what get_result makes of it: a
   result for PCOMPLETER, or one more worker ended. *)
TakeResult ==
    /\ completer = "result"
    /\ result[source] # << >>
    /\ result' = [result EXCEPT ![source] = Tail(@)]
    /\ LET r == Head(result[source]) IN
       \/ /\ ~ IsNull(r)
          /\ completed' = Append(completed, r)
          /\ completer' = "order"
          /\ UNCHANGED active
       \/ /\ IsNull(r) /\ active # 1
          /\ active' = active - 1
          /\ completer' = "order"
          /\ UNCHANGED completed
       \/ /\ IsNull(r) /\ active = 1
          /\ completer' = "release"
          /\ UNCHANGED << active, completed >>
    /\ UNCHANGED << pickup, worker_idle, task, source, makerVars, workerVars >>

(* The last PCOMPLETER call and aktive_coordinator_release. *)
Release == /\ completer = "release"
           /\ completer' = "returned"
           /\ UNCHANGED << pickup, worker_idle, task, result, active, source, completed,
                           makerVars, workerVars >>

Completer == TakeOrder \/ TakeResult \/ Release

Ended == completer = "returned" /\ maker = "done" /\ \A w \in Workers : worker[w] = "done"

(* All threads have ended. *)
Terminated == Ended /\ UNCHANGED vars

Next == Maker \/ (\E w \in Workers : Worker(w)) \/ Completer \/ Terminated

Spec == Init /\ [][Next]_vars

(* The operating system runs every thread that is not waiting on a ring. *)
Fairness == /\ WF_vars(Maker)
            /\ \A w \in Workers : WF_vars(Worker(w))
            /\ WF_vars(Completer)

FairSpec == Spec /\ Fairness

-----------------------------------------------------------------------------
TypeOK == /\ pickup \in Seq(Workers)
          /\ worker_idle \in Seq(Workers)
          /\ task \in [Workers -> Seq(Ordinals)]
          /\ result \in [Workers -> Seq(Ordinals)]
          /\ active \in 1 .. NumWorkers
          /\ made \in 0 .. NumTasks + NumWorkers
          /\ maker \in {"next", "idle", "order", "assign", "done"}
          /\ phase \in {"tasks", "eof_idle", "eof_busy"}
          /\ target \in Workers
          /\ worker \in [Workers -> {"get", "result", "idle", "done"}]
          /\ item \in [Workers -> Ordinals \cup {0}]
          /\ completer \in {"order", "result", "release", "returned"}
          /\ source \in Workers
          /\ completed \in Seq(Ordinals)

(* The completer callback gets the results in the order of the tasks, each
   once, however the workers overtake each other. *)
InOrder == \A k \in 1 .. Len(completed) : completed[k] = k

(* The assertions of `release`, and what they do not test: when the completer
   releases the rings, no thread that could use them is left.  A maker or a
   worker still inside a ring would use freed memory. *)
QuietAtRelease ==
    completer \in {"release", "returned"} =>
        /\ pickup = << >> /\ worker_idle = << >>
        /\ \A w \in Workers : task[w] = << >> /\ result[w] = << >>
        /\ maker = "done" /\ \A w \in Workers : worker[w] = "done"
        /\ Len(completed) = NumTasks

(* Backpressure.  A slow completer holds the maker back: never more than
   NumWorkers + 2 tasks are under way.  A worker never has a second task
   waiting, and the ring of idle workers, which all workers share, is never
   full, so no worker is kept from its next task by another worker. *)
Backpressure == /\ made - Len(completed) <= NumWorkers + 2 + NumWorkers - active
                /\ \A w \in Workers : Len(task[w]) <= 1
                /\ Len(worker_idle) <= NumWorkers

(* The batch run ends with every task completed, in order: it implements the
   service that aktive_batch_run offers. *)
Batch == INSTANCE BatchService
             WITH Sequential <- TRUE,
                  made <- IF made > NumTasks THEN NumTasks ELSE made,
                  over <- completer = "returned"

ImplementsBatch == Batch!FairSpec

-----------------------------------------------------------------------------
(***************************************************************************)
(* The inductive invariant behind InOrder and QuietAtRelease.              *)
(*                                                                         *)
(* The completer has taken the results of the ordinals 1 .. consumed, the  *)
(* ring `pickup` tells, with the completer's `source`, which worker has    *)
(* the ordinals after that, and a worker has no others.  As a worker puts  *)
(* its results in the order of its tasks, the next result of the worker    *)
(* that has the next ordinal is the result of that ordinal.                *)
(***************************************************************************)
released == completer \in {"release", "returned"}
ended    == IF released THEN NumWorkers ELSE NumWorkers - active
consumed == Len(completed) + ended
offset   == IF completer = "result" THEN consumed + 1 ELSE consumed
ordered  == IF maker \in {"idle", "order"} THEN made - 1 ELSE made

AssignedTo(i) == IF i <= offset THEN source ELSE pickup[i - offset]

IsIdle(w)    == \E k \in 1 .. Len(worker_idle) : worker_idle[k] = w
Targeted(w)  == maker \in {"order", "assign"} /\ target = w
HasItem(w, i) == \/ maker = "assign" /\ target = w /\ i = made
                 \/ task[w] # << >> /\ i = task[w][1]
                 \/ worker[w] = "result" /\ i = item[w]
HasResult(w, i) == \E k \in 1 .. Len(result[w]) : result[w][k] = i

(* A worker is idle, the maker's target, or has one task at most. *)
PlacesInv == /\ \A w \in Workers :
                   /\ IsIdle(w) => worker[w] = "get" /\ task[w] = << >> /\ ~ Targeted(w)
                   /\ Targeted(w) => worker[w] = "get" /\ task[w] = << >>
                   /\ task[w] # << >> => worker[w] = "get" /\ Len(task[w]) = 1
             /\ \A j, k \in 1 .. Len(worker_idle) :
                   worker_idle[j] = worker_idle[k] => j = k

MakerInv == /\ phase = "tasks" => made <= NumTasks
            /\ phase # "tasks" => made >= NumTasks
            /\ maker = "idle" => phase = "tasks"
            /\ maker \in {"idle", "order", "assign"} => made >= 1
            /\ maker \in {"order", "assign"} /\ phase # "tasks" => made > NumTasks
            /\ maker = "next" /\ phase # "tasks" => leftover > 0
            /\ maker = "done" => leftover = 0

CompleterInv == /\ Len(completed) <= NumTasks
                /\ Len(completed) < NumTasks => active = NumWorkers /\ ~ released
                /\ released => active = 1
                /\ offset + Len(pickup) = ordered

OwnersInv == /\ \A i \in consumed + 1 .. ordered :
                   HasItem(AssignedTo(i), i) \/ HasResult(AssignedTo(i), i)
             /\ \A w \in Workers : \A i \in Ordinals :
                   HasItem(w, i) \/ HasResult(w, i) =>
                       i \in consumed + 1 .. ordered /\ AssignedTo(i) = w

ResultsInv == \A w \in Workers :
                 /\ \A j, k \in 1 .. Len(result[w]) : j < k => result[w][j] < result[w][k]
                 /\ \A i \in Ordinals : HasItem(w, i) =>
                       \A k \in 1 .. Len(result[w]) : result[w][k] < i

OrderInv == /\ TypeOK /\ PlacesInv /\ MakerInv /\ CompleterInv
            /\ OwnersInv /\ ResultsInv /\ InOrder

(* Each NULL task goes to a worker of its own. *)
EofSent == {w \in Workers : \/ worker[w] = "done"
                            \/ \E i \in Ordinals : IsNull(i) /\ HasItem(w, i)}

EofInv == Cardinality(EofSent) = IF ordered > NumTasks THEN ordered - NumTasks ELSE 0
=============================================================================
